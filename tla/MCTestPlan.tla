----------------------------- MODULE MCTestPlan -----------------------------
(***************************************************************************)
(* Instances of TestPlan for TLC.  The room for windows is 20 units where  *)
(* the code has 256 MiB less 128 KiB; 6 units stand for a size of 4 MiB,   *)
(* which 4 (for 64) windows of just do not fit.                            *)
(***************************************************************************)
EXTENDS TestPlan

Config(n, size, sizes, window, bwsizes) ==
  [num_agents |-> n, message_size |-> size,
   latency_message_sizes |-> sizes, bw_window_size |-> window, bw_message_sizes |-> bwsizes,
   run |-> [sweep |-> sizes # <<>>, bandwidth |-> bwsizes # <<>>]]

SomeConfigs ==
  { Config(1, 1, <<1>>, 4, <<1>>),             \* nobody to test with
    Config(2, 10, <<>>, 4, <<5, 6>>),           \* just fits, just does not
    Config(2, 11, <<10, 11>>, 4, <<20, 21>>),   \* limits of mailbox and buffer
    Config(2, 1, <<>>, 0, <<3, 7>>),            \* the window is left to the agent
    Config(2, 1, <<1, 11>>, 5, <<0, 7>>),       \* a size is, too
    Config(2, 1, <<1, 1>>, 0, <<21, 21>>),   \* sizes named twice
    Config(3, 1, <<1>>, 4, <<>>),
    Config(3, 11, <<>>, 4, <<6>>) }
=============================================================================
