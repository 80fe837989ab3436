----------------------------- MODULE MCCausalVm -----------------------------
(***************************************************************************)
(* Instances of the causal core.  A program class names the kinds of       *)
(* statement the programs of a run are made of.                            *)
(***************************************************************************)
EXTENDS CausalProperties

ChannelRewinds == {"assign", "send", "open", "reopen", "chan_send", "recv",
                   "slice", "tick", "anchor", "rewind"}
OneShotChannels == {"assign", "open", "chan_send", "recv", "anchor", "rewind",
                    "reset"}
Speculations == {"assign", "open", "chan_send", "recv", "anchor", "commit",
                 "speculate"}
ChannelSpeculations == Speculations \union {"rewind"}
SendSpeculations == {"assign", "move", "send", "commit", "speculate"}

\* Permutations of names the specification does not tell apart.
Symmetry == Permutations(Branch) \union Permutations(Var)
=============================================================================
