---------------------------- MODULE MCPropagate ----------------------------
EXTENDS Propagate, Parser, MCAnalyst

Ask(facts) == [facts |-> facts, block |-> TRUE]
Glance(facts) == [facts |-> facts, block |-> FALSE]
Session(s, n, rs) == [structure |-> s, workers |-> n, requests |-> rs]

\* Facts that contradict each other at once, or through APP; facts that are
\* solved in full or in part, with a constant, an entry or both unknown; what
\* propagation ignores, and what does not parse; two workers, a client that does
\* not wait, and then one that does.
MCSessions == {
  Session(Chain, 1, <<Ask(<<EQUAL(x, TOP), LESS(x, BOT)>>)>>),
  Session(Chain, 1, <<Ask(<<NLESS(TOP, APP(TOP, x))>>)>>),
  Session(Chain, 1, <<Ask(<<LESS(JOIN(x, I), x)>>)>>),
  Session(Holed, 1, <<Ask(<<EQUAL(APP(x, x), I)>>)>>),
  Session(Partial, 1, <<Ask(<<EQUAL(APP(F, I), F)>>)>>),
  Session(Chain, 1, <<Ask(<<LESS(QUOTE(x), Hole)>>), Ask(<<LESS(x, Bad)>>),
                      Ask(<<APP(x, x)>>)>>),
  Session(Diamond, 2, <<Glance(<<LESS(TOP, x), NLESS(x, BOT)>>),
                        Ask(<<LESS(x, y), LESS(y, I), NLESS(BOT, x)>>)>>)
  }

=============================================================================
