---------------------------- MODULE MCSessionDispatch ----------------------------
(* Constants of SessionDispatch for TLC: which kinds of run come together.    *)
EXTENDS SessionDispatch

CONSTANTS r1, r2, r3

Mix(k1, k2, k3) == r1 :> k1 @@ r2 :> k2 @@ r3 :> k3

\* A delegated run between messages, and in a session that is busy with an
\* action or a compaction, which do not dispatch when they end; and a message
\* that interrupts any of these.
MixedRuns ==
  {Mix("message", "child", "message"), Mix("action", "child", "message"),
   Mix("compact", "child", "interrupt"), Mix("compact", "message", "interrupt")}

\* A message sent while an action of the session is executed.
ActionThenMessage == {r1 :> "action" @@ r2 :> "message"}

\* The parent of finished subagents is told so while it has work.
MessageThenContinuation == {r1 :> "message" @@ r2 :> "continuation"}
=============================================================================
