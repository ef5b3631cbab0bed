---------------------------- MODULE MCTurnBridge ----------------------------
(* Bounds for model checking TurnBridge.                                   *)
EXTENDS TurnBridge

Start == [kind |-> "start", callId |-> 0]
Text == [kind |-> "text", callId |-> 0]
Call(c) == [kind |-> "call", callId |-> c]
Result(c) == [kind |-> "result", callId |-> c]

(* A turn that has two tool calls open after a first message, answered in  *)
(* the other order, and one that only starts a message.                    *)
MCScript == <<<<Text, Call(1), Call(2), Result(2), Result(1)>>, <<Start>>>>

(* The turn of e4-agent-stream.test.ts:1927: the same, with a call and a   *)
(* result that come twice, and a second message and a call that repeats an *)
(* ID.                                                                     *)
MCOpenCalls ==
  <<<<Text, Call(1), Call(1), Call(2), Result(2), Result(2), Result(1),
      Text, Call(1), Result(1)>>>>
=============================================================================
