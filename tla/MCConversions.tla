---------------------------- MODULE MCConversions ----------------------------
(***************************************************************************)
(* TLC instance of Conversions: every short conversation of the messages   *)
(* below, every cut of the short answers of the items below, and every     *)
(* combination of small, missing, unusable and too large counts.           *)
(***************************************************************************)
EXTENDS Conversions

Message(role, text, calls, id, name) ==
  [role |-> role, text |-> text, calls |-> calls, id |-> id, name |-> name]

Call(id, name) == [id |-> id, name |-> name]

Said(role, text) == Message(role, text, <<>>, "", "")

Called(calls) == Message("assistant", "none", calls, "", "")

Returned(id, name) == Message("tool", "text", <<>>, id, name)

(* Two calls of one function, of two functions, without ids, and results   *)
(* of them in any order, of unknown calls and without ids.                 *)
MCMessages ==
  { Said("user", "text"), Said("user", "blank"), Said("system", "text"),
    Said("assistant", "text"), Said("assistant", "blank"),
    Called(<<Call("call_1", "f"), Call("x", "g")>>), Called(<<Call("", "f")>>),
    Message("assistant", "text", <<Call("call_1", "f"), Call("call_2", "f")>>, "", ""),
    Returned("call_1", ""), Returned("call_2", ""), Returned("x", ""), Returned("", "f"),
    Returned("call_9", "") }

Datum(parts, finish) == [parts |-> parts, finish |-> finish]

Item(kind, data) == [kind |-> kind, data |-> data]

MCItems ==
  { Item("error", <<>>), Item("junk", <<>>), Item("data", <<>>),
    Item("data", <<Datum(<<"text", "text">>, None)>>),
    Item("data", <<Datum(<<>>, "STOP")>>),
    Item("data", <<Datum(<<"blank">>, None), Datum(<<"thought", "sign">>, None),
                   Datum(<<"text">>, "MAX_TOKENS")>>) }

MCEventSequences ==
  LET short == UNION {[1 .. n -> MCItems] : n \in 0 .. 2}
  IN  UNION {[1 .. n -> short] : n \in 0 .. 2} \cup [1 .. 3 -> [1 .. 1 -> MCItems]]

Estimate(prompt, candidates, reasoning, limited) ==
  [prompt |-> prompt, candidates |-> candidates, reasoning |-> reasoning, limited |-> limited]

MCEstimates ==
  { Estimate(1, 1, 0, FALSE), Estimate(2, 3, 0, FALSE), Estimate(1, 0, 2, TRUE),
    Estimate(3, 0, 1, TRUE), Estimate(0, 0, 0, TRUE), Estimate(2, 1, 1, FALSE),
    Estimate(1, 2, 1, FALSE) }

Counts == {Absent, -1, 0, 1, 3}

MCMeasures ==
  {[prompt |-> p, candidates |-> c, thoughts |-> t, toolUse |-> u, total |-> n, cached |-> k] :
     p \in Counts, c \in Counts, t \in Counts, u \in Counts, n \in Counts \cup {2, 4},
     k \in {Absent, 1}}

MCCompactions ==
  { <<Estimate(1, 2, 0, FALSE),
      [prompt |-> Absent, candidates |-> Absent, thoughts |-> Absent,
       toolUse |-> Absent, total |-> Absent, cached |-> 1]>>,
    <<Estimate(0, 0, 1, FALSE),
      [prompt |-> 1, candidates |-> 1, thoughts |-> 0, toolUse |-> 0, total |-> 3, cached |-> 3]>> }
=============================================================================
