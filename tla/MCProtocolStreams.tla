-------------------------- MODULE MCProtocolStreams --------------------------
(***************************************************************************)
(* TLC instance of ProtocolStreams: for each protocol the results that     *)
(* make a difference to its handler.                                       *)
(***************************************************************************)
EXTENDS ProtocolStreams

Plain(parts) == [EmptyResult EXCEPT !.parts = parts, !.usage = FALSE]

Measured(parts)        == [Plain(parts) EXCEPT !.usage = TRUE]
Grounded(parts)        == [Plain(parts) EXCEPT !.grounding = TRUE]
Named(parts, id)       == [Plain(parts) EXCEPT !.id = id]
Finished(parts, finish) == [Plain(parts) EXCEPT !.finish = finish]
Blocked(parts)         == [Plain(parts) EXCEPT !.feedback = TRUE]

MCArrivals(name) ==
  CASE name = "chat" ->
         { Plain(<<"text">>), Plain(<<"thought">>), Plain(<<"sign">>), Plain(<<"call">>),
           Plain(<<"thought", "text", "call2">>), Measured(<< >>), Measured(<<"text">>),
           Grounded(<< >>), Finished(<<"text">>, "STOP"), Finished(<< >>, "MAX_TOKENS"),
           Finished(<< >>, "SAFETY"), Blocked(<< >>) }
    [] name = "responses" ->
         { Plain(<<"text">>), Plain(<<"thought">>), Plain(<<"sign">>), Plain(<<"call">>),
           Plain(<<"thought", "text">>), Plain(<<"text", "call2">>),
           Plain(<<"thought", "call">>), Measured(<< >>), Measured(<<"thought">>),
           Grounded(<<"text">>), Grounded(<< >>), Finished(<< >>, "STOP") }
    [] name = "gemini" ->
         { Plain(<<"text">>), Plain(<<"thought">>), Plain(<<"sign">>), Plain(<<"call">>),
           Plain(<<"thought", "text", "sign">>), Measured(<< >>), Measured(<<"thought">>),
           Named(<<"text">>, "id1"), Named(<< >>, "id2"), Grounded(<< >>),
           Finished(<< >>, "STOP"), Finished(<<"text">>, "MAX_TOKENS"), Blocked(<< >>),
           Blocked(<<"text">>) }
=============================================================================
