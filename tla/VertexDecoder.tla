---------------------------- MODULE VertexDecoder ----------------------------
(***************************************************************************)
(* The decoders below streamVertexResponse (src/proxy/vertex.go), which    *)
(* read the body of an upstream answer while it arrives.  The first        *)
(* character selects the form: a JSON array of elements, elements one      *)
(* after the other, or server-sent events.  Each action is a call that     *)
(* reads from the body: Token, More or Decode of a json.Decoder, or Scan   *)
(* of a bufio.Scanner.  What it needs arrives at the last moment, or never *)
(* comes: the connection is closed or breaks between any two tokens or     *)
(* inside one.                                                             *)
(*                                                                         *)
(* A token of the model is what one call reads: a bracket, a key, a whole  *)
(* value, or a line of an event stream.  "wrong" is anything that does not *)
(* belong where it stands, "error" is a result with an error of the        *)
(* upstream, and "junk" is one that does not decode.                       *)
(***************************************************************************)
EXTENDS Integers, Sequences, FiniteSets

CONSTANT MaxTokens    \* bound of the tokens of a body

ASSUME DecoderAssumption == MaxTokens \in Nat

VARIABLES
  bodyForm,   \* form of the body, "none" before its first character
  decoding,   \* the call the decoder is in
  tokens,     \* what has been read
  coming,     \* what comes next, NotThere while it has not arrived
  verdict     \* "open", then "ok", "failed", or "refused" by onChunk

decoderVars == <<bodyForm, decoding, tokens, coming, verdict>>

NotThere == "nothing"

(* The body is closed or breaks between two tokens, or is closed inside    *)
(* one.  A line of an event stream that is cut before its payload is a     *)
(* comment; one that is longer than the scanner takes ends the reading as  *)
(* a break does.                                                           *)
Ends == {"eof", "broken", "torn"}

Closers == {"arrayCloses", "objectCloses"}

Lines == {"event", "comment", "error", "junk"}

Bad == {"wrong", "error", "junk"}

BodyTokens ==
  {"objectOpens", "arrayOpens", "results", "field", "value", "item"}
    \cup Closers \cup Lines \cup Bad

DecoderCalls ==
  {"peek", "arrayStart", "elements", "arrayEnd", "element", "fields", "key", "ignored",
   "elementEnd", "results", "items", "item", "resultsEnd", "scan"}

(* What can come where the decoder waits.                                  *)
Comes ==
  CASE decoding = "peek"     -> {"arrayOpens", "objectOpens"} \cup Lines
    [] decoding = "elements" -> {"objectOpens", "wrong"} \cup Closers
    [] decoding = "element"  -> {"objectOpens", "wrong"}
    [] decoding = "fields"   -> {"results", "field", "wrong"} \cup Closers
    [] decoding = "ignored"  -> {"value", "wrong"}
    [] decoding = "results"  -> {"arrayOpens", "wrong"}
    [] decoding = "items"    -> {"item", "error", "junk"} \cup Closers
    [] decoding = "scan"     -> Lines
    [] OTHER                -> {}

DecoderInit ==
  /\ bodyForm = "none" /\ decoding = "peek" /\ tokens = <<>>
  /\ coming = NotThere /\ verdict = "open"

Arrive ==
  /\ verdict = "open" /\ coming = NotThere
  /\ coming' \in Ends \cup (IF Len(tokens) < MaxTokens THEN Comes ELSE {})
  /\ UNCHANGED <<bodyForm, decoding, tokens, verdict>>

-----------------------------------------------------------------------------
(* A call looks at what comes, reads it, or gives up.                      *)

In(call) == verdict = "open" /\ decoding = call /\ coming # NotThere

Goto(call) == decoding' = call /\ UNCHANGED <<bodyForm, tokens, coming, verdict>>

Take(token, call) ==
  /\ coming = token
  /\ tokens' = Append(tokens, token) /\ coming' = NotThere
  /\ decoding' = call
  /\ UNCHANGED <<bodyForm, verdict>>

Return(result) == verdict' = result /\ UNCHANGED <<bodyForm, decoding, tokens, coming>>

(* The token read is not the one expected, or there is none.               *)
Refuse(expected) ==
  /\ coming \notin expected
  /\ verdict' = "failed"
  /\ tokens' = IF coming \in Ends THEN tokens ELSE Append(tokens, coming)
  /\ UNCHANGED <<bodyForm, decoding, coming>>

(* More: the array or object goes on unless it is closed here, or the body *)
(* ends; the call that then expects the bracket gets the error.            *)
More(goesOn, end) ==
  Goto(IF coming \in Closers \cup {"eof", "broken"} THEN end ELSE goesOn)

-----------------------------------------------------------------------------
(* streamVertexResponse: peekFirstNonSpace, and the choice of the form.    *)
PeekFirst ==
  /\ In("peek")
  /\ \/ coming \in {"eof", "broken"} /\ Return("failed")
     \/ /\ coming \notin {"eof", "broken"}
        /\ bodyForm' = CASE coming = "arrayOpens"  -> "array"
                         [] coming = "objectOpens" -> "objects"
                         [] OTHER                  -> "sse"
        /\ decoding' = CASE coming = "arrayOpens"  -> "arrayStart"
                         [] coming = "objectOpens" -> "element"
                         [] OTHER                  -> "scan"
        /\ UNCHANGED <<tokens, coming, verdict>>

(* streamVertexArray.                                                      *)
ArrayStart == In("arrayStart") /\ Take("arrayOpens", "elements")

MoreElements == In("elements") /\ More("element", "arrayEnd")

ArrayEnd ==
  /\ In("arrayEnd")
  /\ \/ /\ coming = "arrayCloses"
        /\ tokens' = Append(tokens, "arrayCloses") /\ coming' = NotThere
        /\ verdict' = "ok"
        /\ UNCHANGED <<bodyForm, decoding>>
     \/ Refuse({"arrayCloses"})

(* streamVertexObjects: the end of the body is the end of the answer only  *)
(* where an element would begin; any other error names where it was met.   *)
ObjectsEndAnywhere ==   \* mutant of ObjectsEnd: errors.Is instead of ==
  /\ verdict = "open" /\ bodyForm = "objects" /\ coming = "eof"
  /\ Return("ok")

ObjectsEnd ==
  /\ In("element") /\ bodyForm = "objects" /\ coming = "eof"
  /\ Return("ok")

(* streamVertexElementObject.                                              *)
ElementStart ==
  /\ In("element")
  /\ \/ Take("objectOpens", "fields")
     \/ Refuse({"objectOpens"} \cup (IF bodyForm = "objects" THEN {"eof"} ELSE {}))

MoreFields == In("fields") /\ More("key", "elementEnd")

Key ==
  /\ In("key")
  /\ \/ Take("results", "results") \/ Take("field", "ignored")
     \/ Refuse({"results", "field"})

IgnoredValue == In("ignored") /\ (Take("value", "fields") \/ Refuse({"value"}))

ElementEnd ==
  /\ In("elementEnd")
  /\ \/ Take("objectCloses", IF bodyForm = "array" THEN "elements" ELSE "element")
     \/ Refuse({"objectCloses"})

(* streamVertexResultsArray.                                               *)
ResultsStart == In("results") /\ (Take("arrayOpens", "items") \/ Refuse({"arrayOpens"}))

MoreItems == In("items") /\ More("item", "resultsEnd")

(* An item that decodes is handed on at once, and onChunk may fail.        *)
DecodeItem == In("item") /\ (Take("item", "items") \/ Refuse({"item"}))

OnChunkFails ==
  /\ \/ In("item") /\ coming = "item"
     \/ In("scan") /\ coming = "event"
  /\ Return("refused")

ResultsEnd == In("resultsEnd") /\ (Take("arrayCloses", "fields") \/ Refuse({"arrayCloses"}))

(* streamVertexSSE.  The scanner delivers what there is of a last line.    *)
ScanLine ==
  /\ In("scan")
  /\ \/ Take("event", "scan") \/ Take("comment", "scan")
     \/ Refuse({"event", "comment", "eof"})

ScanEnd == In("scan") /\ coming = "eof" /\ Return("ok")

DecoderNext ==
  \/ Arrive \/ PeekFirst \/ ArrayStart \/ MoreElements \/ ArrayEnd \/ ObjectsEnd
  \/ ElementStart \/ MoreFields \/ Key \/ IgnoredValue \/ ElementEnd
  \/ ResultsStart \/ MoreItems \/ DecodeItem \/ OnChunkFails \/ ResultsEnd
  \/ ScanLine \/ ScanEnd

-----------------------------------------------------------------------------
(* What is promised of it.                                                 *)

NumberOf(token) == Cardinality({i \in DOMAIN tokens : tokens[i] = token})

(* The body as the upstream would have to write it: something, without an  *)
(* error or anything that does not belong there, every bracket closed, and *)
(* up to an end that is no break and no cut; an array needs no such end.   *)
IsWhole ==
  /\ tokens # <<>> /\ \A i \in DOMAIN tokens : tokens[i] \notin Bad
  /\ NumberOf("arrayOpens") = NumberOf("arrayCloses")
  /\ NumberOf("objectOpens") = NumberOf("objectCloses")
  /\ bodyForm = "array" \/ coming = "eof"

(* The decoders keep no count of the brackets: what is open is known only  *)
(* from the calls they are in.  Yet wherever the body stops, it is taken   *)
(* for an answer exactly if it is whole as far as it came.                 *)
EndsWhenWhole == verdict \in {"ok", "failed"} => (verdict = "ok" <=> IsWhole)
=============================================================================
