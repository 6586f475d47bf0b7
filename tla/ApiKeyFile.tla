----------------------------- MODULE ApiKeyFile -----------------------------
(***************************************************************************)
(* The generated API key and its file (src/config/config.go: Load,         *)
(* loadPersistedAPIKey, persistAPIKey, Validate), for the configuration    *)
(* without API_KEY and with an API_KEY_FILE.                               *)
(*                                                                         *)
(* A start is one execution of the program, by any process that shares the *)
(* file: starts run concurrently or follow a crash.  Every system call on  *)
(* the file is one action.  A start generates a key of its own, so a key   *)
(* is named by the start that generated it.  A write that fails leaves a   *)
(* prefix: too short to be accepted as a key, or long enough.              *)
(***************************************************************************)
CONSTANTS Starts, NoStart, NoKey


VARIABLES
  pc,        \* pc[s]: where start s is
  owner,     \* the start that created the file
  content,   \* what the file holds of the owner's key
  adopted,   \* adopted[s]: the key s serves, or served, with
  disturbed  \* history: a system call failed or a process crashed

keyVars == <<pc, owner, content, adopted, disturbed>>

StartStates == {"load", "create", "write", "close", "reload",
                "serving", "failed", "crashed"}
Contents    == {"absent", "empty", "short", "long", "whole"}
Accepted    == {"long", "whole"}   \* 16 characters at least

Keys == [by : Starts, as : Accepted]

ASSUME KeysAssumption == NoStart \notin Starts /\ NoKey \notin Keys

(* The key a reader of the file gets, NoKey when it is rejected or blank.  *)
FileKey == IF content \in Accepted THEN [by |-> owner, as |-> content] ELSE NoKey

KeyTypeOK ==
  /\ pc \in [Starts -> StartStates]
  /\ owner \in Starts \cup {NoStart}
  /\ content \in Contents
  /\ adopted \in [Starts -> Keys \cup {NoKey}]
  /\ disturbed \in BOOLEAN

KeyInit ==
  /\ pc = [s \in Starts |-> "load"]
  /\ owner = NoStart
  /\ content = "absent"
  /\ adopted = [s \in Starts |-> NoKey]
  /\ disturbed = FALSE

Goto(s, l) == pc' = [pc EXCEPT ![s] = l]

Serve(s, key) ==
  /\ Goto(s, "serving")
  /\ adopted' = [adopted EXCEPT ![s] = key]
  /\ UNCHANGED <<owner, content, disturbed>>

Fail(s) == Goto(s, "failed") /\ UNCHANGED <<owner, content, adopted, disturbed>>

-----------------------------------------------------------------------------
(* loadPersistedAPIKey in Load: no file and a blank one both mean that a   *)
(* key has to be generated; a short key is an error.                       *)
Load(s) ==
  /\ pc[s] = "load"
  /\ \/ /\ content \in {"absent", "empty"}
        /\ Goto(s, "create")
        /\ UNCHANGED <<owner, content, adopted, disturbed>>
     \/ content = "short" /\ Fail(s)
     \/ content \in Accepted /\ Serve(s, FileKey)

(* persistAPIKey: O_CREATE|O_EXCL decides who writes.                      *)
CreateTruncates(s) ==   \* mutant of Create: no O_EXCL
  /\ pc[s] = "create"
  /\ content' = "empty" /\ owner' = s /\ Goto(s, "write")
  /\ UNCHANGED <<adopted, disturbed>>

Create(s) ==
  /\ pc[s] = "create"
  /\ IF content = "absent"
       THEN content' = "empty" /\ owner' = s /\ Goto(s, "write")
       ELSE Goto(s, "reload") /\ UNCHANGED <<content, owner>>
  /\ UNCHANGED <<adopted, disturbed>>

(* The loser of the race loads the file again; a file that is still blank  *)
(* gives the empty key, which Validate refuses.                            *)
Reload(s) ==
  /\ pc[s] = "reload"
  /\ \/ content \in {"empty", "short"} /\ Fail(s)
     \/ content \in Accepted /\ Serve(s, FileKey)

Write(s) ==
  /\ pc[s] = "write"
  /\ content' = "whole"
  /\ Goto(s, "close")
  /\ UNCHANGED <<owner, adopted, disturbed>>

Close(s) == pc[s] = "close" /\ Serve(s, [by |-> s, as |-> "whole"])

(* Load ends with APIKeyGenerationError: what was created stays behind.    *)
CallFails(s) ==
  /\ pc[s] \in {"load", "create", "write", "close", "reload"}
  /\ IF pc[s] = "write"
       THEN content' \in {"empty", "short", "long"}
       ELSE UNCHANGED content
  /\ Goto(s, "failed")
  /\ disturbed' = TRUE
  /\ UNCHANGED <<owner, adopted>>

Crash(s) ==
  /\ pc[s] \notin {"failed", "crashed"}
  /\ Goto(s, "crashed")
  /\ disturbed' = TRUE
  /\ UNCHANGED <<owner, content, adopted>>

KeyNext ==
  \E s \in Starts : Load(s) \/ Create(s) \/ Reload(s) \/ Write(s) \/ Close(s)
                      \/ CallFails(s) \/ Crash(s)

KeySpec == KeyInit /\ [][KeyNext]_keyVars

-----------------------------------------------------------------------------
(* Properties.                                                             *)

(* All servers that share the file, and all later starts, serve with one   *)
(* key, whatever crashes and failed writes there were in between.          *)
Register == INSTANCE OneKey WITH chosen <- FileKey
OneKeySpec == Register!Spec

(* "Another process may have generated the key concurrently.  Reuse the    *)
(* key that won the race" (config.go:263): no start fails unless a system  *)
(* call failed or a process crashed.                                       *)
LoserServes == disturbed \/ \A s \in Starts : pc[s] # "failed"
=============================================================================
