------------------------------- MODULE OtaFetch ------------------------------
(***************************************************************************)
(* src/ota_client.c: ota_fetch runs curl in a child process, collects its  *)
(* output through a pipe and turns exit status and output into a verdict.  *)
(* Output is counted in units; what it says is chosen when it is parsed.   *)
(***************************************************************************)
EXTENDS Integers

CONSTANTS PipeCap,      \* units the pipe holds
          RespCap,      \* units of response, its terminating zero included
          MaxOut        \* bound: units curl writes

ASSUME OtaAssumption ==
    PipeCap \in Nat \ {0} /\ RespCap \in Nat \ {0} /\ MaxOut \in Nat

VARIABLES ota,          \* where ota_fetch is
          readEnd, writeEnd,    \* the parent's descriptors are open
          child,        \* external: the curl process
          status,       \* external: how it ended
          pipe,         \* units in the pipe
          produced,     \* external: units curl has written
          response,     \* units kept
          reply,        \* what ota_parse_response has put into *out
          err           \* what went into the caller's error text, "none" if nothing

otaVars == <<ota, readEnd, writeEnd, child, status, pipe, produced,
             response, reply, err>>
childVars == <<child, status, produced>>

Statuses == {"running", "ok", "failed", "notfound", "signal"}

(* memset(out, 0): nothing required, nothing given. *)
NoReply == [code |-> FALSE, url |-> FALSE]
Replies == [code : BOOLEAN, url : BOOLEAN]

OtaTypeOK ==
    /\ ota \in { "idle", "pipe", "fork", "shut", "read", "reap", "wait",
                 "judge", "parse", "ok", "failed" }
    /\ readEnd \in BOOLEAN /\ writeEnd \in BOOLEAN
    /\ child \in {"none", "fork", "curl", "zombie", "reaped"}
    /\ status \in Statuses
    /\ pipe \in 0..PipeCap /\ produced \in 0..MaxOut
    /\ response \in 0..RespCap-1
    /\ reply \in Replies
    /\ err \in {"none", "body", "pipe", "fork", "read", "wait", "output",
                "nocurl", "request", "json"}

OtaInit ==
    /\ ota = "idle" /\ readEnd = FALSE /\ writeEnd = FALSE
    /\ child = "none" /\ status = "running"
    /\ pipe = 0 /\ produced = 0 /\ response = 0
    /\ reply = NoReply /\ err = "none"

Step(a, b) == ota = a /\ ota' = b
Fail(e) == ota' = "failed" /\ err' = e

(* What it may return: a body that escaping makes longer than 2047 bytes   *)
(* is refused.                                                             *)
ota_build_request_json == {0, -1}

ota_fetch ==
    /\ ota = "idle"
    /\ \E rc \in ota_build_request_json :
          IF rc = 0 THEN ota' = "pipe" /\ UNCHANGED err ELSE Fail("body")
    /\ UNCHANGED <<readEnd, writeEnd, childVars, pipe, response, reply>>

MakePipe ==
    /\ ota = "pipe"
    /\ \/ ota' = "fork" /\ readEnd' = TRUE /\ writeEnd' = TRUE /\ UNCHANGED err
       \/ Fail("pipe") /\ UNCHANGED <<readEnd, writeEnd>>
    /\ UNCHANGED <<childVars, pipe, response, reply>>

Fork ==
    /\ ota = "fork"
    /\ \/ /\ ota' = "shut" /\ child' = "fork"
          /\ UNCHANGED <<readEnd, writeEnd, err>>
       \/ /\ readEnd' = FALSE /\ writeEnd' = FALSE
          /\ Fail("fork")
          /\ UNCHANGED child
    /\ UNCHANGED <<status, produced, pipe, response, reply>>

(* Mutant: the parent keeps its write end. *)
CloseWriteEnd_Kept ==
    /\ Step("shut", "read")
    /\ UNCHANGED <<readEnd, writeEnd, childVars, pipe, response, reply, err>>

CloseWriteEnd ==
    /\ Step("shut", "read")
    /\ writeEnd' = FALSE
    /\ UNCHANGED <<readEnd, childVars, pipe, response, reply, err>>

(* Mutant: a full buffer ends the loop. *)
Read_StopsWhenFull ==
    /\ ota = "read" /\ pipe > 0
    /\ pipe' = pipe - 1
    /\ IF response < RespCap - 1
       THEN response' = response + 1 /\ UNCHANGED <<ota, readEnd>>
       ELSE ota' = "wait" /\ readEnd' = FALSE /\ UNCHANGED response
    /\ UNCHANGED <<writeEnd, childVars, reply, err>>

(* Mutant: no room is kept for the terminating zero. *)
Read_NoZero ==
    /\ ota = "read" /\ pipe > 0
    /\ pipe' = pipe - 1
    /\ response' = IF response < RespCap THEN response + 1 ELSE response
    /\ UNCHANGED <<ota, readEnd, writeEnd, childVars, reply, err>>

(* ota_append_pipe_output: what does not fit is read and dropped.          *)
Read ==
    /\ ota = "read" /\ pipe > 0
    /\ pipe' = pipe - 1
    /\ response' = IF response < RespCap - 1 THEN response + 1 ELSE response
    /\ UNCHANGED <<ota, readEnd, writeEnd, childVars, reply, err>>

(* End of file: the pipe is empty and nobody has its write end.            *)
ReadEnd ==
    /\ Step("read", "wait")
    /\ pipe = 0 /\ ~writeEnd /\ child \in {"zombie", "reaped"}
    /\ readEnd' = FALSE
    /\ UNCHANGED <<writeEnd, childVars, pipe, response, reply, err>>

ReadFails ==
    /\ Step("read", "reap")
    /\ readEnd' = FALSE
    /\ UNCHANGED <<writeEnd, childVars, pipe, response, reply, err>>

(* The waitpid after a failed read. *)
Reap ==
    /\ ota = "reap" /\ child = "zombie"
    /\ child' = "reaped"
    /\ Fail("read")
    /\ UNCHANGED <<readEnd, writeEnd, status, produced, pipe, response, reply>>

Wait ==
    /\ ota = "wait" /\ child = "zombie"
    /\ child' = "reaped"
    /\ ota' = "judge"
    /\ UNCHANGED <<readEnd, writeEnd, status, produced, pipe, response,
                   reply, err>>

WaitFails ==
    /\ ota = "wait"
    /\ Fail("wait")
    /\ UNCHANGED <<readEnd, writeEnd, childVars, pipe, response, reply>>

(* The exit status; what curl said is the error text if it said anything   *)
(* but white space, which is trimmed.                                      *)
Judge ==
    /\ ota = "judge"
    /\ IF status = "ok"
       THEN ota' = "parse" /\ UNCHANGED err
       ELSE \/ response > 0 /\ Fail("output")
            \/ Fail(IF status = "notfound" THEN "nocurl" ELSE "request")
    /\ UNCHANGED <<readEnd, writeEnd, childVars, pipe, response, reply>>

(* ota_parse_response: the output is JSON or it is not.  What follows the  *)
(* JSON value is ignored, so that an output that was cut off may still do; *)
(* the answer may name an activation code, a server, both or neither.      *)
ota_parse_response ==
    /\ ota = "parse"
    /\ \/ /\ response > 0
          /\ ota' = "ok"
          /\ reply' \in Replies
          /\ UNCHANGED err
       \/ reply' = NoReply /\ Fail("json")
    /\ UNCHANGED <<readEnd, writeEnd, childVars, pipe, response>>

Parent == \/ MakePipe \/ Fork \/ CloseWriteEnd \/ Read \/ ReadEnd
          \/ Reap \/ Wait \/ Judge \/ ota_parse_response

ParentFails == ReadFails \/ WaitFails

-----------------------------------------------------------------------------
(* External: the child.                                                    *)

OnlyChild == UNCHANGED <<ota, readEnd, writeEnd, response, reply, err>>

(* execlp succeeds, or the child leaves with 127 or 126.                   *)
Exec ==
    /\ child = "fork"
    /\ \/ child' = "curl" /\ UNCHANGED status
       \/ child' = "zombie" /\ status' \in {"notfound", "failed"}
    /\ UNCHANGED <<produced, pipe>> /\ OnlyChild

(* Writing blocks while the pipe is full, and kills if nobody reads.       *)
ChildWrites ==
    /\ child = "curl" /\ produced < MaxOut
    /\ IF readEnd
       THEN /\ pipe < PipeCap
            /\ pipe' = pipe + 1 /\ produced' = produced + 1
            /\ UNCHANGED <<child, status>>
       ELSE /\ child' = "zombie" /\ status' = "signal"
            /\ UNCHANGED <<pipe, produced>>
    /\ OnlyChild

(* curl without -f reports success for every answer of the server. *)
ChildExits ==
    /\ child = "curl"
    /\ child' = "zombie"
    /\ status' \in {"ok", "failed"}
    /\ UNCHANGED <<produced, pipe>> /\ OnlyChild

(* Ctrl+C reaches the whole process group.  Before its exec the child still*)
(* has the handler of main, which does not end it.                         *)
ChildKilled ==
    IF child = "curl"
    THEN child' = "zombie" /\ status' = "signal" /\ UNCHANGED <<produced, pipe>>
    ELSE UNCHANGED <<childVars, pipe>>

Child == Exec \/ ChildWrites \/ ChildExits

-----------------------------------------------------------------------------
(***************************************************************************)
(* Whatever fails on the way, ota_fetch returns with its descriptors       *)
(* closed and its child waited for, if waiting is possible at all.         *)
(***************************************************************************)
NothingLeftOpen ==
    ota \in {"ok", "failed"} =>
        /\ ~readEnd /\ ~writeEnd
        /\ child \in {"none", "reaped"} \/ err = "wait"

(***************************************************************************)
(* A verdict of success rests on a curl that ended well and has been       *)
(* waited for, and on everything it said, up to the room in the buffer     *)
(* (ota_append_pipe_output reads to the end, ota_fetch judges last).       *)
(***************************************************************************)
VerdictTrue ==
    ota = "ok" =>
        /\ status = "ok" /\ child = "reaped"
        /\ response = IF produced < RespCap THEN produced ELSE RespCap - 1
=============================================================================
