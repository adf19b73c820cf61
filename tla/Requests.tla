------------------------------ MODULE Requests ------------------------------
(***************************************************************************)
(* The request interface: the request pipe and its buffers (fifo.c,        *)
(* ng_flowmgr.c), vfd_req_if and its helpers (vfd_rif.c), the log level    *)
(* that a request may raise (bleat.c), and the clients, iplex and vreq.    *)
(*                                                                         *)
(* The text of request i is the two tokens <<i, 1>>, <<i, 2>> and then a   *)
(* newline (vreq) or two (iplex); a write of up to 4096 bytes to a pipe is *)
(* atomic.  The buffers hold RBuf tokens.  What a request does to the VFs, *)
(* the mirrors and the files is in VfdConfig, Mirrors and ConfigFiles:     *)
(* here it only succeeds or fails.                                         *)
(***************************************************************************)
EXTENDS Integers, Sequences, SequencesExt, FiniteSetsExt

CONSTANTS
  MaxReqs,    \* bound: requests that are sent, numbered in the order they are
  Texts,      \* bound: what requests say, [kind, arg, pct, lvl]; kind "garbage" is no JSON
  RBuf,       \* RBUF_SIZE
  Cap,        \* writes that fit into a response pipe nobody reads
  Tries       \* attempts of vfd_write on a full pipe

\* A request, which is sent in one write of at most 4096 bytes, fits into a buffer.
ASSUME ReqAssumption ==
  /\ MaxReqs \in Nat /\ RBuf \in Nat /\ RBuf >= 4 /\ Cap \in Nat /\ Tries \in Nat \ {0}
  /\ \A t \in Texts : t.lvl \in Int

VARIABLES
  forreal,    \* parms->forreal
  sent,       \* requests sent so far, [text, style]
  pipe,       \* tokens in the request pipe
  head,       \* flow: rest of the registered buffer
  partial,    \* flow: end of the buffer before it
  block,      \* rfifo_read: the lines read so far
  vpc,        \* where the main loop is
  req,        \* the request it works on
  out,        \* the writes left of the answer
  tries,      \* vfd_write: attempts left
  alarm,      \* cpu_alrm_thresh, in percent
  cur, old,   \* cur_level and old_level of bleat.c
  reader,     \* a client's end of its response pipe: "none", "open" or "left"
  rp,         \* what a response pipe holds
  got,        \* what a client has read
  fate,       \* history: what became of a request
  slow,       \* history: requests that vfd_write gave up on
  base,       \* history: the level that was last asked for
  leak        \* history: highest level of a request that was never popped

pipeVars   == <<pipe, head, partial, block>>
levelVars  == <<alarm, cur, old, base, leak>>
clientVars == <<sent, reader>>
ansVars    == <<out, tries, slow, rp, got>>
reqVars    == <<forreal, clientVars, pipeVars, vpc, req, ansVars, levelVars, fate>>

Ids  == 1 .. MaxReqs
NoValue == -1
NL   == <<0, 0>>
Text(i)  == sent[i].text
Chars(i) == << <<i, 1>>, <<i, 2>> >>
Ends(style) == IF style = "iplex" THEN <<NL, NL>> ELSE <<NL>>
Higher(a, b) == IF a > b THEN a ELSE b

(***************************************************************************)
(* What vfd_req_if answers: ok or an error, and the number of lines.       *)
(***************************************************************************)

Ok(n)  == [rc |-> "OK", lines |-> n]
Error  == [rc |-> "ERROR", lines |-> 1]

ChangeOutcomes == {Ok(1), Error}        \* add, delete, export
MirrorOutcomes == IF forreal THEN {Ok(1), Error} ELSE {}

ShowOutcomes(target) ==
  IF forreal /\ target \in {"all", "ex", "mirror", "pfs", "pf"} THEN {Ok(2), Error} ELSE {Error}

\* The value a request sets must be there, and a log level must not be negative.
AlarmOutcomes(pct)   == {IF pct = NoValue THEN Error ELSE Ok(1)}
VerboseOutcomes(lvl) == {IF lvl >= 0 THEN Ok(1) ELSE Error}

Outcomes(t) ==
  CASE t.kind \in {"add", "delete", "export"} -> ChangeOutcomes
    [] t.kind \in {"ping", "dump"}            -> {Ok(1)}
    [] t.kind = "mirror"                      -> MirrorOutcomes
    [] t.kind = "show"                        -> ShowOutcomes(t.arg)
    [] t.kind = "cpu_alarm"                   -> AlarmOutcomes(t.pct)
    [] t.kind = "verbose"                     -> VerboseOutcomes(t.lvl)
    [] OTHER                                  -> {Error}

\* vfd_response: a header, the lines of the message, a trailer with @eom@.
Answer(i, o) ==
  <<[part |-> "header", of |-> i, rc |-> o.rc]>>
    \o [k \in 1 .. o.lines |-> [part |-> "line", of |-> i, rc |-> o.rc]]
    \o <<[part |-> "eom", of |-> i, rc |-> o.rc]>>

ReqInit ==
  /\ forreal \in BOOLEAN
  /\ sent = <<>> /\ pipe = <<>> /\ head = <<>> /\ partial = <<>> /\ block = <<>>
  /\ vpc = "asleep" /\ req = 0 /\ out = <<>> /\ tries = 0
  /\ alarm = 10 /\ cur = 1 /\ old = 0 /\ base = 1 /\ leak = 0
  /\ reader = [i \in Ids |-> "none"] /\ slow = {}
  /\ rp = [i \in Ids |-> <<>>] /\ got = [i \in Ids |-> <<>>]
  /\ fate = [i \in Ids |-> "none"]

(***************************************************************************)
(* Clients.                                                                *)
(***************************************************************************)

\* vreq opens its response pipe before it sends, iplex after.
Send(t, style) ==
  /\ Len(sent) < MaxReqs
  /\ LET i == Len(sent) + 1 IN
       /\ sent' = Append(sent, [text |-> t, style |-> style])
       /\ pipe' = pipe \o Chars(i) \o Ends(style)
       /\ reader' = IF style = "vreq" THEN [reader EXCEPT ![i] = "open"] ELSE reader
       /\ fate' = [fate EXCEPT ![i] = "sent"]
  /\ UNCHANGED <<forreal, head, partial, block, vpc, req, ansVars, levelVars>>

\* An open that still waits for a writer already counts as a reader.
OpenAfterSend(i) ==
  /\ i \in DOMAIN sent /\ reader[i] = "none"
  /\ reader' = [reader EXCEPT ![i] = "open"]
  /\ UNCHANGED <<forreal, sent, pipeVars, vpc, req, ansVars, levelVars, fate>>

ReadAnswer(i) ==
  /\ reader[i] = "open" /\ rp[i] # <<>>
  /\ got' = [got EXCEPT ![i] = @ \o rp[i]]
  /\ rp' = [rp EXCEPT ![i] = <<>>]
  /\ UNCHANGED <<forreal, clientVars, pipeVars, vpc, req, out, tries, slow, levelVars, fate>>

\* A client is stopped, or vreq waited ten seconds for the first line.
Quit(i) ==
  /\ i \in DOMAIN sent /\ reader[i] # "left"
  /\ reader' = [reader EXCEPT ![i] = "left"]
  /\ rp' = [rp EXCEPT ![i] = <<>>]
  /\ UNCHANGED <<forreal, sent, pipeVars, vpc, req, out, tries, slow, got, levelVars, fate>>

(***************************************************************************)
(* rfifo_read: one block, which ends at an empty line or when the pipe has *)
(* no more to give.                                                        *)
(***************************************************************************)

\* The main loop, every 50 ms, and again after each request it has handled.
Wake ==
  /\ vpc = "asleep" /\ vpc' = "get"
  /\ UNCHANGED <<forreal, clientVars, pipeVars, req, ansVars, levelVars, fate>>

Fits(n)    == RBuf - Len(partial) > n
Mentioned(lines) == {t[1] : t \in UNION {ToSet(lines[k]) : k \in DOMAIN lines}}
BlockLen   == Len(FlattenSeq(block))
Dropped(ids) == [i \in Ids |-> IF i \in ids THEN "dropped" ELSE fate[i]]

EndsNever(line) == FALSE
EndsBlock(line) == line = <<>>

\* ng_flow_get when no newline is left: the rest waits for the next buffer.
KeepPartial ==
  /\ vpc = "get" /\ NL \notin ToSet(head)
  /\ partial' = IF Fits(Len(head)) THEN partial \o head ELSE <<>>
  /\ head' = <<>>
  /\ vpc' = "read"
  /\ UNCHANGED <<forreal, clientVars, pipe, block, req, ansVars, levelVars, fate>>

\* ng_flow_get finds a line.  A line that is too much for rfifo_read's buffer is lost.
GetLine ==
  /\ vpc = "get" /\ NL \in ToSet(head)
  /\ LET end  == SelectInSeq(head, LAMBDA t : t = NL)
         text == SubSeq(head, 1, end - 1)
         line == IF partial # <<>> /\ ~Fits(end) THEN partial ELSE partial \o text
         room == BlockLen + Len(line) <= RBuf - 2
     IN
       /\ head' = SubSeq(head, end + 1, Len(head))
       /\ block' = IF EndsBlock(line) \/ ~room THEN block ELSE Append(block, line)
       /\ vpc' = IF EndsBlock(line) \/ ~room THEN "parse" ELSE "get"
       /\ fate' = IF room THEN fate ELSE Dropped(Mentioned(<<line>>))
  /\ partial' = <<>>
  /\ UNCHANGED <<forreal, clientVars, pipe, req, ansVars, levelVars>>

\* The pipe is read without blocking.
ReadPipe ==
  /\ vpc = "read"
  /\ LET n == Min({RBuf, Len(pipe)}) IN
       /\ head' = SubSeq(pipe, 1, n)
       /\ pipe' = SubSeq(pipe, n + 1, Len(pipe))
       /\ vpc' = IF n = 0 THEN "parse" ELSE "get"
  /\ UNCHANGED <<forreal, clientVars, partial, block, req, ansVars, levelVars, fate>>

(***************************************************************************)
(* vfd_read_request.                                                       *)
(***************************************************************************)

IsRequest(b, i) == b = <<Chars(i)>> /\ Text(i).kind # "garbage"

\* Nothing, or a block that is not one JSON object with an action, ends this round.
NoRequest ==
  /\ vpc = "parse" /\ ~\E i \in DOMAIN sent : IsRequest(block, i)
  /\ fate' = Dropped(Mentioned(block))
  /\ block' = <<>>
  /\ vpc' = "asleep"
  /\ UNCHANGED <<forreal, clientVars, pipe, head, partial, req, ansVars, levelVars>>

\* bleat_push_glvl
TakeRequest(i) ==
  /\ vpc = "parse" /\ IsRequest(block, i)
  /\ req' = i /\ block' = <<>>
  /\ old' = cur /\ cur' = Higher(cur, Text(i).lvl)
  /\ vpc' = "dispatch"
  /\ UNCHANGED <<forreal, clientVars, pipe, head, partial, ansVars, alarm, base, leak, fate>>

(***************************************************************************)
(* vfd_req_if and vfd_response.                                            *)
(***************************************************************************)

Unanswered ==
  /\ fate' = [fate EXCEPT ![req] = "unanswered"]
  /\ leak' = IF Text(req).kind = "verbose" THEN leak ELSE Higher(leak, Text(req).lvl)
  /\ vpc' = "get"

\* A mirror request while forreal is off.
Ignore ==
  /\ vpc = "dispatch" /\ Outcomes(Text(req)) = {}
  /\ Unanswered
  /\ UNCHANGED <<forreal, clientVars, pipeVars, req, ansVars, alarm, cur, old, base>>

SetLevelOnly(lvl) ==
  /\ cur' = lvl /\ UNCHANGED old
  /\ base' = lvl /\ leak' = 0
  /\ UNCHANGED alarm

\* bleat_set_lvl and bleat_push_lvl
SetLevel(lvl) ==
  /\ cur' = lvl /\ old' = lvl
  /\ base' = lvl /\ leak' = 0
  /\ UNCHANGED alarm

\* The threshold is 5 per cent or more.
SetAlarm(pct) ==
  /\ alarm' = Higher(pct, 5)
  /\ UNCHANGED <<cur, old, base, leak>>

Perform(o) ==
  /\ vpc = "dispatch" /\ o \in Outcomes(Text(req))
  /\ CASE Text(req).kind = "verbose" /\ o.rc = "OK"   -> SetLevel(Text(req).lvl)
       [] Text(req).kind = "cpu_alarm" /\ o.rc = "OK" -> SetAlarm(Text(req).pct)
       [] OTHER                                       -> UNCHANGED levelVars
  /\ out' = Answer(req, o) /\ tries' = Tries
  /\ vpc' = "respond"
  /\ UNCHANGED <<forreal, clientVars, pipeVars, req, slow, rp, got, fate>>

\* The open does not block; it fails when nobody has the pipe open to read.
OpenResponse ==
  /\ vpc = "respond" /\ reader[req] = "open"
  /\ vpc' = "write"
  /\ UNCHANGED <<forreal, clientVars, pipeVars, req, ansVars, levelVars, fate>>

OpenFails ==
  /\ vpc = "respond" /\ reader[req] # "open"
  /\ Unanswered
  /\ out' = <<>>
  /\ UNCHANGED <<forreal, clientVars, pipeVars, req, tries, slow, rp, got, alarm, cur, old, base>>

Room == Len(rp[req]) < Cap
Writing == vpc = "write" /\ out # <<>>

WriteAll ==
  /\ Writing /\ reader[req] = "open" /\ Room
  /\ rp' = [rp EXCEPT ![req] = Append(@, Head(out))]
  /\ out' = Tail(out) /\ tries' = Tries
  /\ UNCHANGED <<forreal, clientVars, pipeVars, vpc, req, slow, got, levelVars, fate>>

WriteAgainForever ==
  /\ Writing /\ reader[req] = "open" /\ ~Room /\ tries > 1
  /\ UNCHANGED reqVars

SkipWhenFull ==
  /\ Writing /\ reader[req] = "open" /\ ~Room /\ tries > 1
  /\ out' = Tail(out)
  /\ UNCHANGED <<forreal, clientVars, pipeVars, vpc, req, tries, slow, rp, got, levelVars, fate>>

\* EAGAIN: a quarter of a second later it tries again.
WriteAgain ==
  /\ Writing /\ reader[req] = "open" /\ ~Room /\ tries > 1
  /\ tries' = tries - 1
  /\ UNCHANGED <<forreal, clientVars, pipeVars, vpc, req, out, slow, rp, got, levelVars, fate>>

\* Without its header an answer is the trailer only; a line that fails is left out.
WriteGivesUp ==
  /\ Writing /\ (reader[req] = "open" => ~Room /\ tries = 1)
  /\ out' = IF Head(out).part = "header" THEN <<Last(out)>> ELSE Tail(out)
  /\ tries' = Tries
  /\ slow' = slow \cup {req}
  /\ UNCHANGED <<forreal, clientVars, pipeVars, vpc, req, rp, got, levelVars, fate>>

\* bleat_pop_lvl
Finish ==
  /\ vpc = "write" /\ out = <<>>
  /\ cur' = old
  /\ fate' = [fate EXCEPT ![req] = "answered"]
  /\ vpc' = "get"
  /\ UNCHANGED <<forreal, clientVars, pipeVars, req, ansVars, alarm, old, base, leak>>

Vfd ==
  \/ Wake \/ KeepPartial \/ GetLine \/ ReadPipe \/ NoRequest
  \/ \E i \in DOMAIN sent : TakeRequest(i)
  \/ Ignore \/ \E o \in {Ok(1), Ok(2), Error} : Perform(o)
  \/ OpenResponse \/ OpenFails \/ WriteAll \/ WriteAgain \/ WriteGivesUp \/ Finish

Client ==
  \/ \E t \in Texts, style \in {"iplex", "vreq"} : Send(t, style)
  \/ \E i \in Ids : OpenAfterSend(i) \/ ReadAnswer(i) \/ Quit(i)

ReqNext == Vfd \/ Client
ReqSpec == ReqInit /\ [][ReqNext]_reqVars

\* The main loop runs; a client may stop for ever.
ReqFairSpec == ReqSpec /\ WF_reqVars(Vfd)

(***************************************************************************)
(* Properties.                                                             *)
(***************************************************************************)

\* Between requests the log level is the last one that was asked for, or the level of a
\* request that got no answer: vfd_response pops what vfd_read_request pushed.
LevelIsKept == vpc = "asleep" => cur = Higher(base, leak)

\* A request that is well formed is lost only to a neighbour: one that came before it, or
\* itself, ended with a single newline and another text followed at once.
LostToNeighbour ==
  \A i \in DOMAIN sent : fate[i] = "dropped" =>
    \/ Text(i).kind = "garbage"
    \/ i > 1 /\ sent[i - 1].style = "vreq"
    \/ i < Len(sent) /\ sent[i].style = "vreq"

\* What an answered client has is the whole answer to its own request, if it kept up.
AnswerIsWhole ==
  \A i \in DOMAIN sent : fate[i] = "answered" /\ reader[i] = "open" /\ i \notin slow =>
    \E o \in Outcomes(Text(i)) : got[i] \o rp[i] = Answer(i, o)

\* VFd is done with every request some time, whatever the clients do: one that does not
\* read, or has gone, cannot hold up the others.
EveryRequestEnds == \A i \in Ids : fate[i] = "sent" ~> fate[i] # "sent"
=============================================================================
