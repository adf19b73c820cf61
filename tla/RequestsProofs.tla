--------------------------- MODULE RequestsProofs ---------------------------
(***************************************************************************)
(* For any number of requests, any texts and any sizes of the buffers and  *)
(* of the response pipe: the log level survives requests, a request is     *)
(* lost to a neighbour only, and an answer is whole.                       *)
(***************************************************************************)
EXTENDS Requests, SequenceTheorems, TLAPS

(***************************************************************************)
(* The log level.                                                          *)
(***************************************************************************)

SentRecords == [text : Texts, style : {"iplex", "vreq"}]

\* Requests are numbered as they were sent; the level main returns to is one that was asked
\* for with "verbose", hence not negative.
LevelTypes ==
  /\ sent \in Seq(SentRecords)
  /\ cur \in Int /\ old \in Int /\ base \in Nat /\ leak \in Nat
  /\ vpc \in {"asleep", "get", "read", "parse", "dispatch", "respond", "write"}
  /\ vpc \in {"dispatch", "respond", "write"} => req \in 1 .. Len(sent)

\* Between a push and its pop, old_level is what cur_level was, and cur_level is the
\* higher of that and of what the request asked for, or what it has set.
LevelPlaces ==
  /\ vpc \in {"asleep", "get", "read", "parse"} => cur = Higher(base, leak)
  /\ vpc \in {"dispatch", "respond", "write"} => old = Higher(base, leak)
  /\ vpc = "dispatch" => cur = Higher(old, Text(req).lvl)
  /\ vpc \in {"respond", "write"} =>
       IF Text(req).kind = "verbose" THEN cur = old ELSE cur = Higher(old, Text(req).lvl)

LevelInv == LevelTypes /\ LevelPlaces

\* The text of a request has a level, and sending another does not change it.
LEMMA TextLevel ==
  ASSUME LevelTypes, NEW i \in 1 .. Len(sent)
  PROVE  Text(i).lvl \in Int
<1>1. sent[i] \in SentRecords
  BY DEF LevelTypes
<1>2. Text(i) \in Texts
  BY <1>1 DEF Text, SentRecords
<1>3. \A t \in Texts : t.lvl \in Int
  BY ReqAssumption DEF ReqAssumption
<1>4. QED
  BY <1>2, <1>3

LEMMA LevelInitially == ReqInit => LevelInv
BY DEF ReqInit, LevelInv, LevelTypes, LevelPlaces, Higher

LEMMA SendStep ==
  ASSUME LevelInv, NEW t \in Texts, NEW style \in {"iplex", "vreq"}, Send(t, style)
  PROVE  LevelInv'
<1>1. sent' = Append(sent, [text |-> t, style |-> style])
  BY DEF Send
<1>2. /\ sent' \in Seq(SentRecords)
      /\ Len(sent') = Len(sent) + 1
      /\ \A i \in 1 .. Len(sent) : sent'[i] = sent[i]
  BY <1>1 DEF LevelInv, LevelTypes, SentRecords
<1>3. UNCHANGED <<vpc, req, cur, old, base, leak>>
  BY DEF Send, levelVars
<1>4. LevelTypes'
  BY <1>2, <1>3 DEF LevelInv, LevelTypes
<1>5. vpc \in {"dispatch", "respond", "write"} => Text(req)' = Text(req)
  BY <1>2, <1>3 DEF LevelInv, LevelTypes, Text
<1>6. LevelPlaces'
  BY <1>3, <1>5 DEF LevelInv, LevelPlaces, Higher
<1>7. QED
  BY <1>4, <1>6 DEF LevelInv

\* The steps of vfd_read_request and vfd_req_if that change the levels.
LEMMA TakeStep ==
  ASSUME LevelInv, NEW i \in DOMAIN sent, TakeRequest(i)
  PROVE  LevelInv'
<1>1. i \in 1 .. Len(sent)
  BY DEF LevelInv, LevelTypes
<1>2. Text(i).lvl \in Int
  BY <1>1, TextLevel DEF LevelInv
<1>3. LevelTypes'
  BY <1>1, <1>2 DEF LevelInv, LevelTypes, LevelPlaces, TakeRequest, clientVars, levelVars, Higher
<1>4. LevelPlaces'
  BY <1>1, <1>2 DEF LevelInv, LevelTypes, LevelPlaces, TakeRequest, clientVars, Text
<1>5. QED
  BY <1>3, <1>4 DEF LevelInv

\* A request that gets no answer leaves its level behind; a log level that was set stays.
LEMMA UnansweredLevel ==
  ASSUME LevelInv, vpc = "respond" \/ (vpc = "dispatch" /\ Text(req).kind # "verbose"),
         Unanswered, UNCHANGED <<sent, req, cur, old, base>>
  PROVE  LevelInv'
<1>1. req \in 1 .. Len(sent) /\ Text(req).lvl \in Int
  BY TextLevel DEF LevelInv, LevelTypes
<1>2. leak' = IF Text(req).kind = "verbose" THEN leak ELSE Higher(leak, Text(req).lvl)
  BY DEF Unanswered
<1>3. cur = Higher(base, leak')
  BY <1>1, <1>2 DEF LevelInv, LevelTypes, LevelPlaces, Higher
<1>4. vpc' = "get" /\ leak' \in Nat
  BY <1>1, <1>2 DEF Unanswered, LevelInv, LevelTypes, Higher
<1>5. QED
  BY <1>3, <1>4 DEF LevelInv, LevelTypes, LevelPlaces

LEMMA PerformStep ==
  ASSUME LevelInv, NEW o, Perform(o)
  PROVE  LevelInv'
<1>1. /\ vpc = "dispatch" /\ vpc' = "respond"
      /\ UNCHANGED <<sent, req>> /\ o \in Outcomes(Text(req))
  BY DEF Perform, clientVars
<1>2. req \in 1 .. Len(sent) /\ Text(req).lvl \in Int /\ Text(req)' = Text(req)
  BY <1>1, TextLevel DEF LevelInv, LevelTypes, Text
<1>3. CASE Text(req).kind = "verbose" /\ o.rc = "OK"
  <2>1. SetLevel(Text(req).lvl)
    BY <1>3 DEF Perform
  <2>2. Text(req).lvl >= 0
    BY <1>1, <1>2, <1>3 DEF Outcomes, VerboseOutcomes, Error
  <2>3. QED
    BY <1>1, <1>2, <1>3, <2>1, <2>2 DEF SetLevel, LevelInv, LevelTypes, LevelPlaces, Higher
<1>4. CASE Text(req).kind = "cpu_alarm" /\ o.rc = "OK"
  <2>1. SetAlarm(Text(req).pct)
    BY <1>4 DEF Perform
  <2>2. QED
    BY <1>1, <1>2, <1>4, <2>1 DEF SetAlarm, LevelInv, LevelTypes, LevelPlaces
<1>5. CASE ~(Text(req).kind \in {"verbose", "cpu_alarm"} /\ o.rc = "OK")
  <2>1. UNCHANGED <<cur, old, base, leak>>
    BY <1>5 DEF Perform, levelVars
  <2>2. Text(req).kind = "verbose" => Text(req).lvl < 0
    BY <1>1, <1>2, <1>5 DEF Outcomes, VerboseOutcomes, Ok
  <2>3. QED
    BY <1>1, <1>2, <2>1, <2>2 DEF LevelInv, LevelTypes, LevelPlaces, Higher
<1>6. QED
  BY <1>3, <1>4, <1>5

\* All other steps leave the levels alone.
LEMMA LevelStep ==
  ASSUME LevelInv, [ReqNext]_reqVars
  PROVE  LevelInv'
<1> USE DEF clientVars, levelVars, pipeVars, ansVars
<1>1. CASE UNCHANGED reqVars
  BY <1>1 DEF reqVars, LevelInv, LevelTypes, LevelPlaces, Text
<1>2. CASE Client
  <2>1. CASE \E t \in Texts, style \in {"iplex", "vreq"} : Send(t, style)
    BY <2>1, SendStep
  <2>2. CASE \E i \in Ids : OpenAfterSend(i) \/ ReadAnswer(i) \/ Quit(i)
    BY <2>2 DEF OpenAfterSend, ReadAnswer, Quit, LevelInv, LevelTypes, LevelPlaces, Text
  <2>3. QED
    BY <1>2, <2>1, <2>2 DEF Client
<1>3. CASE Wake \/ KeepPartial \/ ReadPipe \/ NoRequest
  BY <1>3 DEF Wake, KeepPartial, ReadPipe, NoRequest, LevelInv, LevelTypes, LevelPlaces
<1>4. CASE GetLine
  <2>1. vpc = "get" /\ vpc' \in {"get", "parse"} /\ UNCHANGED <<sent, cur, old, base, leak>>
    BY <1>4 DEF GetLine
  <2>2. QED
    BY <2>1 DEF LevelInv, LevelTypes, LevelPlaces
<1>5. CASE \E i \in DOMAIN sent : TakeRequest(i)
  BY <1>5, TakeStep
<1>6. CASE Ignore
  <2>1. Text(req).kind # "verbose"
    BY <1>6 DEF Ignore, Outcomes, VerboseOutcomes
  <2>2. QED
    BY <1>6, <2>1, UnansweredLevel DEF Ignore
<1>7. CASE OpenFails
  BY <1>7, UnansweredLevel DEF OpenFails
<1>8. CASE \E o \in {Ok(1), Ok(2), Error} : Perform(o)
  BY <1>8, PerformStep
<1>9. CASE OpenResponse \/ WriteAll \/ WriteAgain \/ WriteGivesUp
  <2>1. /\ vpc \in {"respond", "write"} /\ vpc' = "write"
        /\ UNCHANGED <<sent, req, cur, old, base, leak>>
    BY <1>9 DEF OpenResponse, WriteAll, WriteAgain, WriteGivesUp, Writing
  <2>2. QED
    BY <2>1 DEF LevelInv, LevelTypes, LevelPlaces, Text
<1>10. CASE Finish
  BY <1>10 DEF Finish, LevelInv, LevelTypes, LevelPlaces
<1>11. QED
  BY <1>1, <1>2, <1>3, <1>4, <1>5, <1>6, <1>7, <1>8, <1>9, <1>10 DEF ReqNext, Vfd

\* Between requests the log level is the last one that was asked for, or that of a request
\* that got no answer: the push of vfd_read_request and the pop of vfd_response match,
\* also around a request that sets the level itself.
THEOREM LevelKept == ReqSpec => []LevelIsKept
<1>1. LevelInv => LevelIsKept
  BY DEF LevelInv, LevelPlaces, LevelIsKept
<1>2. QED
  BY <1>1, LevelInitially, LevelStep, PTL DEF ReqSpec

(***************************************************************************)
(* From the request pipe to a block.                                       *)
(***************************************************************************)

Tokens == (0 .. MaxReqs) \X (0 .. 2)

\* What of the text in the request pipe has not been made into lines.
Rest == partial \o (head \o pipe)

\* Request i starts at place k of S, or S ends before it and i is the next to be sent.
Begins(S, k, i) ==
  IF k = Len(S) + 1 THEN i = Len(sent) + 1
  ELSE k \in 1 .. Len(S) /\ i \in 1 .. Len(sent) /\ S[k] = <<i, 1>>

Size(i) == IF sent[i].style = "iplex" THEN 4 ELSE 3

\* Each request in S is whole, and the one sent after it follows at once.
Whole(S) ==
  \A k \in 1 .. Len(S), i \in Ids : S[k] = <<i, 1>> =>
    /\ i <= Len(sent) /\ k + Size(i) <= Len(S) + 1
    /\ S[k + 1] = <<i, 2>> /\ S[k + 2] = NL
    /\ sent[i].style = "iplex" => S[k + 3] = NL
    /\ Begins(S, k + Size(i), i + 1)

FlowTypes ==
  /\ sent \in Seq(SentRecords) /\ Len(sent) <= MaxReqs
  /\ pipe \in Seq(Tokens) /\ head \in Seq(Tokens) /\ partial \in Seq(Tokens)
  /\ block \in Seq(Seq(Tokens))
  /\ vpc \in {"asleep", "get", "read", "parse", "dispatch", "respond", "write"}
  /\ req \in Nat

\* Request n is the next that is made into a line; before it there may be the empty line
\* that ended the one before.
Ahead(n, lead) ==
  /\ n \in 1 .. Len(sent) + 1 /\ lead \in {0, 1}
  /\ lead = 1 => Rest # <<>> /\ Rest[1] = NL
  /\ Begins(Rest, lead + 1, n)

\* The block holds requests that follow each other; all were sent after the last one that
\* was taken, and only the last of them may have ended with an empty line.
Gathered(n, b, lead) ==
  /\ b \in Nat /\ req <= b /\ b + Len(block) < n
  /\ \A m \in 1 .. Len(block) : block[m] = Chars(b + m)
  /\ \A m \in 1 .. Len(block) - 1 : sent[b + m].style = "vreq"
  /\ vpc \in {"get", "read"} /\ block # <<>> =>
       b + Len(block) = n - 1 /\ (sent[n - 1].style = "vreq" \/ lead = 1)
  /\ vpc \notin {"get", "read", "parse"} => block = <<>>

FlowInv ==
  /\ FlowTypes
  /\ NL \notin ToSet(partial)
  /\ vpc = "read" => head = <<>>
  /\ Whole(Rest)
  /\ \E n \in 1 .. Len(sent) + 1, b \in 0 .. Len(sent), lead \in {0, 1} :
       Ahead(n, lead) /\ Gathered(n, b, lead)

LEMMA Joined == \A s, t, u \in Seq(Tokens) : (s \o t) \o u = s \o (t \o u)
BY ConcatAssociative

\* The elements of three sequences, one after the other.
LEMMA ThreeParts ==
  ASSUME NEW s \in Seq(Tokens), NEW t \in Seq(Tokens), NEW u \in Seq(Tokens)
  PROVE  /\ s \o (t \o u) \in Seq(Tokens)
         /\ Len(s \o (t \o u)) = Len(s) + Len(t) + Len(u)
         /\ \A k \in 1 .. Len(s) : (s \o (t \o u))[k] = s[k]
         /\ \A k \in 1 .. Len(t) : (s \o (t \o u))[Len(s) + k] = t[k]
         /\ \A k \in 1 .. Len(u) : (s \o (t \o u))[Len(s) + Len(t) + k] = u[k]
<1> DEFINE tail == t \o u
           all  == s \o tail
<1>1. /\ tail \in Seq(Tokens) /\ Len(tail) = Len(t) + Len(u)
      /\ \A k \in 1 .. Len(t) + Len(u) : tail[k] = IF k <= Len(t) THEN t[k] ELSE u[k - Len(t)]
  BY ConcatProperties
<1> HIDE DEF tail
<1>2. /\ all \in Seq(Tokens) /\ Len(all) = Len(s) + Len(tail)
      /\ \A k \in 1 .. Len(s) + Len(tail) :
           all[k] = IF k <= Len(s) THEN s[k] ELSE tail[k - Len(s)]
  <2>1. tail \in Seq(Tokens)
    BY <1>1
  <2>2. QED
    BY <2>1, ConcatProperties
<1> HIDE DEF all
<1>3. Len(s) \in Nat /\ Len(t) \in Nat /\ Len(u) \in Nat
  BY LenProperties
<1>4. ASSUME NEW k \in 1 .. Len(t) PROVE all[Len(s) + k] = t[k]
  <2> DEFINE g == Len(s) + k
  <2>1. /\ g \in 1 .. Len(s) + Len(tail) /\ ~(g <= Len(s))
        /\ g - Len(s) = k /\ k \in 1 .. Len(t) + Len(u) /\ k <= Len(t)
    BY <1>1, <1>3
  <2> HIDE DEF g
  <2>2. all[g] = t[k]
    BY <1>1, <1>2, <2>1
  <2>3. QED
    BY <2>2 DEF g
<1>5. ASSUME NEW k \in 1 .. Len(u) PROVE all[Len(s) + Len(t) + k] = u[k]
  <2> DEFINE j == Len(t) + k
             g == Len(s) + Len(t) + k
  <2>1. /\ g \in 1 .. Len(s) + Len(tail) /\ ~(g <= Len(s)) /\ g - Len(s) = j
        /\ j \in 1 .. Len(t) + Len(u) /\ ~(j <= Len(t)) /\ j - Len(t) = k
    BY <1>1, <1>3
  <2> HIDE DEF j, g
  <2>2. all[g] = u[k]
    BY <1>1, <1>2, <2>1
  <2>3. QED
    BY <2>2 DEF g
<1>6. /\ Len(all) = Len(s) + Len(t) + Len(u)
      /\ \A k \in 1 .. Len(s) : all[k] = s[k]
  BY <1>1, <1>2, <1>3
<1>7. QED
  BY <1>2, <1>4, <1>5, <1>6 DEF all, tail

\* The parts of the buffers in the text that is left.
LEMMA RestParts ==
  ASSUME FlowTypes
  PROVE  /\ Rest \in Seq(Tokens)
         /\ Len(Rest) = Len(partial) + Len(head) + Len(pipe)
         /\ \A k \in 1 .. Len(partial) : Rest[k] = partial[k]
         /\ \A k \in 1 .. Len(head) : Rest[Len(partial) + k] = head[k]
         /\ \A k \in 1 .. Len(pipe) : Rest[Len(partial) + Len(head) + k] = pipe[k]
<1>1. pipe \in Seq(Tokens) /\ head \in Seq(Tokens) /\ partial \in Seq(Tokens)
  BY DEF FlowTypes
<1>2. QED
  BY <1>1, ThreeParts DEF Rest

\* What is said of the text that is left stays true of it from any place on.
LEMMA FromPlace ==
  ASSUME NEW S \in Seq(Tokens), NEW T \in Seq(Tokens), NEW m \in 0 .. Len(S),
         Len(T) = Len(S) - m, \A k \in 1 .. Len(T) : T[k] = S[k + m],
         sent \in Seq(SentRecords)
  PROVE  /\ Whole(S) => Whole(T)
         /\ \A k \in 1 .. Len(T) + 1, i \in Nat : Begins(S, k + m, i) => Begins(T, k, i)
<1>1. Len(S) \in Nat /\ Len(T) \in Nat /\ Len(sent) \in Nat /\ m \in Nat
  BY LenProperties
<1>2. ASSUME NEW k \in 1 .. Len(T) + 1, NEW i \in Nat, Begins(S, k + m, i)
      PROVE  Begins(T, k, i)
  BY <1>1, <1>2 DEF Begins
<1>3. ASSUME Whole(S) PROVE Whole(T)
  <2> SUFFICES ASSUME NEW k \in 1 .. Len(T), NEW i \in Ids, T[k] = <<i, 1>>
               PROVE  /\ i <= Len(sent) /\ k + Size(i) <= Len(T) + 1
                      /\ T[k + 1] = <<i, 2>> /\ T[k + 2] = NL
                      /\ sent[i].style = "iplex" => T[k + 3] = NL
                      /\ Begins(T, k + Size(i), i + 1)
    BY DEF Whole
  <2>1. Size(i) \in {3, 4} /\ (sent[i].style = "iplex" => Size(i) = 4)
    BY DEF Size
  <2>2. k + m \in 1 .. Len(S) /\ S[k + m] = <<i, 1>>
    BY <1>1
  <2>3. /\ i <= Len(sent) /\ k + m + Size(i) <= Len(S) + 1
        /\ S[k + m + 1] = <<i, 2>> /\ S[k + m + 2] = NL
        /\ sent[i].style = "iplex" => S[k + m + 3] = NL
        /\ Begins(S, k + m + Size(i), i + 1)
    BY <1>3, <2>2 DEF Whole
  <2>4. /\ k \in Nat \ {0} /\ k + Size(i) <= Len(T) + 1
        /\ k + Size(i) \in 1 .. Len(T) + 1 /\ (k + Size(i)) + m = k + m + Size(i)
    <3> DEFINE z == Size(i)
    <3>1. z \in {3, 4} /\ k + m + z <= Len(S) + 1
      BY <2>1, <2>3
    <3> HIDE DEF z
    <3>2. k \in Nat \ {0} /\ k + z <= Len(T) + 1 /\ k + z \in 1 .. Len(T) + 1 /\ (k + z) + m = k + m + z
      BY <1>1, <3>1
    <3>3. QED
      BY <3>2 DEF z
  <2>5. \A d \in 1 .. Size(i) - 1 : T[k + d] = S[k + m + d]
    <3> SUFFICES ASSUME NEW d \in 1 .. Size(i) - 1 PROVE T[k + d] = S[k + m + d]
      OBVIOUS
    <3>0. d \in Nat \ {0} /\ k + d <= Len(T)
      <4>1. PICK z \in {3, 4} : z = Size(i)
        BY <2>1
      <4>2. k + z <= Len(T) + 1 /\ d \in 1 .. z - 1
        BY <2>4, <4>1
      <4>3. QED
        BY <1>1, <2>4, <4>2
    <3>1. k + d \in 1 .. Len(T) /\ (k + d) + m = k + m + d
      <4>1. k \in Nat /\ d \in Nat \ {0} /\ m \in Nat /\ Len(T) \in Nat /\ k + d <= Len(T)
        BY <1>1, <2>4, <3>0
      <4>2. QED
        BY <4>1
    <3>2. QED
      BY <3>1
  <2>6. /\ 1 \in 1 .. Size(i) - 1 /\ 2 \in 1 .. Size(i) - 1
        /\ sent[i].style = "iplex" => 3 \in 1 .. Size(i) - 1
    BY <2>1
  <2>7. Begins(T, k + Size(i), i + 1)
    <3>1. i + 1 \in Nat
      BY DEF Ids
    <3>2. QED
      BY <1>2, <2>3, <2>4, <3>1
  <2>8. QED
    BY <2>3, <2>4, <2>5, <2>6, <2>7
<1>4. QED
  BY <1>2, <1>3

\* What comes next is an empty line, or request n.
LEMMA NextText ==
  ASSUME FlowTypes, Whole(Rest), NEW n, NEW lead, Ahead(n, lead)
  PROVE  /\ lead = 1 => Len(Rest) >= 1 /\ Rest[1] = NL
         /\ lead = 0 /\ Rest # <<>> =>
              /\ n \in 1 .. Len(sent) /\ Size(n) <= Len(Rest)
              /\ Rest[1] = <<n, 1>> /\ Rest[2] = <<n, 2>> /\ Rest[3] = NL
              /\ sent[n].style = "iplex" => Rest[4] = NL
              /\ Begins(Rest, Size(n) + 1, n + 1)
<1>1. Rest \in Seq(Tokens) /\ Len(Rest) \in Nat /\ (Rest # <<>> => Len(Rest) >= 1)
  BY RestParts, LenProperties, EmptySeq
<1>2. lead = 1 => Len(Rest) >= 1 /\ Rest[1] = NL
  BY <1>1 DEF Ahead
<1>3. ASSUME lead = 0, Rest # <<>>
      PROVE  /\ n \in 1 .. Len(sent) /\ Size(n) <= Len(Rest)
             /\ Rest[1] = <<n, 1>> /\ Rest[2] = <<n, 2>> /\ Rest[3] = NL
             /\ sent[n].style = "iplex" => Rest[4] = NL
             /\ Begins(Rest, Size(n) + 1, n + 1)
  <2>1. Begins(Rest, 1, n) /\ 1 \in 1 .. Len(Rest) /\ 1 # Len(Rest) + 1
    BY <1>1, <1>3 DEF Ahead
  <2>2. n \in 1 .. Len(sent) /\ Rest[1] = <<n, 1>>
    BY <2>1 DEF Begins
  <2>3. /\ 1 + Size(n) <= Len(Rest) + 1
        /\ Rest[1 + 1] = <<n, 2>> /\ Rest[1 + 2] = NL
        /\ sent[n].style = "iplex" => Rest[1 + 3] = NL
        /\ Begins(Rest, 1 + Size(n), n + 1)
    <3>1. n \in Ids
      BY <2>2, LenProperties, ReqAssumption DEF FlowTypes, Ids, ReqAssumption
    <3>2. QED
      BY <2>1, <2>2, <3>1 DEF Whole
  <2>4. Size(n) \in {3, 4}
    BY DEF Size
  <2>5. 1 + Size(n) = Size(n) + 1 /\ Size(n) <= Len(Rest)
    BY <1>1, <2>3, <2>4
  <2>6. QED
    BY <2>2, <2>3, <2>5
<1>4. QED
  BY <1>2, <1>3

\* No token of a request is a newline.
LEMMA NoNewline == \A i \in Nat \ {0}, k \in Nat : <<i, k>> # NL
BY DEF NL

\* Text without a newline is at most what a request has before its newline.
LEMMA ShortOfLine ==
  ASSUME FlowTypes, Whole(Rest), NEW n, NEW lead, Ahead(n, lead),
         NEW p \in 0 .. Len(Rest), p # 0, \A k \in 1 .. p : Rest[k] # NL
  PROVE  lead = 0 /\ Rest # <<>> /\ p <= 2
<1>1. Rest \in Seq(Tokens) /\ Len(Rest) \in Nat /\ (Rest # <<>> => Len(Rest) >= 1)
      /\ (Rest = <<>> => Len(Rest) = 0)
  BY RestParts, LenProperties, EmptySeq
<1>2. Rest # <<>> /\ 1 \in 1 .. p
  BY <1>1
<1>3. Rest[1] # NL /\ lead \in {0, 1}
  BY <1>2 DEF Ahead
<1>4. lead = 0
  BY <1>3, NextText
<1>5. Rest[3] = NL
  BY <1>2, <1>4, NextText
<1>6. QED
  BY <1>2, <1>4, <1>5

LEMMA WholeSame ==
  ASSUME UNCHANGED sent, Rest' = Rest, Whole(Rest)
  PROVE  Whole(Rest)'
<1> SUFFICES ASSUME NEW k \in 1 .. Len(Rest), NEW i \in Ids, Rest[k] = <<i, 1>>
             PROVE  /\ i <= Len(sent) /\ k + Size(i) <= Len(Rest) + 1
                    /\ Rest[k + 1] = <<i, 2>> /\ Rest[k + 2] = NL
                    /\ sent[i].style = "iplex" => Rest[k + 3] = NL
                    /\ Begins(Rest, k + Size(i), i + 1)'
  BY DEF Whole, Size
<1>1. /\ i <= Len(sent) /\ k + Size(i) <= Len(Rest) + 1
      /\ Rest[k + 1] = <<i, 2>> /\ Rest[k + 2] = NL
      /\ sent[i].style = "iplex" => Rest[k + 3] = NL
      /\ Begins(Rest, k + Size(i), i + 1)
  BY DEF Whole
<1>2. Begins(Rest, k + Size(i), i + 1)'
  BY <1>1 DEF Begins, Size
<1>3. QED
  BY <1>1, <1>2

LEMMA KeepStep ==
  ASSUME FlowInv, KeepPartial
  PROVE  FlowInv'
<1>1. FlowTypes /\ Whole(Rest) /\ NL \notin ToSet(partial) /\ NL \notin ToSet(head)
  BY DEF FlowInv, KeepPartial
<1>2. PICK n \in 1 .. Len(sent) + 1, b \in 0 .. Len(sent), lead \in {0, 1} :
        Ahead(n, lead) /\ Gathered(n, b, lead)
  BY DEF FlowInv
<1>3. /\ vpc = "get" /\ vpc' = "read" /\ head' = <<>>
      /\ UNCHANGED <<sent, pipe, block, req>>
      /\ partial' = IF Fits(Len(head)) THEN partial \o head ELSE <<>>
  BY DEF KeepPartial, clientVars
<1>4. /\ pipe \in Seq(Tokens) /\ head \in Seq(Tokens) /\ partial \in Seq(Tokens)
      /\ Len(pipe) \in Nat /\ Len(head) \in Nat /\ Len(partial) \in Nat
  BY <1>1, LenProperties DEF FlowTypes
<1> DEFINE p == Len(partial) + Len(head)
<1>5. p \in 0 .. Len(Rest) /\ \A k \in 1 .. p : Rest[k] # NL
  <2>1. p \in 0 .. Len(Rest)
    BY <1>1, <1>4, RestParts
  <2>2. ASSUME NEW k \in 1 .. p PROVE Rest[k] # NL
    <3>1. CASE k <= Len(partial)
      <4>1. k \in 1 .. Len(partial)
        BY <1>4, <3>1
      <4>2. Rest[k] = partial[k] /\ k \in DOMAIN partial
        BY <1>1, <1>4, <4>1, RestParts, LenProperties
      <4>3. QED
        BY <1>1, <4>2 DEF ToSet
    <3>2. CASE ~(k <= Len(partial))
      <4> DEFINE j == k - Len(partial)
      <4>1. j \in 1 .. Len(head) /\ Len(partial) + j = k
        BY <1>4, <3>2
      <4> HIDE DEF j
      <4>2. Rest[k] = head[j] /\ j \in DOMAIN head
        BY <1>1, <1>4, <4>1, RestParts, LenProperties
      <4>3. QED
        BY <1>1, <4>2 DEF ToSet
    <3>3. QED
      BY <3>1, <3>2
  <2>3. QED
    BY <2>1, <2>2
<1>6. p <= 2
  <2>1. p \in Nat
    BY <1>4
  <2> HIDE DEF p
  <2>2. CASE p = 0
    BY <2>2
  <2>3. CASE p # 0
    BY <1>1, <1>2, <1>5, <2>3, ShortOfLine
  <2>4. QED
    BY <2>2, <2>3
<1>7. Fits(Len(head))
  BY <1>4, <1>6, ReqAssumption DEF Fits, ReqAssumption
<1>8. partial' = partial \o head
  BY <1>3, <1>7
<1>9. /\ partial \o head \in Seq(Tokens) /\ Len(partial \o head) = p
      /\ \A k \in 1 .. p : (partial \o head)[k] = IF k <= Len(partial) THEN partial[k] ELSE head[k - Len(partial)]
  BY <1>4, ConcatProperties
<1>10. Rest' = Rest
  <2>1. (partial \o head) \o pipe = partial \o (head \o pipe)
    <3>1. partial \in Seq(Tokens) /\ head \in Seq(Tokens) /\ pipe \in Seq(Tokens)
      BY <1>4
    <3>2. QED
      BY <3>1, Joined
  <2>2. <<>> \o pipe = pipe
    BY <1>4, ConcatEmptySeq
  <2>3. Rest' = (partial \o head) \o (<<>> \o pipe)
    BY <1>3, <1>8 DEF Rest
  <2>4. QED
    BY <2>1, <2>2, <2>3 DEF Rest
<1>11. NL \notin ToSet(partial \o head)
  <2>1. DOMAIN (partial \o head) = 1 .. p
    BY <1>9, LenProperties
  <2>2. ASSUME NEW k \in 1 .. p PROVE (partial \o head)[k] # NL
    <3>1. CASE k <= Len(partial)
      <4>1. (partial \o head)[k] = partial[k] /\ k \in DOMAIN partial
        BY <1>4, <1>9, <3>1, LenProperties
      <4>2. QED
        BY <1>1, <4>1 DEF ToSet
    <3>2. CASE ~(k <= Len(partial))
      <4>1. (partial \o head)[k] = head[k - Len(partial)] /\ k - Len(partial) \in DOMAIN head
        BY <1>4, <1>9, <3>2, LenProperties
      <4>2. QED
        BY <1>1, <4>1 DEF ToSet
    <3>3. QED
      BY <3>1, <3>2
  <2>3. QED
    BY <2>1, <2>2 DEF ToSet
<1>12. FlowTypes'
  <2>1. <<>> \in Seq(Tokens)
    BY EmptySeq
  <2>2. QED
    BY <1>1, <1>3, <1>8, <1>9, <2>1 DEF FlowTypes
<1>13. Whole(Rest)' /\ Ahead(n, lead)' /\ Gathered(n, b, lead)'
  <2>1. Whole(Rest)'
    BY <1>1, <1>3, <1>10, WholeSame
  <2>2. Ahead(n, lead)'
    BY <1>2, <1>3, <1>10 DEF Ahead, Begins
  <2>3. Gathered(n, b, lead)'
    BY <1>2, <1>3 DEF Gathered
  <2>4. QED
    BY <2>1, <2>2, <2>3
<1>14. QED
  BY <1>2, <1>3, <1>8, <1>11, <1>12, <1>13 DEF FlowInv

LEMMA MinOfTwo ==
  ASSUME NEW a \in Int, NEW b \in Int
  PROVE  Min({a, b}) = IF a <= b THEN a ELSE b
<1> DEFINE m == IF a <= b THEN a ELSE b
<1>1. m \in {a, b} /\ \A y \in {a, b} : m <= y
  OBVIOUS
<1>2. \A x \in {a, b} : (\A y \in {a, b} : x <= y) => x = m
  OBVIOUS
<1> HIDE DEF m
<1>3. QED
  BY <1>1, <1>2 DEF Min, m

LEMMA ReadStep ==
  ASSUME FlowInv, ReadPipe
  PROVE  FlowInv'
<1> DEFINE n == Min({RBuf, Len(pipe)})
<1>1. FlowTypes /\ Whole(Rest) /\ NL \notin ToSet(partial) /\ head = <<>>
  BY DEF FlowInv, ReadPipe
<1>2. PICK i \in 1 .. Len(sent) + 1, b \in 0 .. Len(sent), lead \in {0, 1} :
        Ahead(i, lead) /\ Gathered(i, b, lead)
  BY DEF FlowInv
<1>3. /\ vpc = "read" /\ vpc' = IF n = 0 THEN "parse" ELSE "get"
      /\ head' = SubSeq(pipe, 1, n) /\ pipe' = SubSeq(pipe, n + 1, Len(pipe))
      /\ UNCHANGED <<sent, partial, block, req>>
  BY DEF ReadPipe, clientVars
<1>4. pipe \in Seq(Tokens) /\ Len(pipe) \in Nat
  BY <1>1, LenProperties DEF FlowTypes
<1>5. n \in 0 .. Len(pipe)
  BY <1>4, MinOfTwo, ReqAssumption DEF ReqAssumption
<1> HIDE DEF n
<1>6. SubSeq(pipe, 1, n) \o SubSeq(pipe, n + 1, Len(pipe)) = pipe
  <2>1. /\ 1 \in 1 .. Len(pipe) + 1 /\ n \in 1 - 1 .. Len(pipe) /\ Len(pipe) \in n .. Len(pipe)
    BY <1>4, <1>5
  <2>2. SubSeq(pipe, 1, n) \o SubSeq(pipe, n + 1, Len(pipe)) = SubSeq(pipe, 1, Len(pipe))
    BY <1>4, <2>1, ConcatAdjacentSubSeq
  <2>3. QED
    BY <1>4, <2>2, SubSeqFull
<1>7. Rest' = Rest
  <2>1. Rest' = partial \o pipe
    BY <1>3, <1>6 DEF Rest
  <2>2. <<>> \o pipe = pipe
    BY <1>4, ConcatEmptySeq
  <2>3. QED
    BY <1>1, <2>1, <2>2 DEF Rest
<1>8. FlowTypes'
  <2>1. SubSeq(pipe, 1, n) \in Seq(Tokens)
    <3>1. \A k \in 1 .. n : pipe[k] \in Tokens
      BY <1>4, <1>5, ElementOfSeq
    <3>2. QED
      BY <1>4, <1>5, <3>1, SubSeqProperties
  <2>2. SubSeq(pipe, n + 1, Len(pipe)) \in Seq(Tokens)
    <3>1. \A k \in n + 1 .. Len(pipe) : pipe[k] \in Tokens
      BY <1>4, <1>5, ElementOfSeq
    <3>2. QED
      BY <1>4, <1>5, <3>1, SubSeqProperties
  <2>3. QED
    BY <1>1, <1>3, <2>1, <2>2 DEF FlowTypes
<1>9. Whole(Rest)' /\ Ahead(i, lead)' /\ Gathered(i, b, lead)'
  <2>1. Whole(Rest)'
    BY <1>1, <1>3, <1>7, WholeSame
  <2>2. Ahead(i, lead)'
    BY <1>2, <1>3, <1>7 DEF Ahead, Begins
  <2>3. Gathered(i, b, lead)'
    BY <1>2, <1>3 DEF Gathered
  <2>4. QED
    BY <2>1, <2>2, <2>3
<1>10. vpc' # "read" /\ NL \notin ToSet(partial')
  BY <1>1, <1>3
<1>11. QED
  BY <1>2, <1>3, <1>8, <1>9, <1>10 DEF FlowInv

\* The end of the line that ng_flow_get finds, and what the line is: the rest of an empty
\* line, or the whole text of the next request, wherever the buffers split it.
LineEnd  == SelectInSeq(head, LAMBDA t : t = NL)
LineText == SubSeq(head, 1, LineEnd - 1)
Line     == IF partial # <<>> /\ ~Fits(LineEnd) THEN partial ELSE partial \o LineText
RoomForLine == BlockLen + Len(Line) <= RBuf - 2

LEMMA GetLineParts ==
  ASSUME GetLine
  PROVE  /\ vpc = "get" /\ NL \in ToSet(head) /\ partial' = <<>>
         /\ UNCHANGED <<sent, pipe, req>>
         /\ head' = SubSeq(head, LineEnd + 1, Len(head))
         /\ block' = IF EndsBlock(Line) \/ ~RoomForLine THEN block ELSE Append(block, Line)
         /\ vpc' = IF EndsBlock(Line) \/ ~RoomForLine THEN "parse" ELSE "get"
         /\ fate' = IF RoomForLine THEN fate ELSE Dropped(Mentioned(<<Line>>))
BY DEF GetLine, LineEnd, LineText, Line, RoomForLine, clientVars

\* The first newline is where the rest of the text has its first newline.
LEMMA FirstNewline ==
  ASSUME head \in Seq(Tokens), NEW e \in 1 .. Len(head), head[e] = NL,
         \A j \in 1 .. Len(head) : head[j] = NL => e <= j
  PROVE  LineEnd = e
<1> DEFINE I == {j \in 1 .. Len(head) : head[j] = NL}
<1>1. Len(head) \in Nat
  BY LenProperties
<1>2. LineEnd = IF I # {} THEN Min(I) ELSE 0
  BY DEF LineEnd, SelectInSeq
<1>3. e \in I /\ \A j \in I : e <= j
  OBVIOUS
<1>4. \A x \in I : (\A y \in I : x <= y) => x = e
  BY <1>1, <1>3
<1> HIDE DEF I
<1>5. QED
  BY <1>2, <1>3, <1>4 DEF Min

LEMMA NextLine ==
  ASSUME FlowTypes, Whole(Rest), NL \notin ToSet(partial), NL \in ToSet(head),
         NEW n, NEW lead, Ahead(n, lead)
  PROVE  /\ LineEnd \in 1 .. Len(head)
         /\ lead = 1 => Len(partial) + LineEnd = 1 /\ Line = <<>>
         /\ lead = 0 => Rest # <<>> /\ Len(partial) + LineEnd = 3 /\ Line = Chars(n)
<1>1. /\ pipe \in Seq(Tokens) /\ head \in Seq(Tokens) /\ partial \in Seq(Tokens)
      /\ Len(pipe) \in Nat /\ Len(head) \in Nat /\ Len(partial) \in Nat
      /\ DOMAIN head = 1 .. Len(head) /\ DOMAIN partial = 1 .. Len(partial)
  BY LenProperties DEF FlowTypes
<1>2. PICK j0 \in 1 .. Len(head) : head[j0] = NL
  BY <1>1 DEF ToSet
<1>3. /\ Rest \in Seq(Tokens) /\ Len(Rest) = Len(partial) + Len(head) + Len(pipe)
      /\ \A k \in 1 .. Len(partial) : Rest[k] = partial[k]
      /\ \A k \in 1 .. Len(head) : Rest[Len(partial) + k] = head[k]
  BY RestParts
<1>4. \A k \in 1 .. Len(partial) : Rest[k] # NL
  BY <1>1, <1>3 DEF ToSet
<1>5. Rest # <<>> /\ lead \in {0, 1} /\ Len(Rest) \in Nat
  BY <1>1, <1>2, <1>3, EmptySeq DEF Ahead
<1>6. CASE lead = 1
  <2>1. Rest[1] = NL
    BY <1>6, NextText
  <2>2. Len(partial) = 0 /\ partial = <<>>
    BY <1>1, <1>4, <2>1, EmptySeq
  <2>3. Rest[Len(partial) + 1] = head[1] /\ 1 \in 1 .. Len(head)
    BY <1>1, <1>2, <1>3
  <2>4. LineEnd = 1
    BY <1>1, <2>1, <2>2, <2>3, FirstNewline
  <2>5. LineText = <<>>
    BY <2>4, SubSeqEmpty DEF LineText
  <2>6. Line = <<>>
    BY <1>1, <2>2, <2>5, ConcatEmptySeq DEF Line
  <2>7. QED
    BY <1>6, <2>2, <2>3, <2>4, <2>6
<1>7. CASE lead = 0
  <2> DEFINE e == 3 - Len(partial)
  <2>1. /\ n \in 1 .. Len(sent)
        /\ Rest[1] = <<n, 1>> /\ Rest[2] = <<n, 2>> /\ Rest[3] = NL
    BY <1>5, <1>7, NextText
  <2>2. Rest[1] # NL /\ Rest[2] # NL
    BY <2>1, NoNewline
  <2>3. Len(partial) <= 2
    BY <1>1, <1>4, <2>1
  <2>4. ASSUME NEW j \in 1 .. Len(head), head[j] = NL PROVE e <= j
    <3> DEFINE g == Len(partial) + j
    <3>1. g \in Nat \ {0} /\ Rest[g] = NL
      BY <1>1, <1>3, <2>4
    <3>2. g >= 3
      BY <2>2, <3>1
    <3>3. QED
      BY <1>1, <3>2
  <2>5. e \in 1 .. Len(head)
    BY <1>1, <1>2, <2>3, <2>4
  <2>6. head[e] = NL
    <3>1. Len(partial) + e = 3
      BY <1>1
    <3>2. Rest[Len(partial) + e] = head[e]
      BY <1>3, <2>5
    <3>3. QED
      BY <2>1, <3>1, <3>2
  <2>7. LineEnd = e
    BY <1>1, <2>4, <2>5, <2>6, FirstNewline
  <2>8. Line = partial \o LineText
    <3>1. Fits(LineEnd)
      BY <1>1, <2>7, ReqAssumption DEF Fits, ReqAssumption
    <3>2. QED
      BY <3>1 DEF Line
  <2>9. /\ LineText \in Seq(Tokens) /\ Len(LineText) = e - 1
        /\ \A k \in 1 .. e - 1 : LineText[k] = head[k]
    <3>1. \A k \in 1 .. e - 1 : head[k] \in Tokens
      BY <1>1, <2>5, ElementOfSeq
    <3>2. LineText = SubSeq(head, 1, e - 1) /\ e \in Int /\ e >= 1
      BY <1>1, <2>5, <2>7 DEF LineText
    <3> HIDE DEF e
    <3>3. /\ SubSeq(head, 1, e - 1) \in Seq(Tokens)
          /\ Len(SubSeq(head, 1, e - 1)) = IF 1 <= e - 1 THEN e - 1 - 1 + 1 ELSE 0
          /\ \A k \in 1 .. e - 1 - 1 + 1 : SubSeq(head, 1, e - 1)[k] = head[1 + k - 1]
      BY <3>1, <3>2, SubSeqProperties
    <3>4. e - 1 - 1 + 1 = e - 1 /\ \A k \in 1 .. e - 1 : 1 + k - 1 = k
      BY <3>2
    <3>5. QED
      BY <3>2, <3>3, <3>4
  <2>10. /\ Line \in Seq(Tokens) /\ Len(Line) = 2
         /\ \A k \in 1 .. 2 :
              Line[k] = IF k <= Len(partial) THEN partial[k] ELSE LineText[k - Len(partial)]
    <3>1. /\ partial \o LineText \in Seq(Tokens)
          /\ Len(partial \o LineText) = Len(partial) + Len(LineText)
          /\ \A k \in 1 .. Len(partial) + Len(LineText) :
               (partial \o LineText)[k] =
                 IF k <= Len(partial) THEN partial[k] ELSE LineText[k - Len(partial)]
      BY <1>1, <2>9, ConcatProperties
    <3>2. Len(partial) + Len(LineText) = 2
      BY <1>1, <2>9
    <3>3. QED
      BY <2>8, <3>1, <3>2
  <2>11. \A k \in 1 .. 2 : Line[k] = Rest[k]
    <3> SUFFICES ASSUME NEW k \in 1 .. 2 PROVE Line[k] = Rest[k]
      OBVIOUS
    <3>1. CASE k <= Len(partial)
      BY <1>1, <1>3, <2>10, <3>1
    <3>2. CASE ~(k <= Len(partial))
      <4> DEFINE j == k - Len(partial)
      <4>1. j \in 1 .. e - 1 /\ j \in 1 .. Len(head) /\ Len(partial) + j = k
        BY <1>1, <2>5, <3>2
      <4>2. Line[k] = LineText[j]
        BY <2>10, <3>2
      <4> HIDE DEF j, e
      <4>3. QED
        BY <1>3, <2>9, <4>1, <4>2
    <3>3. QED
      BY <3>1, <3>2
  <2>12. Line = Chars(n)
    <3>1. Line[1] = <<n, 1>> /\ Line[2] = <<n, 2>>
      BY <2>1, <2>11
    <3>2. Chars(n) \in Seq(Tokens) /\ Len(Chars(n)) = 2
      <4>1. n \in 0 .. MaxReqs /\ 1 \in 0 .. 2 /\ 2 \in 0 .. 2
        BY <2>1, ReqAssumption DEF FlowTypes, ReqAssumption
      <4>2. <<n, 1>> \in Tokens /\ <<n, 2>> \in Tokens
        BY <4>1 DEF Tokens
      <4>3. QED
        BY <4>2 DEF Chars
    <3>3. \A k \in 1 .. 2 : Line[k] = Chars(n)[k]
      BY <3>1 DEF Chars
    <3>4. QED
      BY <2>10, <3>2, <3>3, SeqEqual
  <2>13. Len(partial) + e = 3
    BY <1>1
  <2>14. QED
    BY <1>5, <1>7, <2>5, <2>7, <2>12, <2>13
<1>8. QED
  BY <1>5, <1>6, <1>7

\* A line is taken off the front of the text.
LEMMA RestAfterLine ==
  ASSUME FlowTypes, GetLine, LineEnd \in 1 .. Len(head)
  PROVE  /\ head' \in Seq(Tokens) /\ Rest' \in Seq(Tokens)
         /\ Len(partial) + LineEnd \in 0 .. Len(Rest)
         /\ Len(Rest') = Len(Rest) - (Len(partial) + LineEnd)
         /\ \A k \in 1 .. Len(Rest') : Rest'[k] = Rest[k + (Len(partial) + LineEnd)]
<1>1. /\ pipe \in Seq(Tokens) /\ head \in Seq(Tokens) /\ partial \in Seq(Tokens)
      /\ Len(pipe) \in Nat /\ Len(head) \in Nat /\ Len(partial) \in Nat
  BY LenProperties DEF FlowTypes
<1> DEFINE e == LineEnd
           h == SubSeq(head, e + 1, Len(head))
           p == Len(partial)
<1>2. head' = h /\ partial' = <<>> /\ pipe' = pipe
  BY GetLineParts
<1> HIDE DEF e
<1>3. e \in 1 .. Len(head)
  BY DEF e
<1>4. /\ h \in Seq(Tokens) /\ Len(h) = Len(head) - e
      /\ \A k \in 1 .. Len(head) - e : h[k] = head[e + k]
  <2>1. \A k \in e + 1 .. Len(head) : head[k] \in Tokens
    BY <1>1, <1>3, ElementOfSeq
  <2>2. /\ SubSeq(head, e + 1, Len(head)) \in Seq(Tokens)
        /\ Len(SubSeq(head, e + 1, Len(head))) =
             IF e + 1 <= Len(head) THEN Len(head) - (e + 1) + 1 ELSE 0
        /\ \A k \in 1 .. Len(head) - (e + 1) + 1 : SubSeq(head, e + 1, Len(head))[k] = head[e + 1 + k - 1]
    BY <1>1, <1>3, <2>1, SubSeqProperties
  <2>3. /\ Len(head) - (e + 1) + 1 = Len(head) - e
        /\ \A k \in 1 .. Len(head) - e : e + 1 + k - 1 = e + k
        /\ ~(e + 1 <= Len(head)) => Len(head) - e = 0
    BY <1>1, <1>3
  <2>4. h \in Seq(Tokens) /\ Len(h) = Len(head) - e
    BY <2>2, <2>3
  <2>5. ASSUME NEW k \in 1 .. Len(head) - e PROVE h[k] = head[e + k]
    BY <2>2, <2>3
  <2>6. QED
    BY <2>4, <2>5
<1> HIDE DEF h
<1>5. Rest' = <<>> \o (h \o pipe)
  BY <1>2 DEF Rest
<1>6. <<>> \in Seq(Tokens) /\ Len(<<>>) = 0
  BY EmptySeq
<1>7. /\ Rest' \in Seq(Tokens) /\ Len(Rest') = Len(h) + Len(pipe)
      /\ \A k \in 1 .. Len(h) : Rest'[k] = h[k]
      /\ \A k \in 1 .. Len(pipe) : Rest'[Len(h) + k] = pipe[k]
  <2>1. /\ <<>> \o (h \o pipe) \in Seq(Tokens)
        /\ Len(<<>> \o (h \o pipe)) = 0 + Len(h) + Len(pipe)
        /\ \A k \in 1 .. Len(h) : (<<>> \o (h \o pipe))[0 + k] = h[k]
        /\ \A k \in 1 .. Len(pipe) : (<<>> \o (h \o pipe))[0 + Len(h) + k] = pipe[k]
    <3>1. <<>> \in Seq(Tokens) /\ h \in Seq(Tokens) /\ pipe \in Seq(Tokens)
      BY <1>1, <1>4, <1>6
    <3> DEFINE z == <<>>
    <3>2. Len(z) = 0 /\ z \in Seq(Tokens)
      BY <1>6
    <3> HIDE DEF z
    <3>3. /\ z \o (h \o pipe) \in Seq(Tokens)
          /\ Len(z \o (h \o pipe)) = Len(z) + Len(h) + Len(pipe)
          /\ \A k \in 1 .. Len(h) : (z \o (h \o pipe))[Len(z) + k] = h[k]
          /\ \A k \in 1 .. Len(pipe) : (z \o (h \o pipe))[Len(z) + Len(h) + k] = pipe[k]
      BY <3>1, <3>2, ThreeParts
    <3>4. QED
      BY <3>2, <3>3 DEF z
  <2>2. Len(h) \in Nat /\ Len(pipe) \in Nat
    BY <1>1, <1>4, LenProperties
  <2>3. /\ 0 + Len(h) + Len(pipe) = Len(h) + Len(pipe) /\ \A k \in 1 .. Len(h) : 0 + k = k
        /\ \A k \in 1 .. Len(pipe) : 0 + Len(h) + k = Len(h) + k
    BY <2>2
  <2>4. QED
    BY <1>5, <2>1, <2>3
<1>8. /\ Rest \in Seq(Tokens) /\ Len(Rest) = p + Len(head) + Len(pipe)
      /\ \A k \in 1 .. Len(head) : Rest[p + k] = head[k]
      /\ \A k \in 1 .. Len(pipe) : Rest[p + Len(head) + k] = pipe[k]
  BY RestParts
<1> HIDE DEF p
<1>9. p \in Nat
  BY <1>1 DEF p
<1>10. ASSUME NEW k \in 1 .. Len(Rest') PROVE Rest'[k] = Rest[k + (p + e)]
  <2>0. k \in Nat \ {0} /\ k <= Len(head) - e + Len(pipe)
    BY <1>1, <1>3, <1>4, <1>7
  <2>1. CASE k <= Len(h)
    <3>1. /\ k \in 1 .. Len(h) /\ k \in 1 .. Len(head) - e
          /\ e + k \in 1 .. Len(head) /\ p + (e + k) = k + (p + e)
      BY <1>1, <1>3, <1>4, <1>9, <2>0, <2>1
    <3>2. Rest'[k] = h[k] /\ h[k] = head[e + k]
      BY <1>4, <1>7, <3>1
    <3>3. Rest[p + (e + k)] = head[e + k]
      BY <1>8, <3>1
    <3>4. QED
      BY <3>1, <3>2, <3>3
  <2>2. CASE ~(k <= Len(h))
    <3> DEFINE j == k - Len(h)
    <3>1. j \in 1 .. Len(pipe) /\ Len(h) + j = k /\ p + Len(head) + j = k + (p + e)
      BY <1>1, <1>3, <1>4, <1>9, <2>0, <2>2
    <3> HIDE DEF j
    <3>2. Rest'[k] = pipe[j]
      BY <1>7, <3>1
    <3>3. Rest[p + Len(head) + j] = pipe[j]
      BY <1>8, <3>1
    <3>4. QED
      BY <3>1, <3>2, <3>3
  <2>3. QED
    BY <2>1, <2>2
<1>11. p + e \in 0 .. Len(Rest) /\ Len(Rest') = Len(Rest) - (p + e)
  BY <1>1, <1>3, <1>4, <1>7, <1>8, <1>9
<1>12. QED
  BY <1>2, <1>4, <1>7, <1>10, <1>11 DEF p, e

\* rfifo_read has room for a line at the start of a block, and a block that has lines
\* grows only by the request that was sent next.
LEMMA GetStep ==
  ASSUME FlowInv, GetLine
  PROVE  /\ FlowInv'
         /\ ~RoomForLine => \A i \in Mentioned(<<Line>>) : i > 1 /\ sent[i - 1].style = "vreq"
<1>1. FlowTypes /\ Whole(Rest) /\ NL \notin ToSet(partial)
  BY DEF FlowInv
<1>2. PICK n \in 1 .. Len(sent) + 1, b \in 0 .. Len(sent), lead \in {0, 1} :
        Ahead(n, lead) /\ Gathered(n, b, lead)
  BY DEF FlowInv
<1> DEFINE m == Len(partial) + LineEnd
<1>3. /\ vpc = "get" /\ NL \in ToSet(head) /\ partial' = <<>>
      /\ UNCHANGED <<sent, pipe, req>>
      /\ block' = IF EndsBlock(Line) \/ ~RoomForLine THEN block ELSE Append(block, Line)
      /\ vpc' = IF EndsBlock(Line) \/ ~RoomForLine THEN "parse" ELSE "get"
  BY GetLineParts
<1>4. /\ LineEnd \in 1 .. Len(head)
      /\ lead = 1 => m = 1 /\ Line = <<>>
      /\ lead = 0 => Rest # <<>> /\ m = 3 /\ Line = Chars(n)
  BY <1>1, <1>2, <1>3, NextLine
<1>5. /\ head' \in Seq(Tokens) /\ Rest' \in Seq(Tokens) /\ Rest \in Seq(Tokens)
      /\ m \in 0 .. Len(Rest) /\ Len(Rest') = Len(Rest) - m
      /\ \A k \in 1 .. Len(Rest') : Rest'[k] = Rest[k + m]
  BY <1>1, <1>4, RestAfterLine, RestParts
<1>6. /\ sent \in Seq(SentRecords) /\ Len(sent) \in Nat /\ Len(sent) <= MaxReqs /\ MaxReqs \in Nat
      /\ pipe \in Seq(Tokens) /\ block \in Seq(Seq(Tokens)) /\ Len(block) \in Nat /\ req \in Nat
      /\ Len(Rest) \in Nat /\ Len(Rest') \in Nat
  BY <1>1, <1>5, LenProperties, ReqAssumption DEF FlowTypes, ReqAssumption
<1> HIDE DEF m
<1>7. /\ Whole(Rest')
      /\ \A k \in 1 .. Len(Rest') + 1, i \in Nat : Begins(Rest, k + m, i) => Begins(Rest', k, i)
  BY <1>1, <1>5, <1>6, FromPlace
<1>8. Whole(Rest)'
  BY <1>3, <1>7 DEF Whole, Begins, Size
<1>9. \A k \in 1 .. Len(Rest') + 1, i \in Nat : Begins(Rest, k + m, i) => Begins(Rest, k, i)'
  BY <1>3, <1>7 DEF Begins
<1>10. NL \notin ToSet(partial') /\ vpc' # "read"
  <2>1. DOMAIN <<>> = {}
    OBVIOUS
  <2>2. QED
    BY <1>3, <2>1 DEF ToSet
<1>11. ASSUME block' \in Seq(Seq(Tokens)) PROVE FlowTypes'
  <2>1. partial' \in Seq(Tokens)
    BY <1>3, EmptySeq
  <2>2. vpc' \in {"get", "parse"}
    BY <1>3
  <2>3. QED
    BY <1>3, <1>5, <1>6, <1>11, <2>1, <2>2 DEF FlowTypes
<1>12. CASE lead = 1
  <2>1. Line = <<>> /\ m = 1
    BY <1>4, <1>12
  <2>2. block' = block /\ vpc' = "parse"
    BY <1>3, <2>1 DEF EndsBlock
  <2>3. Ahead(n, 0)'
    <3>1. Begins(Rest, 1 + 1, n) /\ n \in 1 .. Len(sent) + 1
      BY <1>2, <1>12 DEF Ahead
    <3>2. 1 \in 1 .. Len(Rest') + 1 /\ n \in Nat
      BY <1>6, <3>1
    <3>3. Begins(Rest, 1, n)'
      BY <1>9, <2>1, <3>1, <3>2
    <3>4. QED
      BY <1>3, <3>1, <3>3 DEF Ahead
  <2>4. Gathered(n, b, 0)'
    BY <1>2, <1>3, <2>2 DEF Gathered
  <2>5. Mentioned(<<Line>>) = {}
    <3>1. DOMAIN <<Line>> = {1} /\ DOMAIN Line = {} /\ <<Line>>[1] = Line
      BY <2>1
    <3>2. QED
      BY <3>1 DEF Mentioned, ToSet
  <2>6. FlowTypes'
    BY <1>6, <1>11, <2>2
  <2>7. \E x \in 1 .. Len(sent') + 1, y \in 0 .. Len(sent'), l \in {0, 1} :
          Ahead(x, l)' /\ Gathered(x, y, l)'
    BY <1>3, <2>3, <2>4
  <2>8. QED
    BY <1>8, <1>10, <2>5, <2>6, <2>7 DEF FlowInv
<1>13. CASE lead = 0
  <2>0. PICK l \in {0, 1} : l = IF sent[n].style = "iplex" THEN 1 ELSE 0
    OBVIOUS
  <2>1. m = 3 /\ Line = Chars(n) /\ Rest # <<>>
    BY <1>4, <1>13
  <2>2. /\ n \in 1 .. Len(sent) /\ Size(n) <= Len(Rest)
        /\ sent[n].style = "iplex" => Rest[4] = NL
        /\ Begins(Rest, Size(n) + 1, n + 1)
    BY <1>1, <1>2, <1>13, <2>1, NextText
  <2>3. Size(n) = l + 3
    BY <2>0 DEF Size
  <2>4. Ahead(n + 1, l)'
    <3>1. l + 1 \in 1 .. Len(Rest') + 1 /\ (l = 1 => 1 \in 1 .. Len(Rest')) /\ n + 1 \in Nat
      <4>1. l + 3 <= Len(Rest) /\ Len(Rest') = Len(Rest) - 3
        BY <1>5, <2>1, <2>2, <2>3
      <4>2. QED
        BY <1>6, <2>2, <4>1
    <3>2. (l + 1) + m = Size(n) + 1
      BY <2>1, <2>3
    <3>3. Begins(Rest, l + 1, n + 1)'
      BY <1>9, <2>2, <3>1, <3>2
    <3>4. l = 1 => Rest'[1] = NL /\ Rest' # <<>>
      <4>1. l = 1 => sent[n].style = "iplex" /\ Rest'[1] = Rest[1 + m]
        BY <1>5, <2>0, <3>1
      <4>2. l = 1 => Rest'[1] = NL
        BY <2>1, <2>2, <4>1
      <4>3. l = 1 => Rest' # <<>>
        BY <1>5, <3>1, EmptySeq
      <4>4. QED
        BY <4>2, <4>3
    <3>5. n + 1 \in 1 .. Len(sent') + 1
      BY <1>3, <1>6, <2>2
    <3>6. QED
      BY <2>3, <3>3, <3>4, <3>5 DEF Ahead
  <2>5. Line # <<>> /\ Len(Line) = 2 /\ Line \in Seq(Tokens)
    <3>1. n \in 0 .. MaxReqs /\ 1 \in 0 .. 2 /\ 2 \in 0 .. 2
      BY <1>6, <2>2
    <3>2. <<n, 1>> \in Tokens /\ <<n, 2>> \in Tokens
      BY <3>1 DEF Tokens
    <3>3. QED
      BY <2>1, <3>2 DEF Chars
  <2>6. ~EndsBlock(Line)
    BY <2>5 DEF EndsBlock
  <2>7. block = <<>> => RoomForLine
    <3>1. block = <<>> => BlockLen = 0
      BY DEF BlockLen, FlattenSeq
    <3>2. QED
      BY <2>5, <3>1, ReqAssumption DEF RoomForLine, ReqAssumption
  <2>8. block # <<>> => b + Len(block) = n - 1 /\ Len(block) >= 1 /\ sent[n - 1].style = "vreq"
    BY <1>2, <1>3, <1>6, <1>13, EmptySeq DEF Gathered
  <2>9. CASE RoomForLine
    <3>0. PICK c \in 0 .. Len(sent) : c = IF block = <<>> THEN n - 1 ELSE b
      <4>1. n - 1 \in 0 .. Len(sent)
        BY <1>6, <2>2
      <4>2. QED
        BY <4>1
    <3>1. block' = Append(block, Line) /\ vpc' = "get"
      BY <1>3, <2>6, <2>9
    <3>2. /\ block' \in Seq(Seq(Tokens)) /\ Len(block') = Len(block) + 1
          /\ \A k \in 1 .. Len(block) : block'[k] = block[k]
          /\ block'[Len(block) + 1] = Line
      BY <1>6, <2>5, <3>1, AppendProperties
    <3>3. c \in Nat /\ c \in 0 .. Len(sent) /\ req <= c /\ c + Len(block') = n
      <4>1. CASE block = <<>>
        <5>1. Len(block) = 0 /\ c = n - 1
          BY <3>0, <4>1
        <5>2. req <= b /\ b + Len(block) < n /\ b \in Nat
          BY <1>2 DEF Gathered
        <5>3. QED
          BY <1>6, <2>2, <3>2, <5>1, <5>2
      <4>2. CASE block # <<>>
        <5>1. c = b /\ req <= b /\ b \in Nat
          BY <1>2, <3>0, <4>2 DEF Gathered
        <5>2. QED
          BY <1>2, <1>6, <2>2, <2>8, <3>2, <4>2, <5>1
      <4>3. QED
        BY <4>1, <4>2
    <3>4. \A k \in 1 .. Len(block') : block'[k] = Chars(c + k)
      <4> SUFFICES ASSUME NEW k \in 1 .. Len(block') PROVE block'[k] = Chars(c + k)
        OBVIOUS
      <4>1. CASE k <= Len(block)
        <5>1. k \in 1 .. Len(block) /\ block # <<>>
          BY <1>6, <3>2, <4>1, EmptySeq
        <5>2. c = b /\ block[k] = Chars(b + k)
          BY <1>2, <3>0, <5>1 DEF Gathered
        <5>3. QED
          BY <3>2, <5>1, <5>2
      <4>2. CASE ~(k <= Len(block))
        <5>1. k = Len(block) + 1 /\ c + k = n
          BY <1>6, <3>2, <3>3, <4>2
        <5>2. QED
          BY <2>1, <3>2, <5>1
      <4>3. QED
        BY <4>1, <4>2
    <3>5. \A k \in 1 .. Len(block') - 1 : sent[c + k].style = "vreq"
      <4> SUFFICES ASSUME NEW k \in 1 .. Len(block') - 1 PROVE sent[c + k].style = "vreq"
        OBVIOUS
      <4>1. k \in 1 .. Len(block) /\ block # <<>>
        BY <1>6, <3>2, EmptySeq
      <4>2. c = b /\ b + Len(block) = n - 1 /\ sent[n - 1].style = "vreq"
        BY <2>8, <3>0, <4>1
      <4>3. CASE k = Len(block)
        BY <4>2, <4>3
      <4>4. CASE k # Len(block)
        <5>1. k \in 1 .. Len(block) - 1
          BY <1>6, <4>1, <4>4
        <5>2. QED
          BY <1>2, <4>2, <5>1 DEF Gathered
      <4>5. QED
        BY <4>3, <4>4
    <3>6. sent[n].style = "vreq" \/ l = 1
      <4>1. sent[n] \in SentRecords
        BY <1>6, <2>2, ElementOfSeq
      <4>2. QED
        BY <2>0, <4>1 DEF SentRecords
    <3>7. (n + 1) - 1 = n /\ n < n + 1
      BY <1>6, <2>2
    <3>8. Gathered(n + 1, c, l)'
      BY <1>3, <3>1, <3>3, <3>4, <3>5, <3>6, <3>7 DEF Gathered
    <3>9. \E x \in 1 .. Len(sent') + 1, y \in 0 .. Len(sent'), z \in {0, 1} :
            Ahead(x, z)' /\ Gathered(x, y, z)'
      <4>1. n + 1 \in 1 .. Len(sent') + 1
        BY <1>3, <1>6, <2>2
      <4>2. QED
        BY <1>3, <2>3, <2>4, <3>3, <3>8, <4>1
    <3>10. FlowTypes'
      BY <1>11, <3>2
    <3>11. QED
      BY <1>8, <1>10, <2>9, <3>9, <3>10 DEF FlowInv
  <2>10. CASE ~RoomForLine
    <3>1. block' = block /\ vpc' = "parse" /\ block # <<>>
      BY <1>3, <2>7, <2>10
    <3>2. b + Len(block) = n - 1 /\ Len(block) >= 1 /\ sent[n - 1].style = "vreq"
      BY <2>8, <3>1
    <3>3. b + Len(block') < n + 1 /\ n > 1
      BY <1>2, <1>6, <2>2, <3>1, <3>2
    <3>4. Gathered(n + 1, b, l)'
      BY <1>2, <1>3, <3>1, <3>3 DEF Gathered
    <3>5. \E x \in 1 .. Len(sent') + 1, y \in 0 .. Len(sent'), z \in {0, 1} :
            Ahead(x, z)' /\ Gathered(x, y, z)'
      <4>1. n + 1 \in 1 .. Len(sent') + 1
        BY <1>3, <1>6, <2>2
      <4>2. QED
        BY <1>2, <1>3, <2>3, <2>4, <3>4, <4>1
    <3>6. Mentioned(<<Line>>) = {n}
      <4>1. ToSet(<<Line>>[1]) = {<<n, 1>>, <<n, 2>>} /\ DOMAIN <<Line>> = {1}
        BY <2>1 DEF Chars, ToSet
      <4>2. {ToSet(<<Line>>[k]) : k \in DOMAIN <<Line>>} = {{<<n, 1>>, <<n, 2>>}}
        BY <4>1
      <4>3. UNION {ToSet(<<Line>>[k]) : k \in DOMAIN <<Line>>} = {<<n, 1>>, <<n, 2>>}
        BY <4>2
      <4>4. Mentioned(<<Line>>) = {x[1] : x \in {<<n, 1>>, <<n, 2>>}}
        BY <4>3 DEF Mentioned
      <4>5. QED
        BY <4>4
    <3>7. FlowTypes'
      BY <1>6, <1>11, <3>1
    <3>8. QED
      BY <1>8, <1>10, <3>2, <3>3, <3>5, <3>6, <3>7 DEF FlowInv
  <2>11. QED
    BY <2>9, <2>10
<1>14. QED
  BY <1>12, <1>13

\* A request is sent whole, behind the one that was sent last.
LEMMA SendFlow ==
  ASSUME FlowInv, NEW t \in Texts, NEW style \in {"iplex", "vreq"}, Send(t, style)
  PROVE  FlowInv'
<1>1. FlowTypes /\ Whole(Rest) /\ NL \notin ToSet(partial)
  BY DEF FlowInv
<1>2. PICK n \in 1 .. Len(sent) + 1, b \in 0 .. Len(sent), lead \in {0, 1} :
        Ahead(n, lead) /\ Gathered(n, b, lead)
  BY DEF FlowInv
<1>3. PICK i \in Nat \ {0} : i = Len(sent) + 1
  BY <1>1, LenProperties DEF FlowTypes
<1>4. /\ sent' = Append(sent, [text |-> t, style |-> style])
      /\ pipe' = pipe \o Chars(i) \o Ends(style)
      /\ UNCHANGED <<head, partial, block, vpc, req>> /\ Len(sent) < MaxReqs
  BY <1>3 DEF Send
<1>5. /\ sent \in Seq(SentRecords) /\ Len(sent) \in Nat /\ MaxReqs \in Nat
      /\ head \in Seq(Tokens) /\ pipe \in Seq(Tokens) /\ partial \in Seq(Tokens)
      /\ Rest \in Seq(Tokens) /\ Len(Rest) \in Nat /\ Len(block) \in Nat
  BY <1>1, RestParts, LenProperties, ReqAssumption DEF FlowTypes, ReqAssumption
<1>6. /\ sent' \in Seq(SentRecords) /\ Len(sent') = i
      /\ \A j \in 1 .. Len(sent) : sent'[j] = sent[j]
      /\ sent'[i].style = style
  <2>1. [text |-> t, style |-> style] \in SentRecords
    BY DEF SentRecords
  <2>2. QED
    BY <1>3, <1>4, <1>5, <2>1, AppendProperties
<1>7. PICK z \in {3, 4} : z = IF style = "iplex" THEN 4 ELSE 3
  OBVIOUS
<1>8. PICK new \in Seq(Tokens) :
        /\ pipe' = pipe \o new /\ Len(new) = z
        /\ new[1] = <<i, 1>> /\ new[2] = <<i, 2>> /\ new[3] = NL
        /\ style = "iplex" => new[4] = NL
  <2>1. <<i, 1>> \in Tokens /\ <<i, 2>> \in Tokens /\ NL \in Tokens
    <3>1. i \in 0 .. MaxReqs /\ 0 \in 0 .. MaxReqs /\ \A k \in {0, 1, 2} : k \in 0 .. 2
      BY <1>3, <1>4, <1>5
    <3>2. QED
      BY <3>1 DEF Tokens, NL
  <2>2. Chars(i) \in Seq(Tokens) /\ Len(Chars(i)) = 2 /\ Chars(i)[1] = <<i, 1>> /\ Chars(i)[2] = <<i, 2>>
    BY <2>1 DEF Chars
  <2>3. /\ Ends(style) \in Seq(Tokens) /\ Len(Ends(style)) = z - 2
        /\ Ends(style)[1] = NL /\ (style = "iplex" => Ends(style)[2] = NL)
    BY <1>7, <2>1 DEF Ends
  <2> DEFINE c == Chars(i)
             d == Ends(style)
  <2>4. c \in Seq(Tokens) /\ d \in Seq(Tokens) /\ Len(c) = 2 /\ Len(d) = z - 2
    BY <2>2, <2>3
  <2>5. (pipe \o c) \o d = pipe \o (c \o d)
    <3> HIDE DEF c, d
    <3>1. pipe \in Seq(Tokens) /\ c \in Seq(Tokens) /\ d \in Seq(Tokens)
      BY <1>5, <2>4
    <3>2. QED
      BY <3>1, Joined
  <2>6. /\ c \o d \in Seq(Tokens) /\ Len(c \o d) = z
        /\ \A k \in 1 .. z : (c \o d)[k] = IF k <= 2 THEN c[k] ELSE d[k - 2]
    <3> HIDE DEF c, d
    <3>1. /\ c \o d \in Seq(Tokens) /\ Len(c \o d) = Len(c) + Len(d)
          /\ \A k \in 1 .. Len(c) + Len(d) : (c \o d)[k] = IF k <= Len(c) THEN c[k] ELSE d[k - Len(c)]
      BY <2>4, ConcatProperties
    <3>2. Len(c) + Len(d) = z
      BY <1>7, <2>4
    <3>3. QED
      BY <2>4, <3>1, <3>2
  <2>7. /\ (c \o d)[1] = <<i, 1>> /\ (c \o d)[2] = <<i, 2>> /\ (c \o d)[3] = NL
        /\ style = "iplex" => (c \o d)[4] = NL
    <3>1. 1 \in 1 .. z /\ 2 \in 1 .. z /\ 3 \in 1 .. z /\ (style = "iplex" => 4 \in 1 .. z)
      BY <1>7
    <3>2. c[1] = <<i, 1>> /\ c[2] = <<i, 2>> /\ d[1] = NL /\ (style = "iplex" => d[2] = NL)
      BY <2>2, <2>3
    <3> HIDE DEF c, d
    <3>3. 3 - 2 = 1 /\ 4 - 2 = 2 /\ 1 <= 2 /\ 2 <= 2 /\ ~(3 <= 2) /\ ~(4 <= 2)
      OBVIOUS
    <3>4. (c \o d)[1] = c[1] /\ (c \o d)[2] = c[2]
      BY <2>6, <3>1, <3>3
    <3>5. (c \o d)[3] = d[1]
      BY <2>6, <3>1, <3>3
    <3>6. style = "iplex" => (c \o d)[4] = d[2]
      BY <2>6, <3>1, <3>3
    <3>7. QED
      BY <3>2, <3>4, <3>5, <3>6
  <2>8. pipe' = pipe \o (c \o d)
    BY <1>4, <2>5
  <2> HIDE DEF c, d
  <2>9. QED
    BY <2>6, <2>7, <2>8
<1> DEFINE r == Len(Rest)
<1>9. Rest' = Rest \o new
  <2>1. head \o (pipe \o new) = (head \o pipe) \o new
    <3>1. head \in Seq(Tokens) /\ pipe \in Seq(Tokens) /\ new \in Seq(Tokens)
      BY <1>5
    <3>2. QED
      BY <3>1, Joined
  <2>2. head \o pipe \in Seq(Tokens)
    BY <1>5, ConcatProperties
  <2>3. partial \o ((head \o pipe) \o new) = (partial \o (head \o pipe)) \o new
    <3> DEFINE tail == head \o pipe
    <3>1. partial \in Seq(Tokens) /\ tail \in Seq(Tokens) /\ new \in Seq(Tokens)
      BY <1>5, <2>2
    <3> HIDE DEF tail
    <3>2. partial \o (tail \o new) = (partial \o tail) \o new
      BY <3>1, Joined
    <3>3. QED
      BY <3>2 DEF tail
  <2>4. QED
    BY <1>4, <1>8, <2>1, <2>3 DEF Rest
<1>10. /\ Rest' \in Seq(Tokens) /\ Len(Rest') = r + z
       /\ \A k \in 1 .. r + z : Rest'[k] = IF k <= r THEN Rest[k] ELSE new[k - r]
  <2>1. Rest \in Seq(Tokens) /\ new \in Seq(Tokens) /\ Len(new) = z
    BY <1>5, <1>8
  <2>2. /\ Rest \o new \in Seq(Tokens) /\ Len(Rest \o new) = Len(Rest) + Len(new)
        /\ \A k \in 1 .. Len(Rest) + Len(new) :
             (Rest \o new)[k] = IF k <= Len(Rest) THEN Rest[k] ELSE new[k - Len(Rest)]
    BY <2>1, ConcatProperties
  <2>3. QED
    BY <1>9, <2>1, <2>2
<1>11. \A k \in 1 .. r : Rest'[k] = Rest[k]
  <2>1. r \in Nat
    BY <1>5
  <2> HIDE DEF r
  <2>2. \A k \in 1 .. r : k \in 1 .. r + z /\ k <= r
    BY <1>7, <2>1
  <2>3. QED
    BY <1>10, <2>2
<1>12. /\ Rest'[r + 1] = <<i, 1>> /\ Rest'[r + 2] = <<i, 2>> /\ Rest'[r + 3] = NL
       /\ style = "iplex" => Rest'[r + 4] = NL
  <2>1. ASSUME NEW k \in 1 .. z PROVE Rest'[r + k] = new[k]
    <3> HIDE DEF r
    <3>1. PICK g \in 1 .. r + z : g = r + k /\ ~(g <= r) /\ g - r = k
      <4>1. r \in Nat
        BY <1>5 DEF r
      <4>2. r + k \in 1 .. r + z /\ ~(r + k <= r) /\ (r + k) - r = k
        BY <1>7, <4>1
      <4>3. QED
        BY <4>2
    <3>2. Rest'[g] = new[k]
      BY <1>10, <3>1
    <3>3. QED
      BY <3>1, <3>2
  <2>2. 1 \in 1 .. z /\ 2 \in 1 .. z /\ 3 \in 1 .. z /\ (style = "iplex" => 4 \in 1 .. z)
    BY <1>7
  <2>3. QED
    BY <1>8, <2>1, <2>2
<1>13. PICK len \in Nat : len = r
  BY <1>5
<1> HIDE DEF r
<1>131. Len(Rest') = len + z
  BY <1>10, <1>13
<1>14. ASSUME NEW k \in 1 .. len + 1, NEW j \in Nat, Begins(Rest, k, j)
       PROVE  Begins(Rest, k, j)'
  <2>1. CASE k = len + 1
    <3>1. j = i
      BY <1>3, <1>13, <1>14, <2>1 DEF Begins, r
    <3>2. Rest'[k] = <<i, 1>> /\ k \in 1 .. Len(Rest') /\ j \in 1 .. Len(sent') /\ k # Len(Rest') + 1
      BY <1>6, <1>7, <1>10, <1>12, <1>13, <2>1, <3>1
    <3>3. QED
      BY <3>1, <3>2 DEF Begins
  <2>2. CASE k # len + 1
    <3>1. k \in 1 .. len /\ j \in 1 .. Len(sent) /\ Rest[k] = <<j, 1>>
      BY <1>13, <1>14, <2>2 DEF Begins, r
    <3>2. k \in 1 .. Len(Rest') /\ k # Len(Rest') + 1 /\ j \in 1 .. Len(sent')
      <4>1. j \in 1 .. Len(sent')
        BY <1>3, <1>5, <1>6, <3>1
      <4>2. QED
        BY <1>7, <1>131, <3>1, <4>1
    <3>3. Rest'[k] = <<j, 1>>
      BY <1>11, <1>13, <3>1
    <3>4. QED
      BY <3>2, <3>3 DEF Begins
  <2>3. QED
    BY <2>1, <2>2
<1>15. \A j \in 1 .. Len(sent) : Size(j)' = Size(j)
  BY <1>6 DEF Size
<1>16. Size(i)' = z
  BY <1>6, <1>7 DEF Size
<1>17. Whole(Rest)'
  <2> SUFFICES ASSUME NEW k \in 1 .. Len(Rest'), NEW j \in Ids, Rest'[k] = <<j, 1>>
               PROVE  /\ j <= Len(sent') /\ k + Size(j)' <= Len(Rest') + 1
                      /\ Rest'[k + 1] = <<j, 2>> /\ Rest'[k + 2] = NL
                      /\ sent'[j].style = "iplex" => Rest'[k + 3] = NL
                      /\ Begins(Rest, k + Size(j), j + 1)'
    BY DEF Whole
  <2>0. j \in Nat \ {0} /\ k \in Nat \ {0} /\ Len(Rest') = len + z
    BY <1>10, <1>13 DEF Ids
  <2>1. CASE k <= len
    <3>1. k \in 1 .. len /\ k \in 1 .. Len(Rest) /\ Rest[k] = <<j, 1>>
      BY <1>11, <1>13, <2>0, <2>1 DEF r
    <3>2. /\ j <= Len(sent) /\ k + Size(j) <= Len(Rest) + 1
          /\ Rest[k + 1] = <<j, 2>> /\ Rest[k + 2] = NL
          /\ sent[j].style = "iplex" => Rest[k + 3] = NL
          /\ Begins(Rest, k + Size(j), j + 1)
      BY <1>1, <3>1 DEF Whole
    <3>3. PICK y \in {3, 4} : y = Size(j) /\ (sent[j].style = "iplex" => y = 4)
      BY DEF Size
    <3>4. j \in 1 .. Len(sent) /\ Size(j)' = y /\ sent'[j] = sent[j]
      BY <1>5, <1>6, <1>15, <2>0, <3>2, <3>3
    <3>5. k + y <= len + 1
      BY <1>13, <3>2, <3>3 DEF r
    <3>6. k + 1 \in 1 .. len /\ k + 2 \in 1 .. len /\ (y = 4 => k + 3 \in 1 .. len)
      BY <2>0, <3>5
    <3>7. Rest'[k + 1] = Rest[k + 1] /\ Rest'[k + 2] = Rest[k + 2] /\ (y = 4 => Rest'[k + 3] = Rest[k + 3])
      BY <1>11, <1>13, <3>6
    <3>8. j <= Len(sent') /\ k + y <= Len(Rest') + 1
      <4>1. j <= Len(sent')
        BY <1>3, <1>5, <1>6, <2>0, <3>2
      <4>2. QED
        BY <1>7, <2>0, <3>5, <4>1
    <3>9. Begins(Rest, k + Size(j), j + 1)'
      <4>1. k + y \in 1 .. len + 1 /\ j + 1 \in Nat
        BY <2>0, <3>5
      <4>2. Begins(Rest, k + y, j + 1)'
        BY <1>14, <3>2, <3>3, <4>1
      <4>3. QED
        BY <3>4, <4>2 DEF Begins
    <3>10. QED
      BY <3>2, <3>3, <3>4, <3>7, <3>8, <3>9
  <2>2. CASE ~(k <= len)
    <3>1. k = len + 1
      <4>1. k - len \in 1 .. z /\ len + (k - len) = k
        BY <1>7, <2>0, <2>2
      <4>2. Rest'[k] = new[k - len]
        BY <1>10, <1>13, <2>2
      <4>3. k - len \in {1, 2, 3, 4}
        BY <1>7, <4>1
      <4>4. <<j, 1>> # <<i, 2>> /\ <<j, 1>> # NL
        BY <2>0 DEF NL
      <4>5. k - len # 2 /\ k - len # 3
        BY <1>8, <4>2, <4>4
      <4>6. k - len # 4
        <5>1. k - len = 4 => style = "iplex"
          BY <1>7, <4>1
        <5>2. QED
          BY <1>8, <4>2, <4>4, <5>1
      <4>7. QED
        BY <2>0, <4>3, <4>5, <4>6
    <3>2. <<j, 1>> = <<i, 1>>
      BY <1>12, <1>13, <3>1
    <3>3. j = i
      BY <3>2
    <3>4. k + z = Len(Rest') + 1 /\ z \in {3, 4}
      BY <1>7, <2>0, <3>1
    <3>5. Begins(Rest, k + Size(j), j + 1)'
      <4>1. Begins(Rest, k + z, i + 1)'
        BY <1>6, <3>4 DEF Begins
      <4>2. QED
        BY <1>16, <3>3, <4>1 DEF Begins
    <3>6. /\ Rest'[k + 1] = <<j, 2>> /\ Rest'[k + 2] = NL
          /\ sent'[j].style = "iplex" => Rest'[k + 3] = NL
      <4>1. k + 1 = len + 2 /\ k + 2 = len + 3 /\ k + 3 = len + 4
        BY <2>0, <3>1
      <4>2. QED
        BY <1>6, <1>12, <1>13, <3>3, <4>1
    <3>7. QED
      BY <1>6, <1>16, <2>0, <3>3, <3>4, <3>5, <3>6
  <2>3. QED
    BY <2>1, <2>2
<1>18. Ahead(n, lead)'
  <2>1. Begins(Rest, lead + 1, n) /\ n \in 1 .. Len(sent) + 1 /\ (lead = 1 => Rest # <<>> /\ Rest[1] = NL)
    BY <1>2 DEF Ahead
  <2>2. lead + 1 \in 1 .. len + 1 /\ (lead = 1 => 1 \in 1 .. len)
    <3>1. Rest # <<>> => Len(Rest) >= 1
      BY <1>5, EmptySeq
    <3>2. QED
      BY <1>13, <2>1, <3>1 DEF r
  <2>3. Begins(Rest, lead + 1, n)'
    BY <1>14, <2>1, <2>2
  <2>4. lead = 1 => Rest' # <<>> /\ Rest'[1] = NL
    <3>1. Len(Rest') # 0
      BY <1>7, <1>10, <1>13
    <3>2. QED
      BY <1>11, <1>13, <2>1, <2>2, <3>1
  <2>5. n \in 1 .. Len(sent') + 1
    BY <1>3, <1>5, <1>6, <2>1
  <2>6. QED
    BY <2>3, <2>4, <2>5 DEF Ahead
<1>19. Gathered(n, b, lead)'
  <2>1. \A k \in 1 .. Len(block) - 1 : sent'[b + k] = sent[b + k]
    <3>1. b + Len(block) < n /\ b \in Nat
      BY <1>2 DEF Gathered
    <3>2. \A k \in 1 .. Len(block) - 1 : b + k \in 1 .. Len(sent)
      BY <1>5, <3>1
    <3>3. QED
      BY <1>6, <3>2
  <2>2. vpc \in {"get", "read"} /\ block # <<>> => sent'[n - 1] = sent[n - 1]
    <3> SUFFICES ASSUME vpc \in {"get", "read"} /\ block # <<>> PROVE sent'[n - 1] = sent[n - 1]
      OBVIOUS
    <3>1. b + Len(block) = n - 1 /\ b \in Nat /\ Len(block) >= 1
      BY <1>1, <1>2, EmptySeq DEF Gathered, FlowTypes
    <3>2. n - 1 \in 1 .. Len(sent)
      BY <1>5, <3>1
    <3>3. QED
      BY <1>6, <3>2
  <2>3. QED
    BY <1>2, <1>4, <2>1, <2>2 DEF Gathered
<1>20. FlowTypes'
  <2>1. pipe' \in Seq(Tokens)
    BY <1>5, <1>8, ConcatProperties
  <2>2. Len(sent') <= MaxReqs
    BY <1>3, <1>4, <1>5, <1>6
  <2>3. QED
    BY <1>1, <1>4, <1>6, <2>1, <2>2 DEF FlowTypes
<1>21. \E x \in 1 .. Len(sent') + 1, y \in 0 .. Len(sent'), l \in {0, 1} :
         Ahead(x, l)' /\ Gathered(x, y, l)'
  <2>1. n \in 1 .. Len(sent') + 1 /\ b \in 0 .. Len(sent')
    BY <1>3, <1>5, <1>6
  <2>2. QED
    BY <1>18, <1>19, <2>1
<1>22. NL \notin ToSet(partial') /\ (vpc' = "read" => head' = <<>>)
  BY <1>4 DEF FlowInv
<1>23. QED
  BY <1>17, <1>20, <1>21, <1>22 DEF FlowInv

LEMMA TakeFlow ==
  ASSUME FlowInv, NEW i \in DOMAIN sent, TakeRequest(i)
  PROVE  FlowInv' /\ i > req
<1>1. FlowTypes /\ Whole(Rest) /\ NL \notin ToSet(partial)
  BY DEF FlowInv
<1>2. PICK n \in 1 .. Len(sent) + 1, b \in 0 .. Len(sent), lead \in {0, 1} :
        Ahead(n, lead) /\ Gathered(n, b, lead)
  BY DEF FlowInv
<1>3. /\ block = <<Chars(i)>> /\ vpc' = "dispatch" /\ req' = i /\ block' = <<>>
      /\ UNCHANGED <<sent, pipe, head, partial>>
  BY DEF TakeRequest, IsRequest, clientVars
<1>4. i \in 1 .. Len(sent) /\ Len(sent) \in Nat /\ req \in Nat
  BY <1>1, LenProperties DEF FlowTypes
<1>5. i = b + 1
  <2>1. Len(block) = 1 /\ block[1] = Chars(i)
    BY <1>3
  <2>2. Chars(i) = Chars(b + 1)
    BY <1>2, <2>1 DEF Gathered
  <2>3. Chars(i)[1][1] = i /\ Chars(b + 1)[1][1] = b + 1
    BY DEF Chars
  <2>4. QED
    BY <2>2, <2>3
<1>6. Rest' = Rest
  BY <1>3 DEF Rest
<1>7. i > req /\ i < n
  <2>1. req <= b /\ b \in Nat /\ b + Len(block) < n /\ Len(block) = 1
    BY <1>2, <1>3 DEF Gathered
  <2>2. QED
    BY <1>4, <1>5, <2>1
<1>8. Ahead(n, lead)' /\ Whole(Rest)'
  <2>1. Whole(Rest)'
    BY <1>1, <1>3, <1>6, WholeSame
  <2>2. Ahead(n, lead)'
    BY <1>2, <1>3, <1>6 DEF Ahead, Begins
  <2>3. QED
    BY <2>1, <2>2
<1>9. Gathered(n, i, lead)'
  <2>1. Len(block') = 0
    BY <1>3
  <2>2. i \in Nat /\ req' <= i /\ i + Len(block') < n
    BY <1>3, <1>4, <1>7, <2>1
  <2>3. QED
    BY <1>3, <2>1, <2>2 DEF Gathered
<1>10. FlowTypes'
  <2>1. <<>> \in Seq(Seq(Tokens)) /\ i \in Nat
    BY <1>4, EmptySeq
  <2>2. QED
    BY <1>1, <1>3, <2>1 DEF FlowTypes
<1>11. \E x \in 1 .. Len(sent') + 1, y \in 0 .. Len(sent'), l \in {0, 1} :
         Ahead(x, l)' /\ Gathered(x, y, l)'
  <2>1. i \in 0 .. Len(sent')
    BY <1>3, <1>4
  <2>2. QED
    BY <1>2, <1>3, <1>8, <1>9, <2>1
<1>12. QED
  BY <1>1, <1>3, <1>7, <1>8, <1>10, <1>11 DEF FlowInv

\* A block that is no request holds texts of which each but the last was at once followed
\* by the next, or one text that is no JSON.
LEMMA NoRequestFlow ==
  ASSUME FlowInv, NoRequest
  PROVE  /\ FlowInv'
         /\ \A i \in Mentioned(block) : i \in DOMAIN sent =>
              \/ Text(i).kind = "garbage"
              \/ i > 1 /\ sent[i - 1].style = "vreq"
              \/ i < Len(sent) /\ sent[i].style = "vreq"
<1>1. FlowTypes /\ Whole(Rest) /\ NL \notin ToSet(partial)
  BY DEF FlowInv
<1>2. PICK n \in 1 .. Len(sent) + 1, b \in 0 .. Len(sent), lead \in {0, 1} :
        Ahead(n, lead) /\ Gathered(n, b, lead)
  BY DEF FlowInv
<1>3. /\ vpc' = "asleep" /\ block' = <<>> /\ vpc = "parse"
      /\ UNCHANGED <<sent, pipe, head, partial, req>>
  BY DEF NoRequest, clientVars
<1>4. Len(sent) \in Nat /\ Len(block) \in Nat /\ DOMAIN block = 1 .. Len(block) /\ DOMAIN sent = 1 .. Len(sent)
      /\ b \in Nat /\ b + Len(block) < n
  BY <1>1, <1>2, LenProperties DEF FlowTypes, Gathered
<1>5. FlowInv'
  <2>1. Rest' = Rest
    BY <1>3 DEF Rest
  <2>2. Ahead(n, lead)' /\ Whole(Rest)'
    BY <1>1, <1>2, <1>3, <2>1 DEF Ahead, Whole, Begins, Size
  <2>3. Len(block') = 0
    BY <1>3
  <2>4. Gathered(n, b, lead)'
    <3>1. req' <= b /\ b + Len(block') < n
      BY <1>2, <1>3, <1>4, <2>3 DEF Gathered
    <3>2. QED
      BY <1>3, <1>4, <2>3, <3>1 DEF Gathered
  <2>5. FlowTypes'
    <3>1. <<>> \in Seq(Seq(Tokens))
      BY EmptySeq
    <3>2. QED
      BY <1>1, <1>3, <3>1 DEF FlowTypes
  <2>6. QED
    BY <1>1, <1>2, <1>3, <2>2, <2>4, <2>5 DEF FlowInv
<1>6. ASSUME NEW i \in Mentioned(block), i \in DOMAIN sent
      PROVE  \/ Text(i).kind = "garbage"
             \/ i > 1 /\ sent[i - 1].style = "vreq"
             \/ i < Len(sent) /\ sent[i].style = "vreq"
  <2>1. PICK k \in 1 .. Len(block) : \E t \in ToSet(block[k]) : t[1] = i
    BY <1>4 DEF Mentioned
  <2>2. block[k] = Chars(b + k)
    BY <1>2 DEF Gathered
  <2>3. i = b + k
    <3>1. ToSet(Chars(b + k)) = {<<b + k, 1>>, <<b + k, 2>>}
      BY DEF Chars, ToSet
    <3>2. QED
      BY <2>1, <2>2, <3>1
  <2>4. CASE k > 1
    <3>1. k - 1 \in 1 .. Len(block) - 1 /\ b + (k - 1) = i - 1 /\ i > 1
      BY <1>4, <2>3, <2>4
    <3>2. QED
      BY <1>2, <3>1 DEF Gathered
  <2>5. CASE k = 1 /\ Len(block) > 1
    <3>1. k \in 1 .. Len(block) - 1 /\ i < Len(sent)
      BY <1>4, <2>3, <2>5
    <3>2. QED
      BY <1>2, <2>3, <3>1 DEF Gathered
  <2>6. CASE k = 1 /\ Len(block) = 1
    <3>1. block \in Seq(Seq(Tokens)) /\ Chars(i) \in Seq(Tokens)
      BY <1>1, <2>1, <2>2, <2>3, ElementOfSeq DEF FlowTypes
    <3>2. block = <<Chars(i)>>
      <4>1. <<Chars(i)>> \in Seq(Seq(Tokens)) /\ Len(<<Chars(i)>>) = 1 /\ <<Chars(i)>>[1] = Chars(i)
        BY <3>1
      <4>2. \A j \in 1 .. Len(block) : block[j] = <<Chars(i)>>[j]
        BY <2>2, <2>3, <2>6
      <4>3. QED
        BY <2>6, <3>1, <4>1, <4>2, SeqEqual
    <3>3. ~IsRequest(block, i)
      BY <1>6 DEF NoRequest
    <3>4. QED
      BY <3>2, <3>3 DEF IsRequest
  <2>7. QED
    BY <1>4, <2>1, <2>4, <2>5, <2>6
<1>7. QED
  BY <1>5, <1>6

\* Steps that do not read requests.
LEMMA FlowSame ==
  ASSUME FlowInv, UNCHANGED <<sent, pipe, head, partial, block, req>>,
         vpc' = vpc \/ (vpc \in {"asleep", "dispatch", "respond", "write"} /\
                        vpc' \in {"get", "dispatch", "respond", "write"})
  PROVE  FlowInv'
<1>1. FlowTypes /\ Whole(Rest) /\ NL \notin ToSet(partial) /\ (vpc = "read" => head = <<>>)
  BY DEF FlowInv
<1>2. PICK n \in 1 .. Len(sent) + 1, b \in 0 .. Len(sent), lead \in {0, 1} :
        Ahead(n, lead) /\ Gathered(n, b, lead)
  BY DEF FlowInv
<1>3. Rest' = Rest
  BY DEF Rest
<1>4. Ahead(n, lead)' /\ Whole(Rest)'
  <2>1. Whole(Rest)'
    BY <1>1, <1>3, WholeSame
  <2>2. Ahead(n, lead)'
    BY <1>2, <1>3 DEF Ahead, Begins
  <2>3. QED
    BY <2>1, <2>2
<1>5. Gathered(n, b, lead)'
  BY <1>2 DEF Gathered
<1>6. FlowTypes'
  BY <1>1 DEF FlowTypes
<1>7. QED
  BY <1>1, <1>2, <1>4, <1>5, <1>6 DEF FlowInv

LEMMA FlowInitially == ReqInit => FlowInv
<1> SUFFICES ASSUME ReqInit PROVE FlowInv
  OBVIOUS
<1>1. /\ sent = <<>> /\ pipe = <<>> /\ head = <<>> /\ partial = <<>> /\ block = <<>>
      /\ vpc = "asleep" /\ req = 0
  BY DEF ReqInit
<1>2. /\ <<>> \in Seq(SentRecords) /\ <<>> \in Seq(Tokens) /\ <<>> \in Seq(Seq(Tokens))
      /\ Len(<<>>) = 0 /\ DOMAIN <<>> = {}
  BY EmptySeq
<1>3. FlowTypes
  BY <1>1, <1>2, ReqAssumption DEF FlowTypes, ReqAssumption
<1>4. Rest = <<>> /\ Len(Rest) = 0
  BY <1>1, <1>2, ConcatEmptySeq DEF Rest
<1>5. Whole(Rest)
  BY <1>4 DEF Whole
<1>6. Ahead(1, 0) /\ Gathered(1, 0, 0)
  BY <1>1, <1>2, <1>4 DEF Ahead, Begins, Gathered
<1>7. NL \notin ToSet(partial) /\ vpc # "read"
  BY <1>1, <1>2 DEF ToSet
<1>8. 1 \in 1 .. Len(sent) + 1 /\ 0 \in 0 .. Len(sent)
  BY <1>1, <1>2
<1>9. QED
  BY <1>3, <1>5, <1>6, <1>7, <1>8 DEF FlowInv

LEMMA FlowStep ==
  ASSUME FlowInv, [ReqNext]_reqVars
  PROVE  FlowInv'
<1> USE DEF clientVars, pipeVars
<1>1. CASE UNCHANGED reqVars
  BY <1>1, FlowSame DEF reqVars
<1>2. CASE Client
  <2>1. CASE \E t \in Texts, style \in {"iplex", "vreq"} : Send(t, style)
    BY <2>1, SendFlow
  <2>2. CASE \E i \in Ids : OpenAfterSend(i) \/ ReadAnswer(i) \/ Quit(i)
    BY <2>2, FlowSame DEF OpenAfterSend, ReadAnswer, Quit
  <2>3. QED
    BY <1>2, <2>1, <2>2 DEF Client
<1>3. CASE KeepPartial \/ GetLine \/ ReadPipe \/ NoRequest
  BY <1>3, KeepStep, GetStep, ReadStep, NoRequestFlow
<1>4. CASE \E i \in DOMAIN sent : TakeRequest(i)
  BY <1>4, TakeFlow
<1>5. CASE Wake \/ Ignore \/ OpenFails \/ Finish
  BY <1>5, FlowSame DEF Wake, Ignore, OpenFails, Finish, Unanswered
<1>6. CASE \E o \in {Ok(1), Ok(2), Error} : Perform(o)
  BY <1>6, FlowSame DEF Perform
<1>7. CASE OpenResponse \/ WriteAll \/ WriteAgain \/ WriteGivesUp
  BY <1>7, FlowSame DEF OpenResponse, WriteAll, WriteAgain, WriteGivesUp, Writing
<1>8. QED
  BY <1>1, <1>2, <1>3, <1>4, <1>5, <1>6, <1>7 DEF ReqNext, Vfd

(***************************************************************************)
(* Requests are lost to a neighbour only.                                  *)
(***************************************************************************)

Fates     == {"none", "sent", "dropped", "unanswered", "answered"}
LostStill == LostToNeighbour /\ fate \in [Ids -> Fates]

LEMMA LostStep ==
  ASSUME FlowInv, LostStill, [ReqNext]_reqVars
  PROVE  LostStill'
<1> DEFINE near(i) == \/ Text(i).kind = "garbage"
                      \/ i > 1 /\ sent[i - 1].style = "vreq"
                      \/ i < Len(sent) /\ sent[i].style = "vreq"
<1>1. /\ sent \in Seq(SentRecords) /\ Len(sent) \in Nat /\ DOMAIN sent = 1 .. Len(sent)
      /\ DOMAIN sent \subseteq Ids
  BY LenProperties, ReqAssumption DEF FlowInv, FlowTypes, Ids, ReqAssumption
<1>2. \A i \in DOMAIN sent : fate[i] = "dropped" => near(i)
  BY DEF LostStill, LostToNeighbour
<1>3. ASSUME UNCHANGED sent, fate' \in [Ids -> Fates],
             \A i \in DOMAIN sent : fate'[i] = "dropped" => fate[i] = "dropped" \/ near(i)
      PROVE  LostStill'
  BY <1>2, <1>3 DEF LostStill, LostToNeighbour, Text
<1>4. ASSUME UNCHANGED <<sent, fate>> PROVE LostStill'
  BY <1>3, <1>4 DEF LostStill
<1>5. ASSUME NEW i \in Nat, NEW s \in {"unanswered", "answered"},
             UNCHANGED sent, fate' = [fate EXCEPT ![i] = s]
      PROVE  LostStill'
  <2>1. fate' \in [Ids -> Fates]
    BY <1>5 DEF LostStill, Fates
  <2>2. \A j \in DOMAIN sent : fate'[j] = "dropped" => fate[j] = "dropped"
    BY <1>1, <1>5 DEF LostStill
  <2>3. QED
    BY <1>3, <1>5, <2>1, <2>2
<1>6. ASSUME NEW S, UNCHANGED sent, fate' = Dropped(S), \A i \in S : i \in DOMAIN sent => near(i)
      PROVE  LostStill'
  <2>1. fate' \in [Ids -> Fates]
    BY <1>6 DEF Dropped, LostStill, Fates
  <2>2. \A j \in DOMAIN sent : fate'[j] = "dropped" => fate[j] = "dropped" \/ j \in S
    BY <1>1, <1>6 DEF Dropped
  <2>3. QED
    BY <1>3, <1>6, <2>1, <2>2
<1> HIDE DEF near
<1>7. req \in Nat
  BY DEF FlowInv, FlowTypes
<1> USE DEF clientVars, pipeVars
<1>8. CASE UNCHANGED reqVars
  BY <1>4, <1>8 DEF reqVars
<1>9. CASE \E t \in Texts, style \in {"iplex", "vreq"} : Send(t, style)
  <2>1. PICK t \in Texts, style \in {"iplex", "vreq"} : Send(t, style)
    BY <1>9
  <2> DEFINE n == Len(sent) + 1
  <2>2. /\ sent' = Append(sent, [text |-> t, style |-> style])
        /\ fate' = [fate EXCEPT ![n] = "sent"]
    BY <2>1 DEF Send
  <2>3. /\ Len(sent') = n /\ DOMAIN sent' = 1 .. n
        /\ \A i \in 1 .. Len(sent) : sent'[i] = sent[i]
    <3>1. [text |-> t, style |-> style] \in SentRecords
      BY DEF SentRecords
    <3>2. sent' \in Seq(SentRecords)
      BY <1>1, <2>2, <3>1, AppendProperties
    <3>3. QED
      BY <1>1, <2>2, <3>1, <3>2, AppendProperties, LenProperties
  <2>4. fate' \in [Ids -> Fates]
    BY <2>2 DEF LostStill, Fates
  <2>5. ASSUME NEW i \in 1 .. n, fate'[i] = "dropped"
        PROVE  near(i)'
    <3>1. i # n /\ fate[i] = "dropped"
      <4>1. n \in Ids
        BY <1>1, <2>1, ReqAssumption DEF Send, Ids, ReqAssumption
      <4>2. QED
        BY <1>1, <2>2, <2>5, <4>1 DEF LostStill
    <3>2. i \in 1 .. Len(sent) /\ near(i)
      BY <1>1, <1>2, <3>1 DEF near
    <3>3. sent'[i] = sent[i] /\ (i > 1 => sent'[i - 1] = sent[i - 1]) /\ Len(sent') > Len(sent)
      BY <1>1, <2>3, <3>2
    <3>4. QED
      BY <1>1, <2>3, <3>2, <3>3 DEF near, Text
  <2>6. QED
    BY <2>3, <2>4, <2>5 DEF LostStill, LostToNeighbour, near
<1>10. CASE \E i \in Ids : OpenAfterSend(i) \/ ReadAnswer(i) \/ Quit(i)
  BY <1>4, <1>10 DEF OpenAfterSend, ReadAnswer, Quit
<1>11. CASE Wake \/ KeepPartial \/ ReadPipe \/ OpenResponse \/ WriteAll \/ WriteAgain \/ WriteGivesUp
  BY <1>4, <1>11 DEF Wake, KeepPartial, ReadPipe, OpenResponse, WriteAll, WriteAgain, WriteGivesUp
<1>12. CASE GetLine
  <2>1. UNCHANGED sent /\ fate' = IF RoomForLine THEN fate ELSE Dropped(Mentioned(<<Line>>))
    BY <1>12, GetLineParts
  <2>2. CASE RoomForLine
    BY <1>4, <2>1, <2>2
  <2>3. CASE ~RoomForLine
    <3>1. \A i \in Mentioned(<<Line>>) : near(i)
      BY <1>12, <2>3, GetStep DEF near
    <3>2. QED
      BY <1>6, <2>1, <2>3, <3>1
  <2>4. QED
    BY <2>2, <2>3
<1>13. CASE NoRequest
  <2>1. UNCHANGED sent /\ fate' = Dropped(Mentioned(block))
    BY <1>13 DEF NoRequest
  <2>2. \A i \in Mentioned(block) : i \in DOMAIN sent => near(i)
    BY <1>13, NoRequestFlow DEF near
  <2>3. QED
    BY <1>6, <2>1, <2>2
<1>14. CASE \E i \in DOMAIN sent : TakeRequest(i)
  BY <1>4, <1>14 DEF TakeRequest
<1>15. CASE Ignore \/ OpenFails
  BY <1>5, <1>7, <1>15 DEF Ignore, OpenFails, Unanswered
<1>16. CASE \E o \in {Ok(1), Ok(2), Error} : Perform(o)
  BY <1>4, <1>16 DEF Perform
<1>17. CASE Finish
  BY <1>5, <1>7, <1>17 DEF Finish
<1>18. QED
  BY <1>8, <1>9, <1>10, <1>11, <1>12, <1>13, <1>14, <1>15, <1>16, <1>17 DEF ReqNext, Vfd, Client

\* However the buffers of ng_flowmgr.c split what is in the pipe, and whatever was left in
\* them, a request is made of its own text or is lost to one that was sent next to it.
THEOREM LostOnlyToNeighbour == ReqSpec => []LostToNeighbour
<1>1. ReqInit => LostStill
  BY DEF ReqInit, LostStill, LostToNeighbour, Fates
<1>2. LostStill => LostToNeighbour
  BY DEF LostStill
<1>3. QED
  BY <1>1, <1>2, FlowInitially, FlowStep, LostStep, PTL DEF ReqSpec

(***************************************************************************)
(* Answers are whole.                                                      *)
(***************************************************************************)

AnswerParts == [part : {"header", "line", "eom"}, of : Nat, rc : {"OK", "ERROR"}]
AllOutcomes == {Ok(1), Ok(2), Error}
Busy        == vpc \in {"dispatch", "respond", "write"}

AnswerTypes ==
  /\ got \in [Ids -> Seq(AnswerParts)] /\ rp \in [Ids -> Seq(AnswerParts)]
  /\ out \in Seq(AnswerParts) /\ slow \subseteq Ids
  /\ reader \in [Ids -> {"none", "open", "left"}] /\ fate \in [Ids -> Fates]

\* What a client has got, what waits in its pipe and what is still to be written.
SoFar(i) == got[i] \o (rp[i] \o out)

\* Nothing is answered before it is taken, and what the client of the request in work has
\* and will get is an answer to it, unless it left or was slow.
AnswersFit ==
  /\ \A i \in Ids : i > req => got[i] = <<>> /\ rp[i] = <<>> /\ i \notin slow
  /\ \A i \in Ids : fate[i] = "answered" =>
       (i < req \/ (i = req /\ ~Busy)) /\ reader[i] # "none"
  /\ vpc = "dispatch" => got[req] = <<>> /\ rp[req] = <<>> /\ req \notin slow
  /\ vpc \in {"respond", "write"} /\ reader[req] # "left" /\ req \notin slow =>
       \E o \in Outcomes(Text(req)) : SoFar(req) = Answer(req, o)
  /\ vpc = "write" => reader[req] # "none"
  /\ AnswerIsWhole

AnswerInv == LevelInv /\ FlowInv /\ AnswerTypes /\ AnswersFit

LEMMA AnswerTyped ==
  ASSUME NEW i \in Nat, NEW o \in AllOutcomes
  PROVE  Answer(i, o) \in Seq(AnswerParts)
<1>1. o.rc \in {"OK", "ERROR"} /\ o.lines \in {1, 2}
  BY DEF AllOutcomes, Ok, Error
<1> DEFINE h == [part |-> "header", of |-> i, rc |-> o.rc]
           l == [part |-> "line", of |-> i, rc |-> o.rc]
           e == [part |-> "eom", of |-> i, rc |-> o.rc]
           ls == [k \in 1 .. o.lines |-> l]
<1>2. h \in AnswerParts /\ l \in AnswerParts /\ e \in AnswerParts
  BY <1>1 DEF AnswerParts
<1> HIDE DEF h, l, e
<1>3. ls \in Seq(AnswerParts) /\ <<h>> \in Seq(AnswerParts) /\ <<e>> \in Seq(AnswerParts)
  BY <1>1, <1>2
<1> HIDE DEF ls
<1>4. <<h>> \o ls \in Seq(AnswerParts)
  BY <1>3, ConcatProperties
<1>5. (<<h>> \o ls) \o <<e>> \in Seq(AnswerParts)
  BY <1>3, <1>4, ConcatProperties
<1>6. QED
  BY <1>5 DEF Answer, h, l, e, ls

\* What a request is answered depends on its text and on parms->forreal only.
LEMMA OutcomesStay ==
  ASSUME UNCHANGED forreal, NEW i \in Nat, Text(i)' = Text(i)
  PROVE  Outcomes(Text(i))' = Outcomes(Text(i))
<1>1. PICK t : t = Text(i)
  OBVIOUS
<1>2. Outcomes(t)' = Outcomes(t)
  BY DEF Outcomes, MirrorOutcomes, ShowOutcomes, ChangeOutcomes, AlarmOutcomes, VerboseOutcomes
<1>3. QED
  BY <1>1, <1>2

LEMMA EmptyParts ==
  /\ <<>> \in Seq(AnswerParts)
  /\ \A s \in Seq(AnswerParts) : s \o <<>> = s /\ <<>> \o s = s
BY EmptySeq, ConcatEmptySeq

LEMMA JoinedParts == \A s, t, u \in Seq(AnswerParts) : (s \o t) \o u = s \o (t \o u)
BY ConcatAssociative

\* The request in work was sent, and what was sent keeps its text.
LEMMA InWork ==
  ASSUME AnswerInv
  PROVE  /\ Busy => req \in DOMAIN sent /\ req \in Ids /\ req \in Nat
         /\ DOMAIN sent = 1 .. Len(sent) /\ DOMAIN sent \subseteq Ids /\ req \in Nat
         /\ Len(sent) \in Nat
<1>1. /\ sent \in Seq(SentRecords) /\ Len(sent) \in Nat /\ DOMAIN sent = 1 .. Len(sent)
      /\ DOMAIN sent \subseteq Ids /\ req \in Nat
  BY LenProperties, ReqAssumption DEF AnswerInv, FlowInv, FlowTypes, Ids, ReqAssumption
<1>2. Busy => req \in 1 .. Len(sent)
  BY DEF AnswerInv, LevelInv, LevelTypes, Busy, LevelPlaces
<1>3. QED
  BY <1>1, <1>2

\* Steps that leave the answers, the request in work and what was sent alone.
LEMMA AnswerSame ==
  ASSUME AnswerInv, LevelInv', FlowInv',
         UNCHANGED <<forreal, sent, reader, got, rp, slow, req>>, out' \in Seq(AnswerParts),
         fate' \in [Ids -> Fates],
         \A i \in Ids : fate'[i] = "answered" => fate[i] = "answered",
         (vpc' = vpc /\ UNCHANGED out) \/ vpc' \notin {"dispatch", "respond", "write"}
  PROVE  AnswerInv'
<1> USE DEF AnswerInv
<1>1. AnswerTypes'
  BY DEF AnswerTypes
<1>2. \A i \in Nat : Text(i)' = Text(i) /\ Outcomes(Text(i))' = Outcomes(Text(i))
  <2>1. \A i \in Nat : Text(i)' = Text(i)
    BY DEF Text
  <2>2. QED
    BY <2>1, OutcomesStay
<1>4. DOMAIN sent \subseteq Ids /\ req \in Nat /\ \A i \in Ids : i \in Nat
  BY InWork DEF Ids
<1>5. AnswerIsWhole'
  <2> SUFFICES ASSUME NEW i \in DOMAIN sent, fate'[i] = "answered", reader[i] = "open", i \notin slow
               PROVE  \E o \in Outcomes(Text(i))' : got[i] \o rp[i] = Answer(i, o)
    BY DEF AnswerIsWhole
  <2>1. \E o \in Outcomes(Text(i)) : got[i] \o rp[i] = Answer(i, o)
    BY <1>4 DEF AnswersFit, AnswerIsWhole
  <2>2. QED
    BY <1>2, <1>4, <2>1
<1>6. CASE vpc' = vpc /\ UNCHANGED out
  <2>1. SoFar(req)' = SoFar(req)
    BY <1>6 DEF SoFar
  <2>2. Outcomes(Text(req))' = Outcomes(Text(req)) /\ Text(req)' = Text(req)
    BY <1>2, <1>4
  <2>3. vpc \in {"respond", "write"} /\ reader[req] # "left" /\ req \notin slow =>
          \E o \in Outcomes(Text(req))' : SoFar(req)' = Answer(req', o)
    BY <2>1, <2>2 DEF AnswersFit
  <2>4. QED
    BY <1>1, <1>5, <1>6, <2>3 DEF AnswersFit, Busy
<1>7. CASE vpc' \notin {"dispatch", "respond", "write"}
  BY <1>1, <1>4, <1>5, <1>7 DEF AnswersFit, Busy
<1>8. QED
  BY <1>6, <1>7

\* The clients.
LEMMA SendAnswers ==
  ASSUME AnswerInv, LevelInv', FlowInv', NEW t \in Texts, NEW style \in {"iplex", "vreq"},
         Send(t, style)
  PROVE  AnswerInv'
<1> USE DEF AnswerInv
<1>1. PICK n \in Nat : n = Len(sent) + 1
  BY InWork
<1>2. /\ sent' = Append(sent, [text |-> t, style |-> style])
      /\ reader' = IF style = "vreq" THEN [reader EXCEPT ![n] = "open"] ELSE reader
      /\ fate' = [fate EXCEPT ![n] = "sent"]
      /\ UNCHANGED <<forreal, got, rp, slow, req, out, vpc>>
  BY <1>1 DEF Send, ansVars
<1>3. /\ DOMAIN sent = 1 .. Len(sent) /\ DOMAIN sent \subseteq Ids /\ req \in Nat /\ Len(sent) \in Nat
      /\ Busy => req \in DOMAIN sent
  BY InWork
<1>4. DOMAIN sent' = 1 .. n /\ \A i \in DOMAIN sent : sent'[i] = sent[i]
  <2>1. [text |-> t, style |-> style] \in SentRecords /\ sent \in Seq(SentRecords)
    BY DEF SentRecords, FlowInv, FlowTypes
  <2>2. sent' \in Seq(SentRecords)
    BY <1>2, <2>1, AppendProperties
  <2>3. QED
    BY <1>1, <1>2, <1>3, <2>1, <2>2, AppendProperties, LenProperties
<1>5. AnswerTypes'
  BY <1>2 DEF AnswerTypes, Fates
<1>6. /\ \A i \in Ids : fate'[i] = "answered" => i # n /\ fate[i] = "answered"
      /\ \A i \in Ids : i # n => reader'[i] = reader[i]
  BY <1>2 DEF AnswerTypes, Fates
<1>7. \A i \in DOMAIN sent : Text(i)' = Text(i) /\ Outcomes(Text(i))' = Outcomes(Text(i))
  <2>1. \A i \in DOMAIN sent : Text(i)' = Text(i) /\ i \in Nat
    BY <1>3, <1>4 DEF Text
  <2>2. QED
    BY <1>2, <2>1, OutcomesStay
<1>8. AnswerIsWhole'
  <2> SUFFICES ASSUME NEW i \in 1 .. n, fate'[i] = "answered", reader'[i] = "open", i \notin slow
               PROVE  \E o \in Outcomes(Text(i))' : got[i] \o rp[i] = Answer(i, o)
    BY <1>2, <1>4 DEF AnswerIsWhole
  <2>1. n \in Ids
    BY <1>1, <1>3, ReqAssumption DEF Send, Ids, ReqAssumption
  <2>2. i \in Ids
    BY <1>1, <2>1, ReqAssumption DEF Ids, ReqAssumption
  <2>3. i \in DOMAIN sent /\ fate[i] = "answered" /\ reader[i] = "open"
    BY <1>1, <1>3, <1>6, <2>2
  <2>4. \E o \in Outcomes(Text(i)) : got[i] \o rp[i] = Answer(i, o)
    BY <2>3 DEF AnswersFit, AnswerIsWhole
  <2>5. QED
    BY <1>7, <2>3, <2>4
<1>9. \A i \in Ids : fate'[i] = "answered" =>
        (i < req' \/ (i = req' /\ ~Busy')) /\ reader'[i] # "none"
  BY <1>2, <1>6 DEF AnswersFit, Busy
<1>10. Busy => req # n /\ req \in Ids /\ reader'[req] = reader[req]
  BY <1>1, <1>3, <1>6
<1>11. vpc \in {"respond", "write"} /\ reader'[req] # "left" /\ req \notin slow =>
         \E o \in Outcomes(Text(req))' : SoFar(req)' = Answer(req', o)
  <2> SUFFICES ASSUME vpc \in {"respond", "write"}, reader'[req] # "left", req \notin slow
               PROVE  \E o \in Outcomes(Text(req))' : SoFar(req)' = Answer(req', o)
    OBVIOUS
  <2>1. Busy /\ req \in DOMAIN sent /\ reader[req] # "left"
    BY <1>3, <1>10 DEF Busy
  <2>2. SoFar(req)' = SoFar(req) /\ Outcomes(Text(req))' = Outcomes(Text(req))
    <3>1. Text(req)' = Text(req)
      BY <1>2, <1>7, <2>1 DEF Text
    <3>2. QED
      BY <1>2, <1>3, <3>1, OutcomesStay DEF SoFar
  <2>3. \E o \in Outcomes(Text(req)) : SoFar(req) = Answer(req, o)
    BY <2>1 DEF AnswersFit
  <2>4. QED
    BY <1>2, <2>2, <2>3
<1>12. AnswersFit'
  BY <1>2, <1>8, <1>9, <1>10, <1>11 DEF AnswersFit, Busy
<1>13. QED
  BY <1>5, <1>12

LEMMA ClientAnswers ==
  ASSUME AnswerInv, LevelInv', FlowInv', NEW i \in Ids,
         OpenAfterSend(i) \/ ReadAnswer(i) \/ Quit(i)
  PROVE  AnswerInv'
<1> USE DEF AnswerInv
<1>1. UNCHANGED <<forreal, sent, slow, req, out, vpc, fate>>
  BY DEF OpenAfterSend, ReadAnswer, Quit, clientVars, ansVars
<1>2. /\ DOMAIN sent \subseteq Ids /\ req \in Nat /\ (Busy => req \in DOMAIN sent /\ req \in Ids)
      /\ Ids \subseteq Nat
  BY InWork DEF Ids
<1>3. \A j \in Nat : Text(j)' = Text(j) /\ Outcomes(Text(j))' = Outcomes(Text(j))
  <2>1. \A j \in Nat : Text(j)' = Text(j)
    BY <1>1 DEF Text
  <2>2. QED
    BY <1>1, <2>1, OutcomesStay
<1>4. Text(req)' = Text(req) /\ Outcomes(Text(req))' = Outcomes(Text(req))
  BY <1>1, <1>2, OutcomesStay DEF Text
<1>5. \A j \in Ids : got[j] \in Seq(AnswerParts) /\ rp[j] \in Seq(AnswerParts)
  BY DEF AnswerTypes
\* What a client does to its pipe: it keeps what it has got and what it will get, or leaves.
<1>6. ASSUME AnswerTypes',
             \A j \in Ids : reader'[j] = reader[j] \/ reader'[j] = "left" \/
                            (reader[j] = "none" /\ reader'[j] = "open"),
             \A j \in Ids : reader'[j] # "left" => got'[j] \o rp'[j] = got[j] \o rp[j],
             \A j \in Ids : got[j] = <<>> /\ rp[j] = <<>> => got'[j] = <<>> /\ rp'[j] = <<>>
      PROVE  AnswerInv'
  <2>1. AnswerIsWhole'
    <3> SUFFICES ASSUME NEW j \in DOMAIN sent, fate[j] = "answered", reader'[j] = "open", j \notin slow
                 PROVE  \E o \in Outcomes(Text(j))' : got'[j] \o rp'[j] = Answer(j, o)
      BY <1>1 DEF AnswerIsWhole
    <3>1. j \in Ids /\ j \in Nat /\ reader[j] # "none"
      BY <1>2 DEF AnswersFit
    <3>2. reader[j] = "open" /\ got'[j] \o rp'[j] = got[j] \o rp[j]
      BY <1>6, <3>1
    <3>3. \E o \in Outcomes(Text(j)) : got[j] \o rp[j] = Answer(j, o)
      BY <3>2 DEF AnswersFit, AnswerIsWhole
    <3>4. QED
      BY <1>3, <3>1, <3>2, <3>3
  <2>2. vpc \in {"respond", "write"} /\ reader'[req] # "left" /\ req \notin slow =>
          \E o \in Outcomes(Text(req))' : SoFar(req)' = Answer(req', o)
    <3> SUFFICES ASSUME vpc \in {"respond", "write"}, reader'[req] # "left", req \notin slow
                 PROVE  \E o \in Outcomes(Text(req))' : SoFar(req)' = Answer(req', o)
      OBVIOUS
    <3>1. req \in Ids
      BY <1>2 DEF Busy
    <3>2. reader[req] # "left" /\ got'[req] \o rp'[req] = got[req] \o rp[req]
      <4>1. got'[req] \o rp'[req] = got[req] \o rp[req]
        BY <1>6, <3>1
      <4>2. CASE reader[req] = "left"
        BY <1>6, <3>1, <4>2
      <4>3. QED
        BY <4>1, <4>2
    <3>3. \E o \in Outcomes(Text(req)) : SoFar(req) = Answer(req, o)
      BY <3>2 DEF AnswersFit
    <3>4. SoFar(req)' = SoFar(req)
      <4>1. SoFar(req)' = got'[req] \o (rp'[req] \o out)
        BY <1>1 DEF SoFar
      <4>2. /\ got'[req] \in Seq(AnswerParts) /\ rp'[req] \in Seq(AnswerParts)
            /\ got[req] \in Seq(AnswerParts) /\ rp[req] \in Seq(AnswerParts) /\ out \in Seq(AnswerParts)
        BY <1>6, <3>1 DEF AnswerTypes
      <4> DEFINE g == got'[req]
                 h == got[req]
                 p == rp'[req]
                 q == rp[req]
      <4>3. g \o (p \o out) = (g \o p) \o out
        <5>1. g \in Seq(AnswerParts) /\ p \in Seq(AnswerParts) /\ out \in Seq(AnswerParts)
          BY <4>2
        <5> HIDE DEF g, p
        <5>2. QED
          BY <5>1, JoinedParts
      <4>4. h \o (q \o out) = (h \o q) \o out
        <5>1. h \in Seq(AnswerParts) /\ q \in Seq(AnswerParts) /\ out \in Seq(AnswerParts)
          BY <4>2
        <5> HIDE DEF h, q
        <5>2. QED
          BY <5>1, JoinedParts
      <4>5. QED
        BY <3>2, <4>1, <4>3, <4>4 DEF SoFar
    <3>5. QED
      BY <1>1, <1>4, <3>3, <3>4
  <2>3. \A j \in Ids : fate'[j] = "answered" =>
          (j < req' \/ (j = req' /\ ~Busy')) /\ reader'[j] # "none"
    <3>1. \A j \in Ids : reader[j] # "none" => reader'[j] # "none"
      BY <1>6
    <3>2. QED
      BY <1>1, <3>1 DEF AnswersFit, Busy
  <2>4. /\ \A j \in Ids : j > req' => got'[j] = <<>> /\ rp'[j] = <<>> /\ j \notin slow'
        /\ vpc' = "dispatch" => got'[req'] = <<>> /\ rp'[req'] = <<>> /\ req' \notin slow'
        /\ vpc' = "write" => reader'[req'] # "none"
    BY <1>1, <1>2, <1>6 DEF AnswersFit, Busy
  <2>5. AnswersFit'
    BY <1>1, <2>1, <2>2, <2>3, <2>4 DEF AnswersFit
  <2>6. QED
    BY <1>6, <2>5
<1>7. CASE OpenAfterSend(i)
  <2>1. reader[i] = "none" /\ reader' = [reader EXCEPT ![i] = "open"] /\ UNCHANGED <<got, rp>>
    BY <1>7 DEF OpenAfterSend, ansVars
  <2>2. AnswerTypes'
    BY <1>1, <2>1 DEF AnswerTypes
  <2>3. \A j \in Ids : reader'[j] = reader[j] \/ (reader[j] = "none" /\ reader'[j] = "open")
    BY <2>1 DEF AnswerTypes
  <2>4. QED
    BY <1>6, <2>1, <2>2, <2>3
<1>8. CASE ReadAnswer(i)
  <2>1. /\ rp[i] # <<>> /\ got' = [got EXCEPT ![i] = got[i] \o rp[i]] /\ rp' = [rp EXCEPT ![i] = <<>>]
        /\ UNCHANGED reader
    BY <1>8 DEF ReadAnswer, clientVars
  <2>2. got[i] \o rp[i] \in Seq(AnswerParts) /\ (got[i] \o rp[i]) \o <<>> = got[i] \o rp[i]
    BY <1>5, ConcatProperties, EmptyParts
  <2>3. AnswerTypes'
    BY <1>1, <2>1, <2>2, EmptyParts DEF AnswerTypes
  <2>4. /\ got'[i] = got[i] \o rp[i] /\ rp'[i] = <<>>
        /\ \A j \in Ids : j # i => got'[j] = got[j] /\ rp'[j] = rp[j]
    BY <2>1 DEF AnswerTypes
  <2>5. \A j \in Ids : got'[j] \o rp'[j] = got[j] \o rp[j]
    BY <2>2, <2>4
  <2>6. \A j \in Ids : got[j] = <<>> /\ rp[j] = <<>> => got'[j] = <<>> /\ rp'[j] = <<>>
    BY <2>1, <2>4
  <2>7. QED
    BY <1>6, <2>1, <2>3, <2>5, <2>6
<1>9. CASE Quit(i)
  <2>1. /\ reader' = [reader EXCEPT ![i] = "left"] /\ rp' = [rp EXCEPT ![i] = <<>>] /\ UNCHANGED got
    BY <1>9 DEF Quit
  <2>2. AnswerTypes'
    BY <1>1, <2>1, EmptyParts DEF AnswerTypes
  <2>3. /\ reader'[i] = "left" /\ rp'[i] = <<>>
        /\ \A j \in Ids : j # i => reader'[j] = reader[j] /\ rp'[j] = rp[j]
    BY <2>1 DEF AnswerTypes
  <2>4. QED
    BY <1>6, <2>1, <2>2, <2>3
<1>10. QED
  BY <1>7, <1>8, <1>9

LEMMA HeadThenTail ==
  ASSUME NEW s \in Seq(AnswerParts), s # <<>>
  PROVE  <<Head(s)>> \o Tail(s) = s
<1>1. Len(s) \in Nat \ {0}
  BY EmptySeq
<1>2. /\ Head(s) \in AnswerParts /\ Tail(s) \in Seq(AnswerParts) /\ Len(Tail(s)) = Len(s) - 1
      /\ \A i \in 1 .. Len(Tail(s)) : Tail(s)[i] = s[i + 1]
  BY HeadTailProperties
<1> DEFINE h == <<Head(s)>>
<1>3. h \in Seq(AnswerParts) /\ Len(h) = 1 /\ h[1] = s[1]
  BY <1>1, <1>2
<1> HIDE DEF h
<1> DEFINE u == Tail(s)
<1>4. u \in Seq(AnswerParts) /\ Len(u) = Len(s) - 1 /\ \A i \in 1 .. Len(s) - 1 : u[i] = s[i + 1]
  BY <1>2
<1> HIDE DEF u
<1>5. /\ h \o u \in Seq(AnswerParts) /\ Len(h \o u) = Len(h) + Len(u)
      /\ \A i \in 1 .. Len(h) + Len(u) : (h \o u)[i] = IF i <= Len(h) THEN h[i] ELSE u[i - Len(h)]
  <2>1. h \in Seq(AnswerParts) /\ u \in Seq(AnswerParts)
    BY <1>3, <1>4
  <2>2. QED
    BY <2>1, ConcatProperties
<1>6. Len(h \o u) = Len(s)
  BY <1>1, <1>3, <1>4, <1>5
<1>7. ASSUME NEW i \in 1 .. Len(s) PROVE (h \o u)[i] = s[i]
  <2>1. CASE i = 1
    BY <1>1, <1>3, <1>4, <1>5, <2>1
  <2>2. CASE i # 1
    <3>1. /\ i \in 1 .. Len(h) + Len(u) /\ ~(i <= Len(h)) /\ i - Len(h) = i - 1
          /\ i - 1 \in 1 .. Len(s) - 1 /\ (i - 1) + 1 = i
      BY <1>1, <1>3, <1>4, <2>2
    <3>2. QED
      BY <1>4, <1>5, <3>1
  <2>3. QED
    BY <2>1, <2>2
<1>8. h \o u = s
  BY <1>5, <1>6, <1>7, SeqEqual
<1>9. QED
  BY <1>8 DEF h, u

\* The steps of vfd_req_if and vfd_response.
LEMMA WorkAnswers ==
  ASSUME AnswerInv, LevelInv', FlowInv',
         \/ \E i \in DOMAIN sent : TakeRequest(i)
         \/ \E o \in {Ok(1), Ok(2), Error} : Perform(o)
         \/ OpenResponse \/ WriteAll \/ WriteGivesUp
  PROVE  AnswerInv'
<1> USE DEF AnswerInv
<1>1. UNCHANGED <<forreal, sent, reader, got, fate>>
  BY DEF TakeRequest, Perform, OpenResponse, WriteAll, WriteGivesUp, clientVars, ansVars
<1>2. /\ DOMAIN sent \subseteq Ids /\ req \in Nat /\ (Busy => req \in DOMAIN sent /\ req \in Ids)
      /\ Ids \subseteq Nat
  BY InWork DEF Ids
<1>3. \A j \in Nat : Text(j)' = Text(j) /\ Outcomes(Text(j))' = Outcomes(Text(j))
  <2>1. \A j \in Nat : Text(j)' = Text(j)
    BY <1>1 DEF Text
  <2>2. QED
    BY <1>1, <2>1, OutcomesStay
<1>4. \A j \in Ids : got[j] \in Seq(AnswerParts) /\ rp[j] \in Seq(AnswerParts)
  BY DEF AnswerTypes
\* The pipes of the requests that are not in work stay as they are.
<1>5. ASSUME Busy', slow \subseteq slow',
             \A j \in Ids : j # req' => rp'[j] = rp[j] /\ (j \in slow' => j \in slow)
      PROVE  /\ \A j \in Ids : fate[j] = "answered" /\ j # req' => fate'[j] = "answered" /\ rp'[j] = rp[j]
             /\ fate[req'] # "answered" => AnswerIsWhole'
  <2>1. ASSUME fate[req'] # "answered" PROVE AnswerIsWhole'
    <3> SUFFICES ASSUME NEW j \in DOMAIN sent, fate[j] = "answered", reader[j] = "open", j \notin slow'
                 PROVE  \E o \in Outcomes(Text(j))' : got[j] \o rp'[j] = Answer(j, o)
      BY <1>1 DEF AnswerIsWhole
    <3>1. j \in Ids /\ j \in Nat /\ j # req' /\ j \notin slow
      BY <1>2, <1>5, <2>1
    <3>2. rp'[j] = rp[j]
      BY <1>5, <3>1
    <3>3. \E o \in Outcomes(Text(j)) : got[j] \o rp[j] = Answer(j, o)
      BY <3>1 DEF AnswersFit, AnswerIsWhole
    <3>4. QED
      BY <1>3, <3>1, <3>2, <3>3
  <2>2. QED
    BY <1>1, <1>5, <2>1
<1>6. CASE \E i \in DOMAIN sent : TakeRequest(i)
  <2>1. PICK i \in DOMAIN sent : TakeRequest(i)
    BY <1>6
  <2>2. /\ req' = i /\ vpc' = "dispatch" /\ vpc = "parse" /\ UNCHANGED <<out, slow, rp, got>>
    BY <2>1 DEF TakeRequest, ansVars
  <2>3. i > req /\ i \in Ids /\ i \in Nat
    BY <1>2, <2>1, TakeFlow
  <2>4. AnswerTypes'
    BY <1>1, <2>2 DEF AnswerTypes
  <2>5. fate[i] # "answered" /\ got[i] = <<>> /\ rp[i] = <<>> /\ i \notin slow
    BY <1>2, <2>3 DEF AnswersFit
  <2>6. AnswerIsWhole'
    BY <1>5, <2>2, <2>5 DEF Busy
  <2>7. \A j \in Ids : fate[j] = "answered" => j < i
    BY <1>2, <2>3 DEF AnswersFit
  <2>8. AnswersFit'
    BY <1>1, <1>2, <2>2, <2>3, <2>5, <2>6, <2>7 DEF AnswersFit, Busy
  <2>9. QED
    BY <2>4, <2>8
<1>7. CASE \E o \in {Ok(1), Ok(2), Error} : Perform(o)
  <2>1. PICK o \in {Ok(1), Ok(2), Error} : Perform(o)
    BY <1>7
  <2>2. /\ vpc = "dispatch" /\ vpc' = "respond" /\ o \in Outcomes(Text(req))
        /\ out' = Answer(req, o) /\ UNCHANGED <<req, slow, rp, got>>
    BY <2>1 DEF Perform
  <2>3. req \in DOMAIN sent /\ req \in Ids /\ Answer(req, o) \in Seq(AnswerParts)
    BY <1>2, <2>2, AnswerTyped DEF Busy, AllOutcomes
  <2>4. AnswerTypes'
    BY <1>1, <2>2, <2>3 DEF AnswerTypes
  <2>5. fate[req] # "answered" /\ got[req] = <<>> /\ rp[req] = <<>>
    BY <1>2, <2>2, <2>3 DEF AnswersFit, Busy
  <2>6. AnswerIsWhole'
    BY <1>5, <2>2, <2>5 DEF Busy
  <2>7. SoFar(req)' = Answer(req, o)
    <3>1. SoFar(req)' = <<>> \o (<<>> \o Answer(req, o))
      BY <2>2, <2>5 DEF SoFar
    <3>2. QED
      BY <2>3, <3>1, EmptyParts
  <2>8. \E a \in Outcomes(Text(req))' : SoFar(req)' = Answer(req', a)
    <3>1. Outcomes(Text(req))' = Outcomes(Text(req))
      BY <1>1, <1>2, <2>2, OutcomesStay DEF Text
    <3>2. QED
      BY <2>2, <2>7, <3>1
  <2>9. AnswersFit'
    BY <1>1, <2>2, <2>6, <2>8 DEF AnswersFit, Busy
  <2>10. QED
    BY <2>4, <2>9
<1>8. CASE OpenResponse
  <2>1. /\ vpc = "respond" /\ vpc' = "write" /\ reader[req] = "open" /\ UNCHANGED <<req, out, slow, rp, got>>
    BY <1>8 DEF OpenResponse, ansVars
  <2>2. AnswerTypes' /\ fate[req] # "answered"
    BY <1>1, <1>2, <2>1 DEF AnswerTypes, AnswersFit, Busy
  <2>3. AnswerIsWhole'
    BY <1>5, <2>1, <2>2 DEF Busy
  <2>4. Outcomes(Text(req))' = Outcomes(Text(req)) /\ SoFar(req)' = SoFar(req)
    BY <1>1, <1>2, <2>1, OutcomesStay DEF Text, SoFar
  <2>5. AnswersFit'
    BY <1>1, <2>1, <2>3, <2>4 DEF AnswersFit, Busy
  <2>6. QED
    BY <2>2, <2>5
<1>9. CASE WriteAll
  <2>1. /\ vpc = "write" /\ out # <<>> /\ rp' = [rp EXCEPT ![req] = Append(rp[req], Head(out))]
        /\ out' = Tail(out) /\ UNCHANGED <<vpc, req, slow, got>>
    BY <1>9 DEF WriteAll, Writing
  <2>2. req \in Ids /\ fate[req] # "answered" /\ got[req] \in Seq(AnswerParts) /\ rp[req] \in Seq(AnswerParts)
        /\ out \in Seq(AnswerParts)
    BY <1>2, <1>4, <2>1 DEF AnswersFit, Busy, AnswerTypes
  <2>3. /\ Head(out) \in AnswerParts /\ Tail(out) \in Seq(AnswerParts)
        /\ Append(rp[req], Head(out)) \in Seq(AnswerParts)
    BY <2>1, <2>2, HeadTailProperties, AppendProperties
  <2>4. AnswerTypes'
    BY <1>1, <2>1, <2>3 DEF AnswerTypes
  <2>5. /\ rp'[req] = Append(rp[req], Head(out))
        /\ \A j \in Ids : j # req => rp'[j] = rp[j]
    BY <2>1, <2>2 DEF AnswerTypes
  <2>6. AnswerIsWhole'
    BY <1>5, <2>1, <2>2, <2>5 DEF Busy
  <2>7. SoFar(req)' = SoFar(req)
    <3>1. Append(rp[req], Head(out)) = rp[req] \o <<Head(out)>>
      BY <2>2, <2>3, AppendIsConcat
    <3>2. <<Head(out)>> \in Seq(AnswerParts)
      BY <2>3
    <3>3. (rp[req] \o <<Head(out)>>) \o Tail(out) = rp[req] \o (<<Head(out)>> \o Tail(out))
      <4> DEFINE h == <<Head(out)>>
                 u == Tail(out)
                 w == rp[req]
      <4>1. h \in Seq(AnswerParts) /\ u \in Seq(AnswerParts) /\ w \in Seq(AnswerParts)
        BY <2>2, <2>3, <3>2
      <4> HIDE DEF h, u, w
      <4>2. (w \o h) \o u = w \o (h \o u)
        BY <4>1, JoinedParts
      <4>3. QED
        BY <4>2 DEF h, u, w
    <3>4. <<Head(out)>> \o Tail(out) = out
      BY <2>1, <2>2, HeadThenTail
    <3>5. SoFar(req)' = got[req] \o (rp'[req] \o Tail(out))
      BY <2>1 DEF SoFar
    <3>6. QED
      BY <2>5, <3>1, <3>3, <3>4, <3>5 DEF SoFar
  <2>8. Outcomes(Text(req))' = Outcomes(Text(req))
    BY <1>1, <1>2, <2>1, OutcomesStay DEF Text
  <2>9. AnswersFit'
    <3>1. ASSUME NEW j \in Ids, j > req PROVE got[j] = <<>> /\ rp'[j] = <<>> /\ j \notin slow
      <4>1. j # req
        BY <1>2, <3>1
      <4>2. QED
        BY <2>5, <3>1, <4>1 DEF AnswersFit
    <3>2. QED
      BY <1>1, <2>1, <2>6, <2>7, <2>8, <3>1 DEF AnswersFit, Busy
  <2>10. QED
    BY <2>4, <2>9
<1>10. CASE WriteGivesUp
  <2>1. /\ vpc = "write" /\ out # <<>> /\ slow' = slow \cup {req}
        /\ out' = IF Head(out).part = "header" THEN <<Last(out)>> ELSE Tail(out)
        /\ UNCHANGED <<vpc, req, rp, got>>
    BY <1>10 DEF WriteGivesUp, Writing
  <2>2. req \in Ids /\ fate[req] # "answered" /\ out \in Seq(AnswerParts)
    BY <1>2, <2>1 DEF AnswersFit, Busy, AnswerTypes
  <2>3. Last(out) \in AnswerParts /\ Tail(out) \in Seq(AnswerParts)
    <3>1. Len(out) \in 1 .. Len(out)
      BY <2>1, <2>2, EmptySeq, LenProperties
    <3>2. QED
      BY <2>1, <2>2, <3>1, ElementOfSeq, HeadTailProperties DEF Last
  <2>4. AnswerTypes'
    BY <1>1, <2>1, <2>2, <2>3 DEF AnswerTypes
  <2>5. AnswerIsWhole'
    BY <1>5, <2>1, <2>2 DEF Busy
  <2>6. AnswersFit'
    BY <1>1, <1>2, <2>1, <2>5 DEF AnswersFit, Busy
  <2>7. QED
    BY <2>4, <2>6
<1>11. QED
  BY <1>6, <1>7, <1>8, <1>9, <1>10

LEMMA FinishAnswers ==
  ASSUME AnswerInv, LevelInv', FlowInv', Finish
  PROVE  AnswerInv'
<1> USE DEF AnswerInv
<1>1. /\ vpc = "write" /\ out = <<>> /\ vpc' = "get" /\ fate' = [fate EXCEPT ![req] = "answered"]
      /\ UNCHANGED <<forreal, sent, reader, req, out, slow, rp, got>>
  BY DEF Finish, clientVars, ansVars
<1>2. /\ DOMAIN sent \subseteq Ids /\ req \in DOMAIN sent /\ req \in Ids /\ req \in Nat /\ Ids \subseteq Nat
  BY <1>1, InWork DEF Ids, Busy
<1>3. \A j \in Nat : Text(j)' = Text(j) /\ Outcomes(Text(j))' = Outcomes(Text(j))
  <2>1. \A j \in Nat : Text(j)' = Text(j)
    BY <1>1 DEF Text
  <2>2. QED
    BY <1>1, <2>1, OutcomesStay
<1>4. /\ AnswerTypes' /\ \A j \in Ids : j # req => fate'[j] = fate[j]
  BY <1>1 DEF AnswerTypes, Fates
<1>5. AnswerIsWhole'
  <2> SUFFICES ASSUME NEW j \in DOMAIN sent, fate'[j] = "answered", reader[j] = "open", j \notin slow
               PROVE  \E o \in Outcomes(Text(j))' : got[j] \o rp[j] = Answer(j, o)
    BY <1>1 DEF AnswerIsWhole
  <2>1. CASE j = req
    <3>1. \E o \in Outcomes(Text(req)) : SoFar(req) = Answer(req, o)
      BY <1>1, <2>1 DEF AnswersFit
    <3>2. SoFar(req) = got[req] \o rp[req]
      BY <1>1, <1>2, EmptyParts DEF SoFar, AnswerTypes
    <3>3. QED
      BY <1>2, <1>3, <2>1, <3>1, <3>2
  <2>2. CASE j # req
    <3>1. fate[j] = "answered" /\ j \in Nat
      BY <1>2, <1>4, <2>2
    <3>2. \E o \in Outcomes(Text(j)) : got[j] \o rp[j] = Answer(j, o)
      BY <3>1 DEF AnswersFit, AnswerIsWhole
    <3>3. QED
      BY <1>3, <3>1, <3>2
  <2>3. QED
    BY <2>1, <2>2
<1>6. \A j \in Ids : fate'[j] = "answered" => (j < req \/ j = req) /\ reader[j] # "none"
  BY <1>1, <1>4 DEF AnswersFit
<1>7. AnswersFit'
  BY <1>1, <1>5, <1>6 DEF AnswersFit, Busy
<1>8. QED
  BY <1>4, <1>7

LEMMA AnswerStep ==
  ASSUME AnswerInv, [ReqNext]_reqVars
  PROVE  AnswerInv'
<1> USE DEF clientVars, ansVars, pipeVars
<1>1. LevelInv' /\ FlowInv'
  BY LevelStep, FlowStep DEF AnswerInv
<1>2. out \in Seq(AnswerParts) /\ fate \in [Ids -> Fates] /\ req \in Nat
  BY InWork DEF AnswerInv, AnswerTypes
<1>3. CASE UNCHANGED reqVars
  BY <1>1, <1>2, <1>3, AnswerSame DEF reqVars
<1>4. CASE Client
  BY <1>1, <1>4, SendAnswers, ClientAnswers DEF Client
<1>5. CASE Wake \/ KeepPartial \/ ReadPipe \/ WriteAgain
  BY <1>1, <1>2, <1>5, AnswerSame DEF Wake, KeepPartial, ReadPipe, WriteAgain, Writing
<1>6. \A S : /\ Dropped(S) \in [Ids -> Fates]
             /\ \A i \in Ids : Dropped(S)[i] = "answered" => fate[i] = "answered"
  BY <1>2 DEF Dropped, Fates
<1>7. CASE GetLine
  <2>1. /\ vpc' \in {"get", "parse"} /\ UNCHANGED <<forreal, sent, reader, got, rp, slow, req, out>>
        /\ fate' = fate \/ \E S : fate' = Dropped(S)
    BY <1>7 DEF GetLine
  <2>2. fate' \in [Ids -> Fates] /\ \A i \in Ids : fate'[i] = "answered" => fate[i] = "answered"
    BY <1>2, <1>6, <2>1
  <2>3. QED
    BY <1>1, <1>2, <2>1, <2>2, AnswerSame
<1>8. CASE NoRequest
  <2>1. /\ vpc' = "asleep" /\ UNCHANGED <<forreal, sent, reader, got, rp, slow, req, out>>
        /\ fate' = Dropped(Mentioned(block))
    BY <1>8 DEF NoRequest
  <2>2. QED
    BY <1>1, <1>2, <1>6, <2>1, AnswerSame
<1>9. CASE Ignore \/ OpenFails
  <2>1. /\ vpc' = "get" /\ UNCHANGED <<forreal, sent, reader, got, rp, slow, req>>
        /\ fate' = [fate EXCEPT ![req] = "unanswered"] /\ (out' = out \/ out' = <<>>)
    BY <1>9 DEF Ignore, OpenFails, Unanswered
  <2>2. /\ fate' \in [Ids -> Fates] /\ \A i \in Ids : fate'[i] = "answered" => fate[i] = "answered"
        /\ out' \in Seq(AnswerParts)
    BY <1>2, <2>1, EmptyParts DEF Fates
  <2>3. QED
    BY <1>1, <2>1, <2>2, AnswerSame
<1>10. CASE \/ \E i \in DOMAIN sent : TakeRequest(i)
            \/ \E o \in {Ok(1), Ok(2), Error} : Perform(o)
            \/ OpenResponse \/ WriteAll \/ WriteGivesUp
  BY <1>1, <1>10, WorkAnswers
<1>11. CASE Finish
  BY <1>1, <1>11, FinishAnswers
<1>12. QED
  BY <1>3, <1>4, <1>5, <1>7, <1>8, <1>9, <1>10, <1>11 DEF ReqNext, Vfd

LEMMA AnswerInitially == ReqInit => AnswerInv
<1> SUFFICES ASSUME ReqInit PROVE AnswerInv
  OBVIOUS
<1>1. LevelInv /\ FlowInv
  BY LevelInitially, FlowInitially
<1>2. AnswerTypes
  BY EmptyParts DEF ReqInit, AnswerTypes, Fates
<1>3. AnswersFit
  BY DEF ReqInit, AnswersFit, AnswerIsWhole, Busy
<1>4. QED
  BY <1>1, <1>2, <1>3 DEF AnswerInv

\* Unless vfd_write gave up on it, a client that still reads has got the whole answer to
\* its own request, and not a part of another one, whatever it and the others do.
THEOREM AnswersAreWhole == ReqSpec => []AnswerIsWhole
<1>1. AnswerInv => AnswerIsWhole
  BY DEF AnswerInv, AnswersFit
<1>2. QED
  BY <1>1, AnswerInitially, AnswerStep, PTL DEF ReqSpec

=============================================================================
