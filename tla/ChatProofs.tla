----------------------------- MODULE ChatProofs -----------------------------
(***************************************************************************)
(* The refs that requests of the chat panel share mix nothing up, for any  *)
(* number of questions, sheets, events and crashes: one stream is read at  *)
(* a time, and a result is posted once, to the loop that made its call.    *)
(*                                                                         *)
(* Neither is inductive.  What is read is the stream of the last question  *)
(* (LastIsRead), so that reqId and results belong to that question, or to  *)
(* none (RefsAreOfLast); and every call is in one place: on the wire, in   *)
(* results or in a post (LinesOK, PostsOK).                                *)
(*                                                                         *)
(* Around this invariant, ChatInv, PanelInv says what the panel keeps: a   *)
(* message for each answer (TalkOK), drawings of questions asked on their  *)
(* sheet (DrawingOK), and no done of a loop that has called a tool         *)
(* (WordsOK), which is why a summary never takes the place of words.  For  *)
(* users who wait, what may still draw has the open sheet's canvas         *)
(* (ActiveOnSheet).                                                        *)
(***************************************************************************)
EXTENDS Chat, TLAPS

Stream == [at : {"idle", "sent", "open", "over", "failed"}, sheet : Sheets \cup {0},
           aborted : BOOLEAN, canvas : Nat, gone : BOOLEAN]
LineTypes == {"start", "text", "posing", "create", "mermaid", "delete", "done", "error", "end", "cut"}
Called == Nat \X Nat \X (Tools \cup {""})
Lines == [t : LineTypes, call : Called]
Post == [req : Sends, calls : SUBSET (Nat \X Nat \X Tools)]

IsTool(l) == l.t \in Tools

\* Calls of request k among the first n events.
CallOf(c, k, n) == c \in Nat \X Nat \X Tools /\ c[1] = k /\ 1 <= c[2] /\ c[2] <= n

\* The tool calls in s are request k's, each of them once, and in neither
\* res nor a post of ps.
LinesOK(s, k, n, res, ps) ==
  /\ s \in Seq(Lines)
  /\ \A i \in 1 .. Len(s) : IsTool(s[i]) =>
       /\ CallOf(s[i].call, k, n)
       /\ s[i].call \notin res
       /\ \A p \in ps : s[i].call \notin p.calls
       /\ \A j \in 1 .. Len(s) : IsTool(s[j]) /\ j # i => s[j].call # s[i].call

Typing ==
  /\ sheet \in Sheets /\ api \in Nat
  /\ asked \in Nat /\ asked <= MaxSends /\ emitted \in Nat
  /\ streams \in [Sends -> Stream]

LastIsRead == \A k \in Sends : UnderWay(k) /\ ~ streams[k].aborted => k = asked

RefsAreOfLast ==
  /\ reqId \in {0, asked}
  /\ \A c \in results : CallOf(c, asked, emitted)

PostsOK ==
  /\ posts \subseteq Post
  /\ \A p \in posts : \A c \in p.calls : CallOf(c, p.req, emitted) /\ c \notin results
  /\ \A p, q \in posts : p # q => p.calls \cap q.calls = {}

WireOK ==
  /\ DOMAIN wire = Sends
  /\ \A k \in Sends : LinesOK(wire[k], k, emitted, results, posts)

ChatInv == Typing /\ LastIsRead /\ RefsAreOfLast /\ PostsOK /\ WireOK

-----------------------------------------------------------------------------
(* Lines of a response: what arrives, is sent, is lost or is posted.        *)

\* A response without a line is in order.
LEMMA EmptyOK ==
  ASSUME NEW k, NEW n, NEW res, NEW ps
  PROVE  LinesOK(<< >>, k, n, res, ps)
BY DEF LinesOK

\* A line that has been read leaves the others as they are; if it is a call,
\* its result may be recorded.
LEMMA TailOK ==
  ASSUME NEW k, NEW n \in Nat, NEW res, NEW ps, NEW s, LinesOK(s, k, n, res, ps), s # << >>
  PROVE  /\ Head(s) \in Lines
         /\ LinesOK(Tail(s), k, n, res, ps)
         /\ IsTool(Head(s)) => /\ CallOf(Head(s).call, k, n)
                               /\ \A p \in ps : Head(s).call \notin p.calls
                               /\ LinesOK(Tail(s), k, n, res \cup {Head(s).call}, ps)
<1>1. /\ s \in Seq(Lines) /\ Len(s) \in Nat /\ Len(s) # 0
      /\ Tail(s) \in Seq(Lines) /\ Len(Tail(s)) = Len(s) - 1
      /\ Head(s) = s[1] /\ 1 \in 1 .. Len(s)
      /\ Head(s) \in Lines
  BY DEF LinesOK
<1>2. \A i \in 1 .. Len(Tail(s)) : Tail(s)[i] = s[i + 1] /\ i + 1 \in 1 .. Len(s) /\ i + 1 # 1
  BY <1>1
<1>3. LinesOK(Tail(s), k, n, res, ps)
  BY <1>1, <1>2 DEF LinesOK
<1>4. ASSUME IsTool(Head(s))
      PROVE  /\ CallOf(Head(s).call, k, n)
             /\ \A p \in ps : Head(s).call \notin p.calls
             /\ LinesOK(Tail(s), k, n, res \cup {Head(s).call}, ps)
  <2>1. /\ CallOf(Head(s).call, k, n)
        /\ \A p \in ps : Head(s).call \notin p.calls
        /\ \A j \in 1 .. Len(s) : IsTool(s[j]) /\ j # 1 => s[j].call # Head(s).call
    BY <1>1, <1>4 DEF LinesOK
  <2> QED
    BY <1>1, <1>2, <1>3, <2>1 DEF LinesOK
<1> QED
  BY <1>1, <1>3, <1>4

\* A response that is cut off stays in order.
LEMMA PrefixOK ==
  ASSUME NEW S, NEW s \in Seq(S), NEW m \in Nat, m <= Len(s)
  PROVE  /\ SubSeq(s, 1, m) \in Seq(S) /\ Len(SubSeq(s, 1, m)) = m
         /\ \A i \in 1 .. m : SubSeq(s, 1, m)[i] = s[i]
OBVIOUS

\* A response that loses its last line.
LEMMA FrontOK ==
  ASSUME NEW k, NEW n \in Nat, NEW res, NEW ps, NEW s, LinesOK(s, k, n, res, ps), s # << >>
  PROVE  LinesOK(Front(s), k, n, res, ps)
<1> DEFINE m == Len(s) - 1
<1>1. s \in Seq(Lines) /\ Len(s) \in Nat /\ Len(s) # 0
  BY DEF LinesOK
<1>2. Front(s) = SubSeq(s, 1, m)
  BY DEF Front
<1>3. m \in Nat /\ m <= Len(s) /\ \A i \in 1 .. m : i \in 1 .. Len(s)
  BY <1>1
<1> HIDE DEF m
<1>4. /\ Front(s) \in Seq(Lines) /\ Len(Front(s)) = m
      /\ \A i \in 1 .. m : Front(s)[i] = s[i]
  BY <1>1, <1>2, <1>3, PrefixOK
<1> QED
  BY <1>1, <1>3, <1>4 DEF LinesOK

\* Lines that call no tool are added.
LEMMA PlainOK ==
  ASSUME NEW k, NEW n \in Nat, NEW res, NEW ps, NEW s, LinesOK(s, k, n, res, ps),
         NEW u \in Seq(Lines), \A i \in 1 .. Len(u) : ~ IsTool(u[i])
  PROVE  LinesOK(s \o u, k, n, res, ps)
<1>1. s \in Seq(Lines) /\ s \o u \in Seq(Lines) /\ Len(s \o u) = Len(s) + Len(u)
      /\ Len(s) \in Nat /\ Len(u) \in Nat
  BY DEF LinesOK
<1>2. ASSUME NEW i \in 1 .. Len(s \o u), IsTool((s \o u)[i])
      PROVE  i \in 1 .. Len(s) /\ (s \o u)[i] = s[i]
  <2>1. CASE i <= Len(s)
    BY <1>1, <2>1
  <2>2. CASE i > Len(s)
    <3>1. (s \o u)[i] = u[i - Len(s)] /\ i - Len(s) \in 1 .. Len(u)
      BY <1>1, <2>2
    <3> QED
      BY <3>1, <1>2
  <2> QED
    BY <1>1, <2>1, <2>2
<1> QED
  BY <1>1, <1>2 DEF LinesOK

\* A line of a call.
LEMMA CallLine ==
  ASSUME NEW k \in Nat, NEW n \in Nat, NEW t \in Tools
  PROVE  [t |-> t, call |-> <<k, n + 1, t>>] \in Lines
<1>1. n + 1 \in Nat
  OBVIOUS
<1>2. t \in Tools \cup {""}
  OBVIOUS
<1>3. <<k, n + 1, t>> \in Called
  BY <1>1, <1>2, Zenon DEF Called
<1>4. t \in LineTypes
  BY DEF Tools, LineTypes
<1> QED
  BY <1>3, <1>4, Zenon DEF Lines

\* A new call is the first of its number.
LEMMA CallSentOK ==
  ASSUME NEW k \in Nat, NEW n \in Nat, NEW res, NEW ps, NEW s, LinesOK(s, k, n, res, ps),
         \A c \in res : c[2] <= n, \A p \in ps : \A c \in p.calls : c[2] <= n,
         NEW t \in Tools
  PROVE  LinesOK(s \o <<[t |-> t, call |-> <<k, n + 1, t>>]>>, k, n + 1, res, ps)
<1> DEFINE l == [t |-> t, call |-> <<k, n + 1, t>>]
           v == s \o <<l>>
<1>1. /\ l \in Lines /\ s \in Seq(Lines) /\ Len(s) \in Nat
      /\ <<k, n + 1, t>>[1] = k /\ <<k, n + 1, t>>[2] = n + 1
  <2>1. <<k, n + 1, t>>[1] = k /\ <<k, n + 1, t>>[2] = n + 1
    OBVIOUS
  <2>2. l \in Lines
    BY CallLine
  <2> QED
    BY <2>1, <2>2 DEF LinesOK
<1>2. v \in Seq(Lines) /\ Len(v) = Len(s) + 1
  BY <1>1
<1>3. \A i \in 1 .. Len(s) : v[i] = s[i] /\ (IsTool(s[i]) => CallOf(s[i].call, k, n))
  BY <1>1 DEF LinesOK
<1>4. v[Len(s) + 1] = l /\ l.call = <<k, n + 1, t>>
  BY <1>1
<1>5. CallOf(l.call, k, n + 1) /\ l.call \notin res /\ \A p \in ps : l.call \notin p.calls
  BY <1>1 DEF CallOf
<1>6. \A i \in 1 .. Len(s) : IsTool(s[i]) => s[i].call # l.call /\ CallOf(s[i].call, k, n + 1)
  BY <1>1, <1>3 DEF CallOf
<1>7. \A i \in 1 .. Len(v) : i \in 1 .. Len(s) \/ i = Len(s) + 1
  BY <1>1, <1>2
<1> HIDE DEF l, v
<1>8. LinesOK(v, k, n + 1, res, ps)
  BY <1>1, <1>2, <1>3, <1>4, <1>5, <1>6, <1>7 DEF LinesOK
<1> QED
  BY <1>8 DEF v, l

\* Other calls of a later number change nothing here.
LEMMA LaterOK ==
  ASSUME NEW k, NEW n \in Nat, NEW res, NEW ps, NEW s, LinesOK(s, k, n, res, ps)
  PROVE  LinesOK(s, k, n + 1, res, ps)
BY DEF LinesOK, CallOf

\* What is recorded may be dropped, or posted.
LEMMA LessOK ==
  ASSUME NEW k, NEW n, NEW res, NEW ps, NEW s, LinesOK(s, k, n, res, ps), NEW ps2 \in SUBSET ps
  PROVE  LinesOK(s, k, n, {}, ps) /\ LinesOK(s, k, n, res, ps2)
BY DEF LinesOK

\* What is posted is recorded no longer.
LEMMA PostedOK ==
  ASSUME NEW k, NEW n, NEW res, NEW ps, NEW s, LinesOK(s, k, n, res, ps), NEW r
  PROVE  LinesOK(s, k, n, {}, ps \cup {[req |-> r, calls |-> res]})
BY DEF LinesOK

\* A call of another request is recorded.
LEMMA OtherOK ==
  ASSUME NEW j, NEW k, NEW n, NEW res, NEW ps, NEW s, LinesOK(s, j, n, res, ps),
         j # k, NEW c, CallOf(c, k, n)
  PROVE  LinesOK(s, j, n, res \cup {c}, ps)
BY DEF LinesOK, CallOf

-----------------------------------------------------------------------------
(* Steps that have their effect on the refs, the posts or the wire in common. *)

\* A step that changes nothing shared keeps the invariant.
LEMMA SharedUnchanged ==
  ASSUME RefsAreOfLast, PostsOK, WireOK,
         UNCHANGED <<asked, emitted, reqId, results, posts, wire>>
  PROVE  RefsAreOfLast' /\ PostsOK' /\ WireOK'
BY DEF RefsAreOfLast, PostsOK, WireOK

\* The refs are reset.
LEMMA RefsReset ==
  ASSUME PostsOK, WireOK, reqId' = 0, results' = {}, UNCHANGED <<emitted, posts, wire>>
  PROVE  RefsAreOfLast' /\ PostsOK' /\ WireOK'
<1>1. RefsAreOfLast' /\ PostsOK'
  BY DEF RefsAreOfLast, PostsOK
<1>2. WireOK'
  BY LessOK DEF WireOK
<1> QED
  BY <1>1, <1>2

\* Only responses change.
LEMMA WireChanged ==
  ASSUME RefsAreOfLast, PostsOK, WireOK,
         UNCHANGED <<asked, emitted, reqId, results, posts>>,
         DOMAIN wire' = Sends,
         \A k \in Sends : wire'[k] = wire[k] \/ LinesOK(wire'[k], k, emitted, results, posts)
  PROVE  RefsAreOfLast' /\ PostsOK' /\ WireOK'
<1>1. RefsAreOfLast' /\ PostsOK'
  BY DEF RefsAreOfLast, PostsOK
<1>2. WireOK'
  BY DEF WireOK
<1> QED
  BY <1>1, <1>2

\* Lines without a call are sent, and one line may be lost.
LEMMA PlainSent ==
  ASSUME ChatInv, NEW k \in Sends, NEW u \in Seq(Lines),
         \A i \in 1 .. Len(u) : ~ IsTool(u[i]), Sent(k, u),
         UNCHANGED <<asked, emitted, reqId, results, posts>>
  PROVE  RefsAreOfLast' /\ PostsOK' /\ WireOK'
<1>1. /\ RefsAreOfLast /\ PostsOK /\ WireOK /\ emitted \in Nat
      /\ DOMAIN wire = Sends /\ LinesOK(wire[k], k, emitted, results, posts)
  BY DEF ChatInv, Typing, WireOK
<1>2. DOMAIN wire' = Sends /\ \A j \in Sends : j # k => wire'[j] = wire[j]
  BY <1>1 DEF Sent
<1>3. wire'[k] = wire[k] \o u \/ wire'[k] = << >>
  BY <1>1 DEF Sent
<1>4. LinesOK(wire[k] \o u, k, emitted, results, posts)
  BY <1>1, PlainOK
<1>5. LinesOK(<< >>, k, emitted, results, posts)
  BY EmptyOK
<1>6. LinesOK(wire'[k], k, emitted, results, posts)
  BY <1>3, <1>4, <1>5
<1> QED
  BY <1>1, <1>2, <1>6, WireChanged

\* Neither the panel's refs nor the wire are touched, and no stream.
LEMMA Idle ==
  ASSUME ChatInv, UNCHANGED <<sheet, api, asked, emitted, streams, reqId, results, posts, wire>>
  PROVE  ChatInv'
<1>1. Typing' /\ LastIsRead'
  BY DEF ChatInv, Typing, LastIsRead, UnderWay
<1> QED
  BY <1>1, SharedUnchanged DEF ChatInv

\* No stream is begun, resumed or opened for reading again.
StreamsOnly ==
  /\ streams' \in [Sends -> Stream]
  /\ \A k \in Sends : UnderWay(k)' /\ ~ streams'[k].aborted => UnderWay(k) /\ ~ streams[k].aborted

\* Streams that are only ended leave the last one the only one read.
LEMMA StreamsKept ==
  ASSUME ChatInv, StreamsOnly, sheet' \in Sheets, api' \in Nat, UNCHANGED <<asked, emitted>>
  PROVE  Typing' /\ LastIsRead'
BY DEF ChatInv, Typing, LastIsRead, StreamsOnly

\* A stream that is aborted stays a stream ...
LEMMA AbortedStreams ==
  ASSUME ChatInv
  PROVE  /\ Aborted \in [Sends -> Stream]
         /\ \A k \in Sends : Aborted[k].at = streams[k].at
         /\ \A k \in Sends : ~ Aborted[k].aborted => ~ streams[k].aborted /\ k # asked
BY DEF ChatInv, Typing, Aborted, Stream

\* ... and none is read that was not read before.
LEMMA AbortedOnly ==
  ASSUME ChatInv, streams' = Aborted
  PROVE  StreamsOnly
BY AbortedStreams DEF StreamsOnly, UnderWay

-----------------------------------------------------------------------------
(* What the user does.                                                      *)

\* What the user does keeps the invariant.
LEMMA UserStep ==
  ASSUME ChatInv, User
  PROVE  ChatInv'
<1> USE DEF canvasVars, panelVars, serverVars
<1>1. /\ RefsAreOfLast /\ PostsOK /\ WireOK
      /\ sheet \in Sheets /\ api \in Nat /\ streams \in [Sends -> Stream]
      /\ asked \in Nat /\ asked <= MaxSends /\ emitted \in Nat
  BY DEF ChatInv, Typing
<1>2. CASE MountCanvas
  <2>1. StreamsOnly
    BY <1>1, <1>2 DEF MountCanvas, StreamsOnly, UnderWay
  <2>2. Typing' /\ LastIsRead'
    BY <1>1, <1>2, <2>1, StreamsKept DEF MountCanvas
  <2> QED
    BY <1>1, <1>2, <2>2, SharedUnchanged DEF MountCanvas, ChatInv
<1>3. CASE HandleSendNotReady
  <2>1. StreamsOnly
    BY <1>3, AbortedOnly DEF HandleSendNotReady
  <2>2. Typing' /\ LastIsRead'
    BY <1>1, <1>3, <2>1, StreamsKept DEF HandleSendNotReady
  <2> QED
    BY <1>1, <1>3, <2>2, RefsReset DEF HandleSendNotReady, Fresh, ChatInv
<1>4. CASE HandleSend
  <2> DEFINE n == asked + 1
             new == [at |-> "sent", sheet |-> sheet, aborted |-> FALSE, canvas |-> api, gone |-> FALSE]
  <2>1. /\ n \in Nat /\ n <= MaxSends /\ asked' = n /\ n # asked
        /\ streams' = [Aborted EXCEPT ![n] = new]
        /\ new \in Stream /\ new.at = "sent"
        /\ UNCHANGED <<sheet, api, emitted>>
    BY <1>1, <1>4, ChatAssumption DEF HandleSend, Captured, Stream
  <2> HIDE DEF n, new
  <2>2. streams' \in [Sends -> Stream]
    BY <2>1, AbortedStreams
  <2>3. Typing'
    BY <1>1, <2>1, <2>2 DEF Typing
  <2>4. ASSUME NEW k \in Sends, UnderWay(k)', ~ streams'[k].aborted, k # asked'
        PROVE  FALSE
    <3>1. streams'[k] = Aborted[k]
      BY <2>1, <2>4, AbortedStreams
    <3>2. k # asked /\ UnderWay(k) /\ ~ streams[k].aborted
      BY <2>4, <3>1, AbortedStreams DEF UnderWay
    <3> QED
      BY <3>2 DEF ChatInv, LastIsRead
  <2>5. LastIsRead'
    BY <2>4 DEF LastIsRead
  <2> QED
    BY <1>1, <1>4, <2>3, <2>5, RefsReset DEF HandleSend, Fresh, ChatInv
<1>5. CASE StopGenerating
  <2>1. StreamsOnly
    BY <1>5, AbortedOnly DEF StopGenerating
  <2>2. Typing' /\ LastIsRead'
    BY <1>1, <1>5, <2>1, StreamsKept DEF StopGenerating
  <2> QED
    BY <1>1, <1>5, <2>2, SharedUnchanged DEF StopGenerating, ChatInv
<1>6. CASE ClearConversation
  BY <1>6, Idle DEF ClearConversation
<1>7. CASE Logout
  <2>1. StreamsOnly
    BY <1>1, <1>7 DEF Logout, StreamsOnly, Stream, UnderWay
  <2>2. Typing' /\ LastIsRead'
    BY <1>1, <1>7, <2>1, StreamsKept DEF Logout, Remounted
  <2> QED
    BY <1>1, <1>7, <2>2, SharedUnchanged DEF Logout, ChatInv
<1>8. CASE Reload
  <2>1. StreamsOnly
    BY <1>1, <1>8 DEF Reload, StreamsOnly, Stream, UnderWay
  <2>2. Typing' /\ LastIsRead'
    BY <1>1, <1>8, <2>1, StreamsKept DEF Reload
  <2> QED
    BY <1>1, <1>8, <2>2, RefsReset DEF Reload, ChatInv
<1>9. ASSUME NEW t \in Sheets, SwitchSheet(t)
      PROVE  ChatInv'
  <2>1. StreamsOnly
    BY <1>1, <1>9 DEF SwitchSheet, StreamsOnly, UnderWay
  <2>2. Typing' /\ LastIsRead'
    BY <1>1, <1>9, <2>1, StreamsKept DEF SwitchSheet, Remounted
  <2> QED
    BY <1>1, <1>9, <2>2, SharedUnchanged DEF SwitchSheet, ChatInv
<1>10. ASSUME NEW i, HandleUndoAI(i)
       PROVE  ChatInv'
  BY <1>10, Idle DEF HandleUndoAI
<1> QED
  BY <1>2, <1>3, <1>4, <1>5, <1>6, <1>7, <1>8, <1>9, <1>10 DEF User

-----------------------------------------------------------------------------
(* What the stream brings.                                                  *)

\* A line that arrives is of the last question.
LEMMA ArrivedFacts ==
  ASSUME ChatInv, NEW k \in Sends, NEW types, Arrived(k, types)
  PROVE  /\ k = asked /\ k # 0 /\ wire[k] # << >>
         /\ LinesOK(wire[k], k, emitted, results, posts)
         /\ DOMAIN wire' = Sends
         /\ wire'[k] = Tail(wire[k])
         /\ LinesOK(wire'[k], k, emitted, results, posts)
         /\ \A j \in Sends : j # k => wire'[j] = wire[j]
<1>1. /\ k = asked /\ k # 0 /\ wire[k] # << >>
      /\ LinesOK(wire[k], k, emitted, results, posts)
  BY DEF ChatInv, Arrived, Reads, UnderWay, LastIsRead, WireOK, Sends
<1>2. DOMAIN wire' = Sends /\ wire'[k] = Tail(wire[k]) /\ \A j \in Sends : j # k => wire'[j] = wire[j]
  BY DEF ChatInv, WireOK, Arrived
<1>3. LinesOK(Tail(wire[k]), k, emitted, results, posts)
  BY <1>1, TailOK DEF ChatInv, Typing
<1> QED
  BY <1>1, <1>2, <1>3

\* A line that is not kept in the refs.
LEMMA LineRead ==
  ASSUME ChatInv, NEW k \in Sends, NEW types, Arrived(k, types),
         UNCHANGED <<asked, emitted, reqId, results, posts>>
  PROVE  RefsAreOfLast' /\ PostsOK' /\ WireOK'
BY ArrivedFacts, WireChanged DEF ChatInv

\* A line that has the results posted.
LEMMA LineFlushes ==
  ASSUME ChatInv, NEW k \in Sends, NEW types, Arrived(k, types), FlushResults,
         UNCHANGED <<asked, emitted, reqId>>
  PROVE  RefsAreOfLast' /\ PostsOK' /\ WireOK'
<1>1. CASE results = {} \/ reqId = 0
  BY <1>1, LineRead DEF FlushResults
<1>2. CASE ~ (results = {} \/ reqId = 0)
  <2> DEFINE p == [req |-> reqId, calls |-> results]
  <2>1. /\ posts' = posts \cup {p} /\ results' = {} /\ reqId = asked /\ reqId # 0
        /\ p.req = reqId /\ p.calls = results
    BY <1>2 DEF FlushResults, ChatInv, RefsAreOfLast
  <2>2. \A c \in results : CallOf(c, reqId, emitted) /\ \A q \in posts : c \notin q.calls
    BY <2>1 DEF ChatInv, RefsAreOfLast, PostsOK
  <2>3. p \in Post
    BY <2>1, <2>2, ChatAssumption DEF Post, CallOf, Sends, ChatInv, Typing
  <2>4. \A j \in Sends : LinesOK(wire'[j], j, emitted, results, posts)
    BY ArrivedFacts DEF ChatInv, WireOK
  <2>5. \A j \in Sends : LinesOK(wire'[j], j, emitted, {}, posts \cup {p})
    BY <2>4, PostedOK
  <2> HIDE DEF p
  <2>6. RefsAreOfLast'
    BY <2>1 DEF RefsAreOfLast
  <2>7. PostsOK'
    BY <2>1, <2>2, <2>3 DEF PostsOK, ChatInv
  <2>8. WireOK'
    BY <2>1, <2>5, ArrivedFacts DEF WireOK
  <2> QED
    BY <2>6, <2>7, <2>8
<1> QED
  BY <1>1, <1>2

\* A tool call whose result is recorded.
LEMMA CallRecorded ==
  ASSUME ChatInv, NEW k \in Sends, Arrived(k, Tools),
         results' = results \cup {Head(wire[k]).call},
         UNCHANGED <<asked, emitted, reqId, posts>>
  PROVE  RefsAreOfLast' /\ PostsOK' /\ WireOK'
<1> DEFINE c == Head(wire[k]).call
<1>1. IsTool(Head(wire[k])) /\ emitted \in Nat /\ PostsOK /\ RefsAreOfLast
  BY DEF Arrived, IsTool, ChatInv, Typing
<1>2. /\ CallOf(c, k, emitted) /\ \A p \in posts : c \notin p.calls
      /\ LinesOK(wire'[k], k, emitted, results \cup {c}, posts)
  <2>1. wire[k] # << >> /\ LinesOK(wire[k], k, emitted, results, posts) /\ wire'[k] = Tail(wire[k])
    BY ArrivedFacts
  <2>2. /\ CallOf(c, k, emitted) /\ \A p \in posts : c \notin p.calls
        /\ LinesOK(Tail(wire[k]), k, emitted, results \cup {c}, posts)
    BY <1>1, <2>1, TailOK
  <2> QED
    BY <2>1, <2>2
<1>3. k = asked /\ DOMAIN wire' = Sends
  BY ArrivedFacts
<1> HIDE DEF c
<1>4. ASSUME NEW j \in Sends
      PROVE  LinesOK(wire'[j], j, emitted, results \cup {c}, posts)
  <2>1. CASE j = k
    BY <1>2, <2>1
  <2>2. CASE j # k
    <3>1. LinesOK(wire'[j], j, emitted, results, posts)
      BY <2>2, ArrivedFacts DEF ChatInv, WireOK
    <3> QED
      BY <1>2, <2>2, <3>1, OtherOK
  <2> QED
    BY <2>1, <2>2
<1>5. results' = results \cup {c}
  BY DEF c
<1>6. RefsAreOfLast'
  BY <1>1, <1>2, <1>3, <1>5 DEF RefsAreOfLast
<1>7. PostsOK'
  BY <1>1, <1>2, <1>5 DEF PostsOK
<1>8. WireOK'
  BY <1>3, <1>4, <1>5 DEF WireOK
<1> QED
  BY <1>6, <1>7, <1>8

\* A stream that ends, in whichever way.
LEMMA StreamEnds ==
  ASSUME ChatInv, NEW k \in Sends, NEW a \in {"over", "failed"},
         streams' = [streams EXCEPT ![k].at = a], wire' = [wire EXCEPT ![k] = << >>],
         UNCHANGED <<sheet, api, asked, emitted, reqId, results, posts>>
  PROVE  ChatInv'
<1>1. /\ RefsAreOfLast /\ PostsOK /\ WireOK /\ DOMAIN wire = Sends
      /\ sheet \in Sheets /\ api \in Nat /\ streams \in [Sends -> Stream]
  BY DEF ChatInv, Typing, WireOK
<1>2. StreamsOnly
  BY <1>1 DEF StreamsOnly, Stream, UnderWay
<1>3. Typing' /\ LastIsRead'
  BY <1>1, <1>2, StreamsKept
<1>4. DOMAIN wire' = Sends /\ \A j \in Sends : wire'[j] = wire[j] \/ wire'[j] = << >>
  BY <1>1
<1>5. \A j \in Sends : wire'[j] = wire[j] \/ LinesOK(wire'[j], j, emitted, results, posts)
  BY <1>4, EmptyOK
<1>6. RefsAreOfLast' /\ PostsOK' /\ WireOK'
  BY <1>1, <1>4, <1>5, WireChanged
<1> QED
  BY <1>3, <1>6 DEF ChatInv

\* A request that fails ends its stream.
LEMMA ErrorStep ==
  ASSUME ChatInv, NEW k \in Sends, OnError(k)
  PROVE  ChatInv'
BY StreamEnds DEF OnError, canvasVars, serverVars

\* What the client reads keeps the invariant.
LEMMA ClientStep ==
  ASSUME ChatInv, NEW k \in Sends, Client(k)
  PROVE  ChatInv'
<1> USE DEF canvasVars, panelVars, serverVars
<1>1. Typing /\ LastIsRead /\ RefsAreOfLast /\ PostsOK /\ WireOK
  BY DEF ChatInv
<1>2. ASSUME UNCHANGED <<sheet, api, asked, emitted, streams>>
      PROVE  Typing' /\ LastIsRead'
  BY <1>1, <1>2 DEF Typing, LastIsRead, UnderWay
<1>3. CASE OnStart(k)
  <2>1. /\ k = asked /\ DOMAIN wire' = Sends /\ reqId' = k
        /\ \A j \in Sends : LinesOK(wire'[j], j, emitted, results, posts)
    BY <1>1, <1>3, ArrivedFacts DEF OnStart, WireOK
  <2>2. RefsAreOfLast' /\ PostsOK' /\ WireOK'
    BY <1>1, <1>3, <2>1 DEF OnStart, RefsAreOfLast, PostsOK, WireOK
  <2> QED
    BY <1>2, <1>3, <2>2 DEF OnStart, ChatInv
<1>4. CASE OnText(k)
  <2>1. RefsAreOfLast' /\ PostsOK' /\ WireOK'
    BY <1>4, LineFlushes DEF OnText
  <2> QED
    BY <1>2, <1>4, <2>1 DEF OnText, ChatInv
<1>5. CASE OnToolCall(k)
  <2>1. RefsAreOfLast' /\ PostsOK' /\ WireOK'
    BY <1>5, CallRecorded DEF OnToolCall
  <2> QED
    BY <1>2, <1>5, <2>1 DEF OnToolCall, ChatInv
<1>6. CASE OnDone(k)
  <2>1. RefsAreOfLast' /\ PostsOK' /\ WireOK'
    BY <1>6, LineFlushes DEF OnDone
  <2> QED
    BY <1>2, <1>6, <2>1 DEF OnDone, ChatInv
<1>7. CASE OnErrorEvent(k)
  <2>1. RefsAreOfLast' /\ PostsOK' /\ WireOK'
    BY <1>7, LineRead DEF OnErrorEvent
  <2> QED
    BY <1>2, <1>7, <2>1 DEF OnErrorEvent, ChatInv
<1>8. CASE OnComplete(k)
  BY <1>8, StreamEnds DEF OnComplete
<1>9. CASE Broken(k)
  BY <1>9, ErrorStep DEF Broken
<1> QED
  BY <1>3, <1>4, <1>5, <1>6, <1>7, <1>8, <1>9 DEF Client

-----------------------------------------------------------------------------
(* The server.                                                              *)

\* No line but a tool call calls a tool.
LEMMA LineOK ==
  ASSUME NEW t \in {"start", "text", "posing", "done", "error", "end", "cut"}
  PROVE  /\ Line(t) \in Seq(Lines) /\ \A i \in 1 .. Len(Line(t)) : ~ IsTool(Line(t)[i])
<1>1. <<0, 0, "">> \in Called
  BY DEF Called
<1>2. t \in LineTypes /\ t \notin Tools
  BY DEF LineTypes, Tools
<1> DEFINE l == [t |-> t, call |-> <<0, 0, "">>]
<1>3. l \in Lines /\ ~ IsTool(l)
  BY <1>1, <1>2, Zenon DEF Lines, IsTool
<1>4. Line(t) = <<l>>
  BY DEF Line
<1> HIDE DEF l
<1> QED
  BY <1>3, <1>4

\* A response may end with a line that calls nothing.
LEMMA EndOK ==
  ASSUME NEW t \in {"done", "error"}
  PROVE  /\ Line(t) \o Line("end") \in Seq(Lines)
         /\ \A i \in 1 .. Len(Line(t) \o Line("end")) : ~ IsTool((Line(t) \o Line("end"))[i])
<1>1. /\ Line(t) \in Seq(Lines) /\ \A i \in 1 .. Len(Line(t)) : ~ IsTool(Line(t)[i])
      /\ Line("end") \in Seq(Lines) /\ \A i \in 1 .. Len(Line("end")) : ~ IsTool(Line("end")[i])
  BY LineOK
<1>2. Len(Line(t)) = 1 /\ Len(Line("end")) = 1
  BY DEF Line
<1> QED
  BY <1>1, <1>2

\* The provider's next event.
LEMMA EventStep ==
  ASSUME ChatInv, NEW k \in Sends, ProviderStreams(k)
  PROVE  ChatInv'
<1> USE DEF canvasVars, panelVars, serverVars
<1>1. /\ RefsAreOfLast /\ PostsOK /\ WireOK /\ emitted \in Nat /\ emitted' = emitted + 1
      /\ UNCHANGED <<sheet, api, asked, streams, reqId, results, posts>>
  BY DEF ChatInv, Typing, ProviderStreams
<1>2. Typing' /\ LastIsRead'
  BY <1>1 DEF ChatInv, Typing, LastIsRead, UnderWay
<1>3. RefsAreOfLast' /\ PostsOK'
  BY <1>1 DEF RefsAreOfLast, PostsOK, CallOf
<1>4. \A j \in Sends : LinesOK(wire[j], j, emitted', results, posts)
  BY <1>1, LaterOK DEF WireOK
<1>5. DOMAIN wire' = Sends /\ \A j \in Sends : j # k => wire'[j] = wire[j]
  BY <1>1 DEF ProviderStreams, Sent, WireOK
<1>6. LinesOK(wire'[k], k, emitted', results, posts)
  <2>1. CASE wire'[k] = << >>
    BY <2>1, EmptyOK
  <2>2. ASSUME NEW t \in {"text", "posing"}, Sent(k, Line(t)), wire'[k] # << >>
        PROVE  LinesOK(wire'[k], k, emitted', results, posts)
    <3>1. wire'[k] = wire[k] \o Line(t)
      BY <1>1, <2>2 DEF Sent, WireOK
    <3>2. Line(t) \in Seq(Lines) /\ \A i \in 1 .. Len(Line(t)) : ~ IsTool(Line(t)[i])
      BY LineOK
    <3> QED
      BY <1>1, <1>4, <3>1, <3>2, PlainOK
  <2>3. ASSUME NEW t \in Tools,
               Sent(k, <<[t |-> t, call |-> <<k, emitted', t>>]>>), wire'[k] # << >>
        PROVE  LinesOK(wire'[k], k, emitted', results, posts)
    <3>1. wire'[k] = wire[k] \o <<[t |-> t, call |-> <<k, emitted + 1, t>>]>>
      BY <1>1, <2>3 DEF Sent, WireOK
    <3>2. /\ k \in Nat /\ LinesOK(wire[k], k, emitted, results, posts)
          /\ \A c \in results : c[2] <= emitted
          /\ \A p \in posts : \A c \in p.calls : c[2] <= emitted
      BY <1>1 DEF RefsAreOfLast, PostsOK, WireOK, CallOf, Sends
    <3> QED
      BY <1>1, <3>1, <3>2, CallSentOK
  <2> QED
    BY <2>1, <2>2, <2>3 DEF ProviderStreams
<1>7. WireOK'
  BY <1>1, <1>4, <1>5, <1>6 DEF WireOK
<1> QED
  BY <1>2, <1>3, <1>7 DEF ChatInv

\* The next iteration, which writes into a response or ends the process.
LEMMA ContinueStep ==
  ASSUME ChatInv, NEW k \in Sends, Continue(k)
  PROVE  ChatInv'
<1> USE DEF canvasVars, panelVars, serverVars
<1>1. /\ RefsAreOfLast /\ PostsOK /\ WireOK /\ emitted \in Nat /\ DOMAIN wire = Sends
      /\ UNCHANGED <<sheet, api, asked, streams, emitted, reqId, results, posts>>
  BY DEF ChatInv, Typing, Continue, WireOK
<1>2. Typing' /\ LastIsRead'
  BY <1>1 DEF ChatInv, Typing, LastIsRead, UnderWay
<1>3. /\ DOMAIN wire' = Sends
      /\ \A j \in Sends :
           \/ wire'[j] = wire[j]
           \/ wire[j] # << >> /\ wire'[j] = Front(wire[j])
           \/ wire'[j] = wire[j] \o Line("cut")
  BY <1>1 DEF Continue, Crashed
<1>4. \A j \in Sends : wire'[j] = wire[j] \/ LinesOK(wire'[j], j, emitted, results, posts)
  <2> SUFFICES ASSUME NEW j \in Sends, wire'[j] # wire[j]
               PROVE  LinesOK(wire'[j], j, emitted, results, posts)
    OBVIOUS
  <2>1. LinesOK(wire[j], j, emitted, results, posts)
    BY <1>1 DEF WireOK
  <2>2. CASE wire[j] # << >> /\ wire'[j] = Front(wire[j])
    BY <1>1, <2>1, <2>2, FrontOK
  <2>3. CASE wire'[j] = wire[j] \o Line("cut")
    BY <1>1, <2>1, <2>3, LineOK, PlainOK
  <2> QED
    BY <1>3, <2>2, <2>3
<1>5. RefsAreOfLast' /\ PostsOK' /\ WireOK'
  BY <1>1, <1>3, <1>4, WireChanged
<1> QED
  BY <1>2, <1>5 DEF ChatInv

\* What the server does keeps the invariant.
LEMMA ServerStep ==
  ASSUME ChatInv, NEW k \in Sends, Server(k)
  PROVE  ChatInv'
<1> USE DEF canvasVars, panelVars, serverVars, ServerLeaves
<1>1. Typing /\ LastIsRead /\ RefsAreOfLast /\ PostsOK /\ WireOK
  BY DEF ChatInv
<1>2. ASSUME UNCHANGED <<sheet, api, asked, emitted, streams>>
      PROVE  Typing' /\ LastIsRead'
  BY <1>1, <1>2 DEF Typing, LastIsRead, UnderWay
<1>3. CASE HandleChat(k)
  <2>1. StreamsOnly
    BY <1>1, <1>3 DEF HandleChat, StreamsOnly, Typing, Stream, UnderWay
  <2>2. Typing' /\ LastIsRead'
    BY <1>1, <1>3, <2>1, StreamsKept DEF HandleChat, Typing
  <2>3. DOMAIN wire' = Sends /\ \A j \in Sends : j # k => wire'[j] = wire[j]
    BY <1>1, <1>3 DEF HandleChat, Sent, WireOK
  <2>4. wire'[k] = << >> \/ wire'[k] = wire[k] \o Line("start")
    BY <1>1, <1>3 DEF HandleChat, Sent, WireOK
  <2>5. LinesOK(wire[k], k, emitted, results, posts) /\ emitted \in Nat
    BY <1>1 DEF WireOK, Typing
  <2>6. LinesOK(wire'[k], k, emitted, results, posts)
    BY <2>4, <2>5, EmptyOK, LineOK, PlainOK
  <2>7. RefsAreOfLast' /\ PostsOK' /\ WireOK'
    BY <1>1, <1>3, <2>3, <2>6, WireChanged DEF HandleChat
  <2> QED
    BY <2>2, <2>7 DEF ChatInv
<1>4. CASE ProviderStreams(k)
  BY <1>4, EventStep
<1>5. CASE IterationEnds(k)
  <2>1. Sent(k, Line("end")) \/ Sent(k, Line("done") \o Line("end"))
    BY <1>5 DEF IterationEnds
  <2>2. RefsAreOfLast' /\ PostsOK' /\ WireOK'
    BY <1>5, <2>1, LineOK, EndOK, PlainSent DEF IterationEnds
  <2> QED
    BY <1>2, <1>5, <2>2 DEF IterationEnds, ChatInv
<1>6. CASE ProviderFails(k)
  <2>1. RefsAreOfLast' /\ PostsOK' /\ WireOK'
    BY <1>6, EndOK, PlainSent DEF ProviderFails
  <2> QED
    BY <1>2, <1>6, <2>1 DEF ProviderFails, ChatInv
<1>7. CASE ClientLeft(k)
  BY <1>7, Idle DEF ClientLeft
<1>8. CASE Continue(k)
  BY <1>8, ContinueStep
<1> QED
  BY <1>3, <1>4, <1>5, <1>6, <1>7, <1>8 DEF Server

\* A post that arrives or is lost.
LEMMA PostStep ==
  ASSUME ChatInv, NEW p \in posts, HandleToolResult(p) \/ PostLost(p)
  PROVE  ChatInv'
<1> USE DEF canvasVars, panelVars, serverVars
<1>1. /\ Typing /\ LastIsRead /\ RefsAreOfLast /\ PostsOK /\ WireOK
      /\ posts' = posts \ {p}
      /\ UNCHANGED <<sheet, api, asked, emitted, streams, reqId, results, wire>>
  BY DEF ChatInv, HandleToolResult, PostLost
<1>2. Typing' /\ LastIsRead' /\ RefsAreOfLast' /\ PostsOK'
  BY <1>1 DEF Typing, LastIsRead, RefsAreOfLast, PostsOK, UnderWay
<1>3. WireOK'
  BY <1>1, LessOK DEF WireOK
<1> QED
  BY <1>2, <1>3 DEF ChatInv

-----------------------------------------------------------------------------

\* Every step keeps the invariant.
LEMMA Inductive ==
  ASSUME ChatInv, [Next]_vars
  PROVE  ChatInv'
<1>1. CASE Next
  <2>1. ASSUME NEW c \in parsing, MermaidResolves(c)
        PROVE  ChatInv'
    BY <2>1, Idle DEF MermaidResolves, serverVars
  <2> QED
    BY <1>1, <2>1, UserStep, ClientStep, ErrorStep, ServerStep, PostStep DEF Next
<1>2. CASE UNCHANGED vars
  BY <1>2, Idle DEF vars
<1> QED
  BY <1>1, <1>2

\* A panel that has just been opened has asked nothing.
LEMMA Initially == Init => ChatInv
<1> SUFFICES ASSUME Init
             PROVE  ChatInv
  OBVIOUS
<1>1. Typing /\ LastIsRead
  BY ChatAssumption DEF Init, Typing, LastIsRead, NoStream, Stream, UnderWay
<1>2. RefsAreOfLast /\ PostsOK
  BY DEF Init, RefsAreOfLast, PostsOK
<1>3. WireOK
  BY EmptyOK DEF Init, WireOK
<1> QED
  BY <1>1, <1>2, <1>3 DEF ChatInv

\* The invariant holds at all times.
LEMMA Invariance == Spec => []ChatInv
<1>1. ChatInv /\ [Next]_vars => ChatInv'
  BY Inductive
<1> QED
  BY <1>1, Initially, PTL DEF Spec

-----------------------------------------------------------------------------
(* What the panel, its canvas and the loops hold.                           *)

\* Only questions that were asked have a stream, and a sheet it draws on.
AskedOK ==
  \A k \in Sends :
    /\ streams[k].at = "idle" <=> asked < k
    /\ k <= asked => streams[k].sheet \in Sheets

\* What is counted stays within its bound.
Bounded ==
  /\ clicks \in 0 .. MaxClicks /\ crashes \in 0 .. MaxCrashes /\ emitted \in 0 .. MaxEvents
  /\ api <= clicks + 1 /\ streaming \in BOOLEAN

\* What is drawn on a sheet is of a question that was asked there.
DrawingOK ==
  /\ results \cup tracked \cup parsing \cup drawn \subseteq (1 .. asked) \X (1 .. emitted) \X Tools
  /\ scene \in [Sheets -> SUBSET drawn]
  /\ \A s \in Sheets : \A c \in scene[s] : streams[c[1]].sheet = s

\* Only loops of questions that were asked wait or are to be continued, and
\* what is posted has a result in it.
LoopsOK ==
  /\ registry \subseteq 1 .. asked /\ conts \subseteq 1 .. asked
  /\ \A p \in posts : p.calls # {}

\* Requests that go on keep their sheet and their canvas.
GoOn ==
  /\ asked' = asked
  /\ \A k \in Sends :
       /\ streams'[k].sheet = streams[k].sheet /\ streams'[k].canvas = streams[k].canvas
       /\ streams'[k].at = "idle" <=> streams[k].at = "idle"
       /\ streams'[k].at = "sent" => streams[k].at = "sent"
       /\ UnderWay(k)' => UnderWay(k)
       /\ streams[k].gone => streams'[k].gone

\* Only handleSend begins a request; the others go on, or end.
LEMMA StreamsGoOn ==
  ASSUME ChatInv, [Next]_vars, ~ HandleSend
  PROVE  GoOn
<1> USE DEF canvasVars, panelVars, serverVars, ServerLeaves
<1>1. streams \in [Sends -> Stream]
  BY DEF ChatInv, Typing
<1>2. CASE asked' = asked /\ streams' = streams
  BY <1>2 DEF GoOn, UnderWay
<1>3. CASE asked' = asked /\ streams' = Aborted
  BY <1>1, <1>3 DEF GoOn, UnderWay, Aborted, Stream
<1>4. ASSUME NEW k \in Sends, OnComplete(k) \/ OnError(k)
      PROVE  GoOn
  BY <1>1, <1>4 DEF GoOn, UnderWay, Stream, OnComplete, OnError
<1>5. ASSUME NEW k \in Sends, HandleChat(k)
      PROVE  GoOn
  BY <1>1, <1>5 DEF GoOn, UnderWay, Stream, HandleChat
<1>6. CASE Logout
  BY <1>1, <1>6 DEF GoOn, UnderWay, Stream, Logout
<1>11. CASE Reload
  <2>1. asked' = asked /\ \A k \in Sends :
          /\ streams'[k] = [streams[k] EXCEPT !.gone = TRUE, !.at = IF UnderWay(k) THEN "over" ELSE @]
          /\ streams[k] \in Stream
    BY <1>1, <1>11 DEF Reload
  <2> QED
    BY <2>1 DEF GoOn, UnderWay, Stream
<1>7. CASE User
  BY <1>2, <1>3, <1>6, <1>7, <1>11 DEF User, MountCanvas, HandleSendNotReady, StopGenerating, ClearConversation,
       SwitchSheet, HandleUndoAI
<1>8. ASSUME NEW k \in Sends, Client(k) \/ OnError(k) \/ Server(k)
      PROVE  GoOn
  <2>1. CASE Server(k)
    BY <1>2, <1>5, <2>1 DEF Server, ProviderStreams, IterationEnds, ProviderFails, ClientLeft, Continue
  <2> QED
    BY <1>2, <1>4, <1>8, <2>1 DEF Client, Broken, OnStart, OnText, OnToolCall, OnDone, OnErrorEvent
<1>9. ASSUME NEW c \in parsing, MermaidResolves(c)
      PROVE  GoOn
  BY <1>2, <1>9 DEF MermaidResolves
<1>10. ASSUME NEW p \in posts, HandleToolResult(p) \/ PostLost(p)
       PROVE  GoOn
  BY <1>2, <1>10 DEF HandleToolResult, PostLost
<1> QED
  BY <1>2, <1>7, <1>8, <1>9, <1>10 DEF Next, vars

\* The question that is asked is the next one.
LEMMA SendFacts ==
  ASSUME ChatInv, HandleSend
  PROVE  /\ asked' = asked + 1 /\ asked' \in Sends /\ streams' \in [Sends -> Stream]
         /\ streams'[asked'] = [at |-> "sent", sheet |-> sheet, aborted |-> FALSE, canvas |-> api, gone |-> FALSE]
         /\ \A k \in Sends : k # asked' =>
              /\ streams'[k].sheet = streams[k].sheet /\ streams'[k].canvas = streams[k].canvas
              /\ streams'[k].at = streams[k].at /\ streams'[k].gone = streams[k].gone
<1> DEFINE n == asked + 1
           new == [at |-> "sent", sheet |-> sheet, aborted |-> FALSE, canvas |-> api, gone |-> FALSE]
<1>1. /\ n \in Sends /\ asked' = n
      /\ streams' = [Aborted EXCEPT ![n] = new] /\ new \in Stream /\ streams \in [Sends -> Stream]
  BY ChatAssumption DEF ChatInv, Typing, HandleSend, Captured, Stream, Sends
<1>2. \A k \in Sends : /\ Aborted[k].sheet = streams[k].sheet /\ Aborted[k].canvas = streams[k].canvas
                       /\ Aborted[k].at = streams[k].at /\ Aborted[k].gone = streams[k].gone
  BY <1>1 DEF Aborted, Stream
<1>3. Aborted \in [Sends -> Stream]
  BY AbortedStreams
<1> HIDE DEF n, new
<1>4. streams'[n] = new /\ \A k \in Sends : k # n => streams'[k] = Aborted[k]
  BY <1>1, <1>3
<1>5. streams' \in [Sends -> Stream]
  BY <1>1, <1>3
<1> QED
  BY <1>1, <1>2, <1>4, <1>5 DEF n, new

\* Every step keeps AskedOK.
LEMMA AskedStep ==
  ASSUME ChatInv, AskedOK, [Next]_vars
  PROVE  AskedOK'
<1>1. asked \in Nat /\ sheet \in Sheets
  BY DEF ChatInv, Typing
<1>2. CASE HandleSend
  BY <1>1, <1>2, SendFacts DEF AskedOK, Sends
<1>3. CASE ~ HandleSend
  BY <1>3, StreamsGoOn DEF AskedOK, GoOn
<1> QED
  BY <1>2, <1>3

\* Questions and events are only added, and a request stays on its sheet.
LEMMA Onward ==
  ASSUME ChatInv, [Next]_vars
  PROVE  /\ asked \in Nat /\ asked' \in Nat /\ asked <= asked' /\ asked' <= MaxSends
         /\ emitted \in Nat /\ emitted' \in Nat /\ emitted <= emitted'
         /\ \A k \in 1 .. asked : k \in Sends /\ streams'[k].sheet = streams[k].sheet
<1>1. /\ asked \in Nat /\ emitted \in Nat /\ emitted' \in Nat /\ asked' \in Nat
      /\ asked <= MaxSends /\ asked' <= MaxSends
  BY Inductive DEF ChatInv, Typing
<1>2. asked <= asked' /\ \A k \in 1 .. asked : k \in Sends /\ streams'[k].sheet = streams[k].sheet
  <2>1. CASE HandleSend
    BY <1>1, <2>1, SendFacts, ChatAssumption DEF Sends
  <2>2. CASE ~ HandleSend
    BY <1>1, <2>2, StreamsGoOn, ChatAssumption DEF GoOn, Sends
  <2> QED
    BY <2>1, <2>2
<1>3. emitted' = emitted \/ emitted' = emitted + 1
  <2>1. ASSUME User PROVE emitted' = emitted
    BY <2>1 DEF User, MountCanvas, HandleSendNotReady, HandleSend, StopGenerating, ClearConversation, Logout,
         Reload, SwitchSheet, HandleUndoAI, serverVars
  <2>2. ASSUME NEW k \in Sends, Client(k) \/ OnError(k) PROVE emitted' = emitted
    BY <2>2 DEF Client, OnStart, OnText, OnToolCall, OnDone, OnErrorEvent, OnComplete, Broken, OnError, serverVars
  <2>3. ASSUME NEW k \in Sends, Server(k) PROVE emitted' = emitted \/ emitted' = emitted + 1
    BY <2>3 DEF Server, HandleChat, ProviderStreams, IterationEnds, ProviderFails, ClientLeft, Continue, ServerLeaves
  <2>4. ASSUME NEW c \in parsing, MermaidResolves(c) PROVE emitted' = emitted
    BY <2>4 DEF MermaidResolves, serverVars
  <2>5. ASSUME NEW p \in posts, HandleToolResult(p) \/ PostLost(p) PROVE emitted' = emitted
    BY <2>5 DEF HandleToolResult, PostLost, serverVars
  <2> QED
    BY <2>1, <2>2, <2>3, <2>4, <2>5 DEF Next, vars, serverVars
<1> QED
  BY <1>1, <1>2, <1>3

\* Every step keeps the bounds.
LEMMA BoundedStep ==
  ASSUME ChatInv, Bounded, [Next]_vars
  PROVE  Bounded'
<1> USE DEF canvasVars, panelVars, serverVars, ServerLeaves
<1>1. /\ clicks \in 0 .. MaxClicks /\ crashes \in 0 .. MaxCrashes /\ emitted \in 0 .. MaxEvents
      /\ api \in Nat /\ api <= clicks + 1 /\ streaming \in BOOLEAN
      /\ MaxClicks \in Nat /\ MaxCrashes \in Nat /\ MaxEvents \in Nat
  BY ChatAssumption DEF Bounded, ChatInv, Typing
<1>2. CASE User
  <2>1. \/ api' = 1 /\ clicks' = clicks
        \/ Click /\ api' \in {0, api, api + 1}
    <3>1. CASE \E t \in Sheets : SwitchSheet(t)
      BY <3>1 DEF SwitchSheet, Remounted
    <3>2. CASE \E i \in 1 .. 2 * MaxClicks : HandleUndoAI(i)
      BY <3>2 DEF HandleUndoAI
    <3> QED
      BY <1>2, <3>1, <3>2 DEF User, MountCanvas, HandleSendNotReady, HandleSend, StopGenerating, ClearConversation,
         Logout, Reload, Remounted
  <2>2. streaming' \in BOOLEAN /\ UNCHANGED <<crashes, emitted>>
    BY <1>1, <1>2 DEF User, MountCanvas, HandleSendNotReady, HandleSend, StopGenerating, ClearConversation,
       Logout, Reload, SwitchSheet, HandleUndoAI
  <2> QED
    BY <1>1, <2>1, <2>2 DEF Bounded, Click
<1>3. ASSUME NEW k \in Sends, Client(k) \/ OnError(k)
      PROVE  Bounded'
  <2>1. UNCHANGED <<clicks, crashes, emitted, api>> /\ streaming' \in BOOLEAN
    BY <1>1, <1>3 DEF Client, OnStart, OnText, OnToolCall, OnDone, OnErrorEvent, OnComplete, Broken, OnError, Freed
  <2> QED
    BY <1>1, <2>1 DEF Bounded
<1>4. ASSUME NEW k \in Sends, Server(k)
      PROVE  Bounded'
  <2>1. UNCHANGED <<clicks, api, streaming>> /\ emitted' \in 0 .. MaxEvents /\ crashes' \in 0 .. MaxCrashes
    BY <1>1, <1>4 DEF Server, HandleChat, ProviderStreams, IterationEnds, ProviderFails, ClientLeft, Continue, Crashed
  <2> QED
    BY <1>1, <2>1 DEF Bounded
<1>5. ASSUME NEW c \in parsing, MermaidResolves(c)
      PROVE  Bounded'
  BY <1>1, <1>5 DEF MermaidResolves, Bounded
<1>6. ASSUME NEW p \in posts, HandleToolResult(p) \/ PostLost(p)
      PROVE  Bounded'
  BY <1>1, <1>6 DEF HandleToolResult, PostLost, Bounded
<1>7. CASE UNCHANGED vars
  BY <1>1, <1>7 DEF vars, Bounded
<1> QED
  BY <1>2, <1>3, <1>4, <1>5, <1>6, <1>7 DEF Next

\* Only loops of questions that were asked are registered, and continued.
LEMMA LoopsStep ==
  ASSUME ChatInv, AskedOK, LoopsOK, [Next]_vars
  PROVE  LoopsOK'
<1> USE DEF canvasVars, panelVars, serverVars, ServerLeaves
<1>1. /\ registry \subseteq 1 .. asked /\ conts \subseteq 1 .. asked /\ 1 .. asked \subseteq 1 .. asked'
      /\ \A p \in posts : p.calls # {}
  BY Onward DEF LoopsOK
<1>2. ASSUME registry' \subseteq 1 .. asked, conts' \subseteq 1 .. asked, posts' \subseteq posts
      PROVE  LoopsOK'
  BY <1>1, <1>2 DEF LoopsOK
<1>3. CASE User
  <2>1. UNCHANGED <<registry, conts, posts>>
    BY <1>3 DEF User, MountCanvas, HandleSendNotReady, HandleSend, StopGenerating, ClearConversation,
       Logout, Reload, SwitchSheet, HandleUndoAI
  <2> QED
    BY <1>1, <1>2, <2>1
<1>4. ASSUME NEW k \in Sends, Client(k) \/ OnError(k)
      PROVE  LoopsOK'
  <2>1. UNCHANGED <<registry, conts>>
    BY <1>4 DEF Client, OnStart, OnText, OnToolCall, OnDone, OnErrorEvent, OnComplete, Broken, OnError
  <2>2. UNCHANGED posts \/ FlushResults
    BY <1>4 DEF Client, OnStart, OnText, OnToolCall, OnDone, OnErrorEvent, OnComplete, Broken, OnError
  <2>3. \A p \in posts' : p \in posts \/ p.calls # {}
    BY <2>2 DEF FlushResults
  <2> QED
    BY <1>1, <2>1, <2>3 DEF LoopsOK
<1>5. ASSUME NEW k \in Sends, Server(k)
      PROVE  LoopsOK'
  <2>1. UNCHANGED posts
    BY <1>5 DEF Server, HandleChat, ProviderStreams, IterationEnds, ProviderFails, ClientLeft, Continue
  <2>2. CASE HandleChat(k)
    BY <1>1, <1>2, <2>1, <2>2, Onward DEF HandleChat, AskedOK, Sends
  <2>3. CASE ~ HandleChat(k)
    <3>1. registry' \subseteq registry /\ conts' \subseteq conts
      BY <1>5, <2>3 DEF Server, ProviderStreams, IterationEnds, ProviderFails, ClientLeft, Continue, Crashed
    <3> QED
      BY <1>1, <1>2, <2>1, <3>1
  <2> QED
    BY <2>2, <2>3
<1>6. ASSUME NEW c \in parsing, MermaidResolves(c)
      PROVE  LoopsOK'
  BY <1>1, <1>2, <1>6 DEF MermaidResolves
<1>7. ASSUME NEW p \in posts, HandleToolResult(p) \/ PostLost(p)
      PROVE  LoopsOK'
  BY <1>1, <1>2, <1>7 DEF HandleToolResult, PostLost
<1>8. CASE UNCHANGED vars
  BY <1>1, <1>2, <1>8 DEF vars
<1> QED
  BY <1>3, <1>4, <1>5, <1>6, <1>7, <1>8 DEF Next

\* A step that records and draws nothing new.
LEMMA DrawsNothing ==
  ASSUME ChatInv, DrawingOK, [Next]_vars,
         results' \subseteq results, tracked' \subseteq tracked, parsing' \subseteq parsing,
         UNCHANGED <<scene, drawn>>
  PROVE  DrawingOK'
<1> DEFINE old == (1 .. asked) \X (1 .. emitted) \X Tools
           new == (1 .. asked') \X (1 .. emitted') \X Tools
<1>1. old \subseteq new
  BY Onward
<1>2. results \cup tracked \cup parsing \cup drawn \subseteq old
  BY DEF DrawingOK
<1>3. \A c \in old : streams'[c[1]].sheet = streams[c[1]].sheet
  BY Onward
<1> HIDE DEF old, new
<1>4. results' \cup tracked' \cup parsing' \cup drawn' \subseteq new
  BY <1>1, <1>2
<1>5. \A s \in Sheets : \A c \in scene[s] : c \in old
  BY <1>2 DEF DrawingOK
<1> QED
  BY <1>3, <1>4, <1>5 DEF DrawingOK, new

\* A step that draws call c, or does not.
LEMMA DrawsOne ==
  ASSUME ChatInv, AskedOK, DrawingOK, [Next]_vars, NEW c \in (1 .. asked) \X (1 .. emitted) \X Tools,
         results' \subseteq results \cup {c}, parsing' \subseteq parsing \cup {c},
         Drawn(c) \/ NotDrawn
  PROVE  DrawingOK'
<1> DEFINE old == (1 .. asked) \X (1 .. emitted) \X Tools
           new == (1 .. asked') \X (1 .. emitted') \X Tools
<1>1. old \subseteq new
  BY Onward
<1>2. /\ results \cup tracked \cup parsing \cup drawn \subseteq old
      /\ \A s \in Sheets : scene[s] \subseteq drawn
      /\ scene \in [Sheets -> SUBSET drawn]
  BY DEF DrawingOK
<1>3. \A d \in old : streams'[d[1]].sheet = streams[d[1]].sheet /\ streams[d[1]].sheet \in Sheets
  BY Onward DEF AskedOK
<1>4. c \in old
  OBVIOUS
<1> HIDE DEF old, new
<1>5. drawn' \subseteq drawn \cup {c} /\ drawn \subseteq drawn' /\ tracked' \subseteq tracked \cup {c}
  BY DEF Drawn, NotDrawn
<1>6. results' \cup tracked' \cup parsing' \cup drawn' \subseteq new
  BY <1>1, <1>2, <1>4, <1>5
<1>7. \/ scene' = scene
      \/ scene' = [scene EXCEPT ![streams[c[1]].sheet] = @ \cup {c}] /\ c \in drawn'
  BY DEF Drawn, NotDrawn
<1>8. scene' \in [Sheets -> SUBSET drawn']
  BY <1>2, <1>3, <1>4, <1>5, <1>7
<1>9. \A s \in Sheets : \A d \in scene'[s] : d \in scene[s] \/ (d = c /\ streams[c[1]].sheet = s)
  BY <1>2, <1>7
<1>10. \A s \in Sheets : \A d \in scene'[s] : streams'[d[1]].sheet = s
  BY <1>2, <1>3, <1>4, <1>9 DEF DrawingOK
<1> QED
  BY <1>6, <1>8, <1>10 DEF DrawingOK, new

\* A step that records call c and takes away what is shown of els.
LEMMA DrawsLess ==
  ASSUME ChatInv, AskedOK, DrawingOK, [Next]_vars, NEW c \in (1 .. asked) \X (1 .. emitted) \X Tools,
         results' \subseteq results \cup {c}, parsing' \subseteq parsing \cup {c}, tracked' = tracked,
         NEW q \in Sheets, NEW els \in SUBSET scene[q],
         scene' = [scene EXCEPT ![q] = @ \ els], drawn' = drawn \ els
  PROVE  DrawingOK'
<1> DEFINE old == (1 .. asked) \X (1 .. emitted) \X Tools
           new == (1 .. asked') \X (1 .. emitted') \X Tools
<1>1. old \subseteq new /\ c \in old
  BY Onward
<1>2. /\ results \cup tracked \cup parsing \cup drawn \subseteq old
      /\ scene \in [Sheets -> SUBSET drawn]
      /\ \A s \in Sheets : \A d \in scene[s] : streams[d[1]].sheet = s
  BY DEF DrawingOK
<1>3. \A d \in old : streams'[d[1]].sheet = streams[d[1]].sheet
  BY Onward
<1> HIDE DEF old, new
<1>4. results' \cup tracked' \cup parsing' \cup drawn' \subseteq new
  BY <1>1, <1>2
<1>5. \A s \in Sheets : scene'[s] \subseteq scene[s] /\ (s = q => scene'[s] = scene[s] \ els)
  BY <1>2
<1>6. ASSUME NEW s \in Sheets, NEW d \in scene'[s]
      PROVE  d \in drawn' /\ streams'[d[1]].sheet = s
  <2>1. d \in scene[s] /\ d \in drawn /\ streams[d[1]].sheet = s
    BY <1>2, <1>5, <1>6
  <2>2. d \notin els
    BY <1>2, <1>5, <1>6, <2>1
  <2> QED
    BY <1>2, <1>3, <2>1, <2>2
<1>7. scene' \in [Sheets -> SUBSET drawn']
  BY <1>2, <1>6
<1> QED
  BY <1>4, <1>6, <1>7 DEF DrawingOK, new

\* Every step keeps what is drawn where it was asked for.
LEMMA DrawingStep ==
  ASSUME ChatInv, AskedOK, DrawingOK, [Next]_vars
  PROVE  DrawingOK'
<1> USE DEF canvasVars, panelVars, serverVars, ServerLeaves
<1>1. CASE Logout
  <2>1. /\ UNCHANGED <<asked, emitted, results, tracked, parsing, drawn>>
        /\ scene' = [t \in Sheets |-> {}]
    BY <1>1 DEF Logout
  <2> QED
    BY <2>1 DEF DrawingOK
<1>2. ASSUME NEW i, HandleUndoAI(i)
      PROVE  DrawingOK'
  <2> DEFINE made == talk[sheet][i].made
  <2>1. /\ UNCHANGED <<asked, emitted, streams, results, tracked, parsing>> /\ sheet \in Sheets
        /\ scene' = [scene EXCEPT ![sheet] = @ \ made] /\ drawn' = drawn \ (made \cap scene[sheet])
    BY <1>2 DEF HandleUndoAI, ChatInv, Typing
  <2> HIDE DEF made
  <2>2. scene \in [Sheets -> SUBSET drawn] /\ \A s \in Sheets : \A c \in scene[s] : streams[c[1]].sheet = s
    BY DEF DrawingOK
  <2>3. \A s \in Sheets : scene'[s] \subseteq scene[s] /\ (s = sheet => scene'[s] = scene[s] \ made)
    BY <2>1, <2>2
  <2>4. ASSUME NEW s \in Sheets, NEW c \in scene'[s]
        PROVE  c \in drawn'
    BY <2>1, <2>2, <2>3, <2>4
  <2>5. scene' \in [Sheets -> SUBSET drawn']
    BY <2>1, <2>2, <2>4
  <2> QED
    BY <2>1, <2>2, <2>3, <2>5 DEF DrawingOK
<1>3. CASE User /\ ~ Logout /\ ~ \E i \in 1 .. 2 * MaxClicks : HandleUndoAI(i)
  <2>1. /\ results' \subseteq results /\ tracked' \subseteq tracked /\ parsing' \subseteq parsing
        /\ UNCHANGED <<scene, drawn>>
    BY <1>3 DEF User, MountCanvas, HandleSendNotReady, HandleSend, StopGenerating, ClearConversation,
       Reload, SwitchSheet, Fresh
  <2> QED
    BY <2>1, DrawsNothing
<1>4. ASSUME NEW k \in Sends, OnToolCall(k)
      PROVE  DrawingOK'
  <2> DEFINE c == Head(wire[k]).call
  <2>1. /\ results' \subseteq results \cup {c} /\ parsing' \subseteq parsing \cup {c}
        /\ Drawn(c) \/ NotDrawn \/ Deleted(k)
        /\ IsTool(Head(wire[k]))
    BY <1>4 DEF OnToolCall, Arrived, IsTool
  <2>2. CallOf(c, k, emitted) /\ k = asked
    BY <1>4, <2>1, TailOK, ArrivedFacts DEF OnToolCall, ChatInv, Typing
  <2>3. c \in (1 .. asked) \X (1 .. emitted) \X Tools
    BY <2>2, Onward DEF CallOf, Sends
  <2> HIDE DEF c
  <2>4. CASE Deleted(k)
    <3>1. streams[k].sheet \in Sheets
      BY <2>2, Onward DEF AskedOK, ChatInv, Typing
    <3>2. PICK els \in SUBSET scene[streams[k].sheet] :
            /\ scene' = [scene EXCEPT ![streams[k].sheet] = @ \ els] /\ drawn' = drawn \ els
            /\ tracked' = tracked
      BY <2>4 DEF Deleted
    <3> QED
      BY <2>1, <2>3, <3>1, <3>2, DrawsLess
  <2> QED
    BY <2>1, <2>3, <2>4, DrawsOne
<1>5. ASSUME NEW k \in Sends, Client(k) \/ OnError(k), ~ OnToolCall(k)
      PROVE  DrawingOK'
  <2>1. /\ results' \subseteq results /\ tracked' \subseteq tracked /\ parsing' \subseteq parsing
        /\ UNCHANGED <<scene, drawn>>
    BY <1>5 DEF Client, OnStart, OnText, OnDone, OnErrorEvent, OnComplete, Broken, OnError, FlushResults
  <2> QED
    BY <2>1, DrawsNothing
<1>6. ASSUME NEW k \in Sends, Server(k)
      PROVE  DrawingOK'
  <2>1. UNCHANGED <<results, tracked, parsing, scene, drawn>>
    BY <1>6 DEF Server, HandleChat, ProviderStreams, IterationEnds, ProviderFails, ClientLeft, Continue
  <2> QED
    BY <2>1, DrawsNothing
<1>7. ASSUME NEW c \in parsing, MermaidResolves(c)
      PROVE  DrawingOK'
  <2>1. /\ c \in (1 .. asked) \X (1 .. emitted) \X Tools
        /\ results' \subseteq results \cup {c} /\ parsing' \subseteq parsing \cup {c}
        /\ Drawn(c) \/ NotDrawn
    BY <1>7 DEF MermaidResolves, DrawingOK
  <2> QED
    BY <2>1, DrawsOne
<1>8. ASSUME NEW p \in posts, HandleToolResult(p) \/ PostLost(p)
      PROVE  DrawingOK'
  BY <1>8, DrawsNothing DEF HandleToolResult, PostLost
<1>9. CASE UNCHANGED vars
  BY <1>9, DrawsNothing DEF vars
<1>10. CASE User
  BY <1>1, <1>2, <1>3, <1>10
<1> QED
  BY <1>4, <1>5, <1>6, <1>7, <1>8, <1>9, <1>10 DEF Next

-----------------------------------------------------------------------------
(* Users who wait. *)

\* Request k may still draw.
Active(k) == UnderWay(k) \/ \E c \in parsing : c[1] = k

\* It draws on the sheet that is open.
OnSheet(k) == api # 0 /\ streams[k].canvas = api /\ streams[k].sheet = sheet

\* So does every request that may still draw, but for those that a sign-out or a
\* reload has cut off from the sheets.
ActiveOnSheet == \A k \in Sends : Active(k) /\ ~ streams[k].gone => OnSheet(k)

\* A call that may be drawn now is of a question that was asked.
LEMMA CallFacts ==
  ASSUME ChatInv, NEW k \in Sends, OnToolCall(k)
  PROVE  /\ UnderWay(k) /\ Head(wire[k]).call[1] = k
         /\ Head(wire[k]).call \in (1 .. asked) \X (1 .. emitted) \X Tools
<1>1. UnderWay(k) /\ IsTool(Head(wire[k])) /\ Arrived(k, Tools)
  BY DEF OnToolCall, Arrived, Reads, IsTool, UnderWay
<1>2. k = asked /\ wire[k] # << >> /\ LinesOK(wire[k], k, emitted, results, posts) /\ emitted \in Nat
  BY <1>1, ArrivedFacts DEF ChatInv, Typing
<1>3. CallOf(Head(wire[k]).call, k, emitted)
  BY <1>1, <1>2, TailOK
<1> QED
  BY <1>1, <1>2, <1>3 DEF CallOf, Sends

\* As long as the user waits, requests under way draw on the open sheet.
LEMMA ActiveStep ==
  ASSUME ChatInv, AskedOK, DrawingOK, ActiveOnSheet, Patient, [Next]_vars
  PROVE  ActiveOnSheet'
<1> USE DEF canvasVars, panelVars, serverVars, ServerLeaves
<1>1. ASSUME ~ HandleSend, parsing' \subseteq parsing, UNCHANGED <<sheet, api>>
      PROVE  ActiveOnSheet'
  <2>1. \A k \in Sends : Active(k)' => Active(k)
    BY <1>1, StreamsGoOn DEF GoOn, Active
  <2> QED
    BY <1>1, <2>1, StreamsGoOn DEF GoOn, ActiveOnSheet, OnSheet
<1>2. CASE HandleSend
  <2>1. UNCHANGED <<sheet, api, parsing>> /\ api # 0
    BY <1>2 DEF HandleSend
  <2>2. \A k \in Sends : k # asked' => (Active(k)' => Active(k))
    BY <1>2, <2>1, SendFacts DEF Active, UnderWay
  <2> QED
    BY <1>2, <2>1, <2>2, SendFacts DEF ActiveOnSheet, OnSheet
<1>3. ASSUME ~ HandleSend, parsing' \subseteq parsing, \A k \in Sends : ~ (Active(k) /\ ~ streams[k].gone)
      PROVE  ActiveOnSheet'
  <2>1. \A k \in Sends : Active(k)' => Active(k)
    BY <1>3, StreamsGoOn DEF GoOn, Active
  <2> QED
    BY <1>3, <2>1, StreamsGoOn DEF GoOn, ActiveOnSheet
<1>4. CASE MountCanvas
  <2>1. api = 0 /\ parsing' = parsing /\ ~ HandleSend
    BY <1>4 DEF MountCanvas, HandleSend
  <2> QED
    BY <1>3, <2>1 DEF ActiveOnSheet, OnSheet
<1>5. ASSUME NEW t \in Sheets, SwitchSheet(t)
      PROVE  ActiveOnSheet'
  <2>1. parsing' = parsing /\ ~ Drawing /\ ~ HandleSend
    BY <1>5 DEF SwitchSheet, HandleSend
  <2>2. \A k \in Sends : ~ (Active(k) /\ ~ streams[k].gone)
    BY <2>1 DEF Drawing, Active
  <2> QED
    BY <1>3, <2>1, <2>2
<1>6. CASE Logout \/ Reload
  <2>1. \A k \in Sends : streams[k] \in Stream
    BY DEF ChatInv, Typing
  <2>2. CASE Logout
    BY <2>1, <2>2 DEF Logout, Stream, ActiveOnSheet
  <2>3. CASE Reload
    <3>1. \A k \in Sends : streams'[k] = [streams[k] EXCEPT !.gone = TRUE, !.at = IF UnderWay(k) THEN "over" ELSE @]
      BY <2>3 DEF Reload
    <3> QED
      BY <2>1, <3>1 DEF Stream, ActiveOnSheet
  <2> QED
    BY <1>6, <2>2, <2>3
<1>7. CASE User
  BY <1>1, <1>2, <1>4, <1>5, <1>6, <1>7 DEF User, HandleSendNotReady, StopGenerating, ClearConversation, HandleUndoAI
<1>8. ASSUME NEW k \in Sends, OnToolCall(k), ~ HandleSend
      PROVE  ActiveOnSheet'
  <2>1. /\ parsing' \subseteq parsing \cup {Head(wire[k]).call}
        /\ UNCHANGED <<sheet, api, streams>>
    BY <1>8 DEF OnToolCall
  <2>2. \A j \in Sends : Active(j)' => Active(j)
    BY <1>8, <2>1, CallFacts DEF Active, UnderWay
  <2> QED
    BY <2>1, <2>2 DEF ActiveOnSheet, OnSheet
<1>9. ASSUME NEW k \in Sends, Client(k) \/ OnError(k), ~ OnToolCall(k), ~ HandleSend
      PROVE  ActiveOnSheet'
  BY <1>1, <1>9 DEF Client, OnStart, OnText, OnDone, OnErrorEvent, OnComplete, Broken, OnError
<1>10. ASSUME NEW k \in Sends, Server(k), ~ HandleSend
       PROVE  ActiveOnSheet'
  BY <1>1, <1>10 DEF Server, HandleChat, ProviderStreams, IterationEnds, ProviderFails, ClientLeft, Continue
<1>11. ASSUME NEW c \in parsing, MermaidResolves(c), ~ HandleSend
       PROVE  ActiveOnSheet'
  BY <1>1, <1>11 DEF MermaidResolves
<1>12. ASSUME NEW p \in posts, HandleToolResult(p) \/ PostLost(p), ~ HandleSend
       PROVE  ActiveOnSheet'
  BY <1>1, <1>12 DEF HandleToolResult, PostLost
<1>13. CASE UNCHANGED vars /\ ~ HandleSend
  BY <1>1, <1>13 DEF vars
<1> QED
  BY <1>2, <1>7, <1>8, <1>9, <1>10, <1>11, <1>12, <1>13 DEF Next

\* What was drawn stays where it is as long as nobody removes it.
LEMMA StaysThere ==
  ASSUME ChatInv, DrawingOK, DrawnStays, [Next]_vars,
         NEW c \in drawn, streams[c[1]].gone \/ c \in scene'[streams[c[1]].sheet]
  PROVE  streams'[c[1]].gone \/ c \in scene'[streams'[c[1]].sheet]
<1>1. c[1] \in Sends /\ c[1] # asked + 1 /\ streams'[c[1]].sheet = streams[c[1]].sheet
  BY Onward DEF DrawingOK
<1>2. streams[c[1]].gone => streams'[c[1]].gone
  BY <1>1, StreamsGoOn, SendFacts DEF GoOn
<1> QED
  BY <1>1, <1>2

\* What was drawn stays on its sheet, whatever the next step is.
LEMMA DrawnStep ==
  ASSUME ChatInv, AskedOK, DrawingOK, ActiveOnSheet, DrawnStays, [Next]_vars
  PROVE  DrawnStays'
<1> USE DEF canvasVars, panelVars, serverVars, ServerLeaves
<1>1. ASSUME UNCHANGED <<scene, drawn>>
      PROVE  DrawnStays'
  BY <1>1, StaysThere DEF DrawnStays
<1>2. ASSUME NEW c, c \in (1 .. asked) \X (1 .. emitted) \X Tools, Active(c[1]), Drawn(c) \/ NotDrawn
      PROVE  DrawnStays'
  <2>1. CASE NotDrawn
    BY <1>1, <2>1 DEF NotDrawn
  <2>2. CASE Drawn(c)
    <3> DEFINE q == streams[c[1]].sheet
    <3>1. /\ c[1] \in Sends /\ q \in Sheets /\ drawn' = drawn \cup {c}
          /\ streams'[c[1]].sheet = q
      BY <1>2, <2>2, Onward DEF Drawn, AskedOK
    <3>2. scene \in [Sheets -> SUBSET drawn]
      BY DEF DrawingOK
    <3>3. streams[c[1]].gone \/ scene' = [scene EXCEPT ![q] = @ \cup {c}]
      BY <1>2, <2>2, <3>1 DEF Drawn, ActiveOnSheet, OnSheet
    <3>4. streams[c[1]].gone => streams'[c[1]].gone
      BY <1>2, <3>1, Onward, StreamsGoOn, SendFacts DEF GoOn
    <3>5. scene' = scene \/ scene' = [scene EXCEPT ![q] = @ \cup {c}]
      BY <2>2 DEF Drawn
    <3> HIDE DEF q
    <3>6. \A s \in Sheets : scene[s] \subseteq scene'[s]
      BY <3>1, <3>2, <3>5
    <3>7. streams'[c[1]].gone \/ c \in scene'[streams'[c[1]].sheet]
      BY <3>1, <3>2, <3>3, <3>4
    <3>8. ASSUME NEW d \in drawn
          PROVE  streams'[d[1]].gone \/ d \in scene'[streams'[d[1]].sheet]
      <4>1. streams[d[1]].sheet \in Sheets
        BY Onward DEF DrawingOK, AskedOK
      <4>2. streams[d[1]].gone \/ d \in scene'[streams[d[1]].sheet]
        BY <3>6, <4>1 DEF DrawnStays
      <4> QED
        BY <4>2, StaysThere
    <3> QED
      BY <3>1, <3>7, <3>8 DEF DrawnStays
  <2> QED
    BY <1>2, <2>1, <2>2
<1>3. CASE Logout
  <2>1. drawn' = drawn /\ \A k \in Sends : streams'[k].gone
    BY <1>3 DEF Logout, ChatInv, Typing, Stream
  <2> QED
    BY <2>1, Onward DEF DrawnStays, DrawingOK
<1>4. ASSUME NEW i, HandleUndoAI(i)
      PROVE  DrawnStays'
  <2> DEFINE made == talk[sheet][i].made
  <2>1. /\ streams' = streams /\ sheet \in Sheets /\ scene \in [Sheets -> SUBSET drawn]
        /\ scene' = [scene EXCEPT ![sheet] = @ \ made] /\ drawn' = drawn \ (made \cap scene[sheet])
    BY <1>4 DEF HandleUndoAI, ChatInv, Typing, DrawingOK
  <2> HIDE DEF made
  <2>2. \A c \in drawn : streams[c[1]].sheet \in Sheets
    BY Onward DEF DrawingOK, AskedOK
  <2> QED
    BY <2>1, <2>2 DEF DrawnStays
<1>5. CASE User
  BY <1>1, <1>3, <1>4, <1>5 DEF User, MountCanvas, HandleSendNotReady, HandleSend, StopGenerating,
     ClearConversation, Reload, SwitchSheet
<1>6. ASSUME NEW k \in Sends, OnToolCall(k)
      PROVE  DrawnStays'
  <2>1. Drawn(Head(wire[k]).call) \/ NotDrawn \/ Deleted(k)
    BY <1>6 DEF OnToolCall
  <2>2. Active(Head(wire[k]).call[1])
    BY <1>6, CallFacts DEF Active
  <2>3. CASE Deleted(k)
    <3> DEFINE q == streams[k].sheet
    <3>1. PICK els \in SUBSET scene[q] : scene' = [scene EXCEPT ![q] = @ \ els] /\ drawn' = drawn \ els
      BY <2>3 DEF Deleted
    <3> HIDE DEF q
    <3>2. scene \in [Sheets -> SUBSET drawn]
      BY DEF DrawingOK
    <3>3. ASSUME NEW d \in drawn'
          PROVE  streams'[d[1]].gone \/ d \in scene'[streams'[d[1]].sheet]
      <4>1. d \in drawn /\ d \notin els /\ streams[d[1]].sheet \in Sheets
        BY <3>1, <3>3, Onward DEF DrawingOK, AskedOK
      <4>2. streams[d[1]].gone \/ d \in scene'[streams[d[1]].sheet]
        BY <3>1, <3>2, <4>1 DEF DrawnStays
      <4> QED
        BY <4>1, <4>2, StaysThere
    <3> QED
      BY <3>3 DEF DrawnStays
  <2> QED
    BY <1>2, <1>6, <2>1, <2>2, <2>3, CallFacts
<1>7. ASSUME NEW k \in Sends, Client(k) \/ OnError(k), ~ OnToolCall(k)
      PROVE  DrawnStays'
  BY <1>1, <1>7 DEF Client, OnStart, OnText, OnDone, OnErrorEvent, OnComplete, Broken, OnError
<1>8. ASSUME NEW k \in Sends, Server(k)
      PROVE  DrawnStays'
  BY <1>1, <1>8 DEF Server, HandleChat, ProviderStreams, IterationEnds, ProviderFails, ClientLeft, Continue
<1>9. ASSUME NEW c \in parsing, MermaidResolves(c)
      PROVE  DrawnStays'
  BY <1>2, <1>9 DEF MermaidResolves, Active, DrawingOK
<1>10. ASSUME NEW p \in posts, HandleToolResult(p) \/ PostLost(p)
       PROVE  DrawnStays'
  BY <1>1, <1>10 DEF HandleToolResult, PostLost
<1>11. CASE UNCHANGED vars
  BY <1>1, <1>11 DEF vars
<1> QED
  BY <1>5, <1>6, <1>7, <1>8, <1>9, <1>10, <1>11 DEF Next

-----------------------------------------------------------------------------
(* Conversations. *)

\* A message: its answer (0 when it is no answer), its text, what it drew.
MsgType == [id : Nat, body : SUBSET Parts, made : SUBSET (Nat \X Nat \X Tools)]

\* The messages of a sheet after n questions: an answer has one message.
MsgsOK(m, n) ==
  /\ m \in Seq(MsgType)
  /\ \A i \in 1 .. Len(m) :
       /\ m[i].id <= n
       /\ \A j \in 1 .. Len(m) : m[i].id = m[j].id /\ m[i].id # 0 => i = j

\* So it is on every sheet.
TalkOK ==
  /\ talk \in [Sheets -> Seq(MsgType)]
  /\ \A s \in Sheets : MsgsOK(talk[s], asked)

\* Two sequences, one after the other.
LEMMA Joined ==
  ASSUME NEW S, NEW s \in Seq(S), NEW u \in Seq(S)
  PROVE  /\ s \o u \in Seq(S) /\ Len(s \o u) = Len(s) + Len(u)
         /\ \A i \in 1 .. Len(s) : (s \o u)[i] = s[i]
         /\ \A i \in 1 .. Len(u) : (s \o u)[Len(s) + i] = u[i]
<1>1. Len(s) \in Nat /\ Len(u) \in Nat /\ s \o u \in Seq(S) /\ Len(s \o u) = Len(s) + Len(u)
  OBVIOUS
<1>2. \A i \in 1 .. Len(s) : (s \o u)[i] = s[i]
  OBVIOUS
<1>3. ASSUME NEW i \in 1 .. Len(u)
      PROVE  (s \o u)[Len(s) + i] = u[i]
  <2>1. (s \o u)[Len(s) + i] = u[(Len(s) + i) - Len(s)]
    BY <1>1, <1>3
  <2>2. (Len(s) + i) - Len(s) = i
    BY <1>1, <1>3
  <2> QED
    BY <2>1, <2>2
<1> QED
  BY <1>1, <1>2, <1>3

\* A function on 1 .. n is a sequence.
LEMMA IsSequence ==
  ASSUME NEW S, NEW n \in Nat, NEW w \in [1 .. n -> S]
  PROVE  w \in Seq(S) /\ Len(w) = n
OBVIOUS

\* A question and what follows it are appended.
LEMMA AppendOK ==
  ASSUME NEW n \in Nat, NEW l \in Nat, n <= l, NEW m, MsgsOK(m, n),
         NEW a \in MsgType, a.id = 0 \/ (n < a.id /\ a.id <= l)
  PROVE  MsgsOK(m \o <<Question, a>>, l)
<1> DEFINE u == <<Question, a>>
           v == m \o u
<1>1. /\ m \in Seq(MsgType) /\ Len(m) \in Nat /\ u \in Seq(MsgType) /\ Len(u) = 2 /\ u[1].id = 0 /\ u[2] = a
  BY DEF MsgsOK, Question, MsgType, Parts
<1> HIDE DEF u
<1>2. /\ v \in Seq(MsgType) /\ Len(v) = Len(m) + 2
      /\ \A i \in 1 .. Len(m) : v[i] = m[i]
      /\ v[Len(m) + 1] = u[1] /\ v[Len(m) + 2] = a
  <2>1. /\ v \in Seq(MsgType) /\ Len(v) = Len(m) + Len(u)
        /\ \A i \in 1 .. Len(m) : v[i] = m[i]
        /\ \A i \in 1 .. Len(u) : v[Len(m) + i] = u[i]
    <3>1. m \in Seq(MsgType) /\ u \in Seq(MsgType)
      BY <1>1
    <3> QED
      BY <3>1, Joined
  <2> HIDE DEF v
  <2> QED
    BY <1>1, <2>1
<1> HIDE DEF v
<1>9. \A i \in 1 .. Len(m) : m[i] \in MsgType
  BY <1>1
<1>3. \A i \in 1 .. Len(m) : v[i] = m[i] /\ m[i].id <= n /\ m[i].id \in Nat
  BY <1>1, <1>2, <1>9 DEF MsgsOK, MsgType
<1>4. v[Len(m) + 1] = u[1] /\ v[Len(m) + 2] = a /\ a.id \in Nat
  BY <1>2 DEF MsgType
<1>5. \A i \in 1 .. Len(v) : i \in 1 .. Len(m) \/ i = Len(m) + 1 \/ i = Len(m) + 2
  BY <1>1, <1>2
<1>6. ASSUME NEW i \in 1 .. Len(v)
      PROVE  v[i].id <= l
  BY <1>1, <1>3, <1>4, <1>5
<1>7. ASSUME NEW i \in 1 .. Len(v), NEW j \in 1 .. Len(v), v[i].id = v[j].id, v[i].id # 0
      PROVE  i = j
  <2>1. i # Len(m) + 1 /\ j # Len(m) + 1
    BY <1>1, <1>4, <1>7
  <2>2. CASE i \in 1 .. Len(m) /\ j \in 1 .. Len(m)
    BY <1>3, <1>7, <2>2 DEF MsgsOK
  <2>3. i = Len(m) + 2 => ~ (j \in 1 .. Len(m))
    BY <1>3, <1>4, <1>7
  <2>4. j = Len(m) + 2 => ~ (i \in 1 .. Len(m))
    BY <1>3, <1>4, <1>7
  <2> QED
    BY <1>5, <2>1, <2>2, <2>3, <2>4
<1>8. MsgsOK(v, l)
  BY <1>2, <1>6, <1>7 DEF MsgsOK
<1> QED
  BY <1>8 DEF v, u

\* Messages that are in order stay so when more is asked.
LEMMA OlderOK ==
  ASSUME NEW n \in Nat, NEW l \in Nat, n <= l, NEW m, MsgsOK(m, n)
  PROVE  MsgsOK(m, l)
<1>1. m \in Seq(MsgType) /\ \A i \in 1 .. Len(m) : m[i] \in MsgType
  BY DEF MsgsOK
<1>2. \A i \in 1 .. Len(m) : m[i].id \in Nat
  BY <1>1 DEF MsgType
<1> QED
  BY <1>2 DEF MsgsOK

\* The message that takes answer k is written anew.
Written(m, k, b, d) == [i \in DOMAIN m |-> IF m[i].id = k THEN [m[i] EXCEPT !.body = b, !.made = d] ELSE m[i]]

\* The message is another one then, and the rest is as it was.
LEMMA WrittenOK ==
  ASSUME NEW n, NEW m, MsgsOK(m, n), NEW k, NEW b \in SUBSET Parts, NEW d \in SUBSET (Nat \X Nat \X Tools)
  PROVE  /\ MsgsOK(Written(m, k, b, d), n)
         /\ Len(Written(m, k, b, d)) = Len(m)
         /\ \A i \in 1 .. Len(m) :
              /\ Written(m, k, b, d)[i].id = m[i].id
              /\ m[i].id = k => Written(m, k, b, d)[i].body = b
              /\ m[i].id # k => Written(m, k, b, d)[i] = m[i]
<1> DEFINE w == Written(m, k, b, d)
<1>1. m \in Seq(MsgType) /\ Len(m) \in Nat /\ DOMAIN m = 1 .. Len(m) /\ \A i \in 1 .. Len(m) : m[i] \in MsgType
  BY DEF MsgsOK
<1>2. \A i \in 1 .. Len(m) : [m[i] EXCEPT !.body = b, !.made = d] \in MsgType
  BY <1>1 DEF MsgType
<1>3. \A i \in 1 .. Len(m) : [m[i] EXCEPT !.body = b, !.made = d].id = m[i].id
                            /\ [m[i] EXCEPT !.body = b, !.made = d].body = b
  BY <1>1 DEF MsgType
<1>4. /\ w \in [1 .. Len(m) -> MsgType]
      /\ \A i \in 1 .. Len(m) : w[i] = IF m[i].id = k THEN [m[i] EXCEPT !.body = b, !.made = d] ELSE m[i]
  BY <1>1, <1>2 DEF Written
<1> HIDE DEF w
<1>5. w \in Seq(MsgType) /\ Len(w) = Len(m)
  BY <1>1, <1>4, IsSequence
<1>6. \A i \in 1 .. Len(m) : /\ w[i].id = m[i].id
                             /\ m[i].id = k => w[i].body = b
                             /\ m[i].id # k => w[i] = m[i]
  BY <1>3, <1>4
<1>7. MsgsOK(w, n)
  BY <1>5, <1>6 DEF MsgsOK
<1> QED
  BY <1>5, <1>6, <1>7 DEF w

\* A step that writes the message of answer k.
LEMMA Writes ==
  ASSUME ChatInv, AskedOK, TalkOK, NEW k \in 1 .. asked, asked' = asked,
         NEW b \in SUBSET Parts, NEW d \in SUBSET (Nat \X Nat \X Tools), talk' = Amended(k, b, d)
  PROVE  /\ TalkOK'
         /\ \A s \in Sheets : /\ Len(talk'[s]) = Len(talk[s])
                              /\ s # streams[k].sheet => talk'[s] = talk[s]
         /\ \A s \in Sheets : \A i \in 1 .. Len(talk[s]) :
              /\ talk'[s][i].id = talk[s][i].id
              /\ talk[s][i].id = k /\ s = streams[k].sheet => talk'[s][i].body = b
              /\ talk[s][i].id # k => talk'[s][i] = talk[s][i]
<1> DEFINE q == streams[k].sheet
<1>1. q \in Sheets /\ talk \in [Sheets -> Seq(MsgType)]
  BY ChatAssumption DEF AskedOK, TalkOK, ChatInv, Typing, Sends
<1>2. talk' = [talk EXCEPT ![q] = Written(@, k, b, d)]
  BY DEF Amended, Written
<1> HIDE DEF q
<1>3. talk'[q] = Written(talk[q], k, b, d) /\ \A s \in Sheets : s # q => talk'[s] = talk[s]
  BY <1>1, <1>2
<1>4. MsgsOK(talk[q], asked)
  BY <1>1 DEF TalkOK
<1>5. /\ MsgsOK(talk'[q], asked) /\ Len(talk'[q]) = Len(talk[q])
      /\ \A i \in 1 .. Len(talk[q]) :
           /\ talk'[q][i].id = talk[q][i].id
           /\ talk[q][i].id = k => talk'[q][i].body = b
           /\ talk[q][i].id # k => talk'[q][i] = talk[q][i]
  BY <1>3, <1>4, WrittenOK
<1>6. Written(talk[q], k, b, d) \in Seq(MsgType)
  BY <1>3, <1>5 DEF MsgsOK
<1>7. talk' \in [Sheets -> Seq(MsgType)]
  BY <1>1, <1>2, <1>6
<1>8. \A s \in Sheets : MsgsOK(talk'[s], asked)
  BY <1>3, <1>5 DEF TalkOK
<1>9. TalkOK'
  BY <1>7, <1>8 DEF TalkOK
<1> QED
  BY <1>3, <1>5, <1>9 DEF q

-----------------------------------------------------------------------------
(* Words. *)

\* The types of the lines of s.
Types(s) == {s[i].t : i \in 1 .. Len(s)}

\* A request that has not reached the server has called nothing, and there is
\* no answer to it.
NotYet(k) == streams[k].at \in {"idle", "sent"} => loop[k] = "idle" /\ ~ tools[k] /\ wire[k] = << >>

\* done is not sent after a tool call, and ends the loop.
DoneIsLast(k) ==
  /\ Tools \cap Types(wire[k]) # {} => tools[k]
  /\ "done" \in Types(wire[k]) => loop[k] = "over" /\ ~ tools[k]

\* The progress of tools is reported once there has been a call.
ProgressIsReal ==
  \A s \in Sheets : \A i \in 1 .. Len(talk[s]) :
    talk[s][i].id # 0 /\ "progress" \in talk[s][i].body => tools[talk[s][i].id]

\* What the loops have said is what the answers may hold.
WordsOK ==
  /\ loop \in [Sends -> {"idle", "running", "over"}] /\ tools \in [Sends -> BOOLEAN]
  /\ \A k \in Sends : NotYet(k) /\ DoneIsLast(k)
  /\ ProgressIsReal

\* The message of answer k becomes b.
Rewrites(k, b) ==
  /\ "progress" \in b => tools[k]
  /\ "error" \in b \/ (IsLast(k) /\ ("posing" \in Message(k).body \/ Message(k).body \subseteq b))

\* The last message, if it is the one of answer k.
LEMMA LastMessage ==
  ASSUME ChatInv, AskedOK, TalkOK, NEW k \in 1 .. asked, IsLast(k)
  PROVE  /\ streams[k].sheet \in Sheets
         /\ Message(k) \in MsgType /\ Message(k).id = k
         /\ Len(talk[streams[k].sheet]) \in 1 .. Len(talk[streams[k].sheet])
         /\ Message(k) = talk[streams[k].sheet][Len(talk[streams[k].sheet])]
<1> DEFINE q == streams[k].sheet
<1>1. q \in Sheets
  BY ChatAssumption DEF AskedOK, ChatInv, Typing, Sends
<1>2. talk[q] \in Seq(MsgType) /\ talk[q] # << >> /\ Last(talk[q]).id = k
  BY <1>1 DEF IsLast, TalkOK
<1> HIDE DEF q
<1>3. Len(talk[q]) \in 1 .. Len(talk[q]) /\ talk[q][Len(talk[q])] \in MsgType
  BY <1>2
<1> QED
  BY <1>1, <1>2, <1>3 DEF Message, Last, q

\* The type of the next line.
LEMMA HeadType ==
  ASSUME NEW s \in Seq(Lines), s # << >>
  PROVE  Head(s).t \in Types(s)
<1>1. Len(s) \in Nat /\ 1 \in 1 .. Len(s) /\ Head(s) = s[1]
  OBVIOUS
<1> QED
  BY <1>1 DEF Types

\* What the panel reads leaves the conversations as they are, or writes the
\* message of its answer.
LEMMA Amendments ==
  ASSUME ChatInv, AskedOK, DrawingOK, TalkOK, WordsOK, NEW k \in Sends, Client(k) \/ OnError(k)
  PROVE  \/ talk' = talk
         \/ k <= asked /\ \E b \in SUBSET Parts, d \in SUBSET (Nat \X Nat \X Tools) :
              talk' = Amended(k, b, d) /\ Rewrites(k, b)
<1>1. asked \in Nat /\ emitted \in Nat /\ wire[k] \in Seq(Lines)
  BY DEF ChatInv, Typing, WireOK, LinesOK
<1>2. UnderWay(k) => k <= asked /\ k \in 1 .. asked
  BY <1>1 DEF AskedOK, UnderWay, Sends
<1>3. tracked \in SUBSET (Nat \X Nat \X Tools)
  BY <1>1 DEF DrawingOK
<1>4. IsLast(k) /\ UnderWay(k) =>
        /\ Message(k).body \in SUBSET Parts /\ Message(k).made \in SUBSET (Nat \X Nat \X Tools)
        /\ "progress" \in Message(k).body => tools[k]
  <2> SUFFICES ASSUME IsLast(k), UnderWay(k)
               PROVE  /\ Message(k).body \in SUBSET Parts /\ Message(k).made \in SUBSET (Nat \X Nat \X Tools)
                      /\ "progress" \in Message(k).body => tools[k]
    OBVIOUS
  <2> DEFINE q == streams[k].sheet
  <2>1. /\ q \in Sheets /\ Message(k) \in MsgType /\ Message(k).id = k /\ k # 0
        /\ Len(talk[q]) \in 1 .. Len(talk[q]) /\ Message(k) = talk[q][Len(talk[q])]
    BY <1>2, LastMessage DEF Sends
  <2> HIDE DEF q
  <2>2. "progress" \in Message(k).body => tools[k]
    BY <2>1 DEF WordsOK, ProgressIsReal
  <2> QED
    BY <2>1, <2>2 DEF MsgType
<1>5. ASSUME UnderWay(k), NEW b \in SUBSET Parts, NEW d \in SUBSET (Nat \X Nat \X Tools),
             talk' = Amended(k, b, d), Rewrites(k, b)
      PROVE  k <= asked /\ \E x \in SUBSET Parts, y \in SUBSET (Nat \X Nat \X Tools) :
               talk' = Amended(k, x, y) /\ Rewrites(k, x)
  BY <1>2, <1>5
<1>6. ASSUME NEW types, Arrived(k, types)
      PROVE  UnderWay(k) /\ Head(wire[k]).t \in types /\ Head(wire[k]).t \in Types(wire[k])
  BY <1>1, <1>6, HeadType DEF Arrived, Reads, UnderWay
<1>7. DoneIsLast(k)
  BY DEF WordsOK
<1>8. {"error"} \in SUBSET Parts /\ {"summary"} \in SUBSET Parts /\ {"progress"} \in SUBSET Parts
      /\ \A b \in SUBSET Parts, t \in {"text", "posing"} :
           Spoken(t, b) \in SUBSET Parts /\ b \subseteq Spoken(t, b)
           /\ ("progress" \in Spoken(t, b) => "progress" \in b)
  BY DEF Parts, Spoken
<1>9. Rewrites(k, {"error"})
  BY DEF Rewrites
<1>10. CASE OnText(k)
  <2>1. UnderWay(k)
    BY <1>6, <1>10 DEF OnText
  <2>2. CASE IsLast(k)
    <3>1. talk' = Amended(k, Spoken(Head(wire[k]).t, Message(k).body), Message(k).made)
      BY <1>10, <2>2 DEF OnText
    <3>2. Head(wire[k]).t \in {"text", "posing"}
      BY <1>6, <1>10 DEF OnText
    <3>3. /\ Spoken(Head(wire[k]).t, Message(k).body) \in SUBSET Parts
          /\ Rewrites(k, Spoken(Head(wire[k]).t, Message(k).body))
      BY <1>4, <1>8, <2>1, <2>2, <3>2 DEF Rewrites
    <3> QED
      BY <1>4, <1>5, <2>1, <2>2, <3>1, <3>3
  <2> QED
    BY <1>10, <2>2 DEF OnText
<1>11. CASE OnToolCall(k)
  <2>1. UnderWay(k) /\ tools[k]
    BY <1>6, <1>7, <1>11 DEF OnToolCall, DoneIsLast
  <2>2. CASE IsLast(k) /\ Message(k).body = {}
    <3>1. talk' = Amended(k, {"progress"}, {}) /\ Rewrites(k, {"progress"})
      BY <1>11, <2>1, <2>2 DEF OnToolCall, Rewrites
    <3> QED
      BY <1>5, <1>8, <2>1, <3>1
  <2> QED
    BY <1>11, <2>2 DEF OnToolCall
<1>12. CASE OnDone(k)
  <2>1. UnderWay(k) /\ ~ tools[k]
    BY <1>6, <1>7, <1>12 DEF OnDone, DoneIsLast
  <2>2. CASE IsLast(k)
    <3> DEFINE b == IF Message(k).body = {} \/ IsProgressMsg(Message(k).body) THEN {"summary"} ELSE Message(k).body
    <3>1. talk' = Amended(k, b, tracked)
      BY <1>12, <2>2 DEF OnDone
    <3>2. b \in SUBSET Parts /\ Rewrites(k, b)
      BY <1>4, <1>8, <2>1, <2>2 DEF Rewrites, IsProgressMsg
    <3> HIDE DEF b
    <3> QED
      BY <1>3, <1>5, <2>1, <3>1, <3>2
  <2> QED
    BY <1>12, <2>2 DEF OnDone
<1>13. CASE OnErrorEvent(k)
  <2>1. UnderWay(k)
    BY <1>6, <1>13 DEF OnErrorEvent
  <2>2. \/ IsLast(k) /\ talk' = Amended(k, {"error"}, Message(k).made)
        \/ talk' = Amended(k, {"error"}, {})
    BY <1>13 DEF OnErrorEvent
  <2> QED
    BY <1>4, <1>5, <1>8, <1>9, <2>1, <2>2
<1>14. CASE OnError(k)
  <2>1. UnderWay(k) /\ talk' = Amended(k, {"error"}, {})
    BY <1>14 DEF OnError
  <2> QED
    BY <1>5, <1>8, <1>9, <2>1
<1>15. CASE OnStart(k) \/ OnComplete(k)
  BY <1>15 DEF OnStart, OnComplete, canvasVars
<1> QED
  BY <1>10, <1>11, <1>12, <1>13, <1>14, <1>15 DEF Client, Broken

\* What a step may do to the conversations.
Appended(a) ==
  /\ talk' = [talk EXCEPT ![sheet] = @ \o <<Question, a>>]
  /\ a \in MsgType /\ "progress" \notin a.body
  /\ a.id = 0 \/ (asked < a.id /\ a.id <= asked')

\* Conversations are as they were, or empty.
Cleared == talk' = [s \in Sheets |-> talk'[s]] /\ \A s \in Sheets : talk'[s] = talk[s] \/ talk'[s] = << >>

\* The message of answer k is written anew.
Answered(k, b, d) == asked' = asked /\ talk' = Amended(k, b, d) /\ Rewrites(k, b)

\* Every step clears conversations, appends to one, or writes one message.
LEMMA TalkSteps ==
  ASSUME ChatInv, AskedOK, DrawingOK, TalkOK, WordsOK, [Next]_vars
  PROVE  \/ Cleared
         \/ \E a : Appended(a)
         \/ \E k \in 1 .. asked : \E b \in SUBSET Parts, d \in SUBSET (Nat \X Nat \X Tools) : Answered(k, b, d)
<1> USE DEF canvasVars, panelVars, serverVars, ServerLeaves
<1>1. talk \in [Sheets -> Seq(MsgType)] /\ asked \in Nat
  BY DEF TalkOK, ChatInv, Typing
<1>2. talk' = talk => Cleared
  BY <1>1 DEF Cleared
<1>3. CASE HandleSend
  <2>1. /\ talk' = [talk EXCEPT ![sheet] = @ \o <<Question, Placeholder(asked + 1)>>] /\ asked' = asked + 1
    BY <1>3 DEF HandleSend
  <2>2. /\ Placeholder(asked + 1) \in MsgType /\ Placeholder(asked + 1).body = {}
        /\ Placeholder(asked + 1).id = asked + 1
    BY <1>1 DEF Placeholder, MsgType
  <2> QED
    <3>1. Appended(Placeholder(asked + 1))
      BY <1>1, <2>1, <2>2 DEF Appended
    <3> QED
      BY <3>1
<1>4. CASE HandleSendNotReady
  <2>1. talk' = [talk EXCEPT ![sheet] = @ \o <<Question, NotReady>>]
    BY <1>4 DEF HandleSendNotReady
  <2>2. NotReady \in MsgType /\ NotReady.body = {"error"} /\ NotReady.id = 0
    BY DEF NotReady, MsgType, Parts
  <2> QED
    BY <2>1, <2>2 DEF Appended
<1>5. CASE ClearConversation \/ Logout
  BY <1>1, <1>5 DEF ClearConversation, Logout, Cleared
<1>6. CASE User
  BY <1>2, <1>3, <1>4, <1>5, <1>6 DEF User, MountCanvas, StopGenerating, Reload, SwitchSheet, HandleUndoAI
<1>7. ASSUME NEW k \in Sends, Client(k) \/ OnError(k)
      PROVE  Cleared \/ \E j \in 1 .. asked : \E b \in SUBSET Parts, d \in SUBSET (Nat \X Nat \X Tools) : Answered(j, b, d)
  <2>1. asked' = asked
    BY <1>7 DEF Client, Broken, OnStart, OnText, OnToolCall, OnDone, OnErrorEvent, OnComplete, OnError
  <2>2. k <= asked => k \in 1 .. asked
    BY <1>1 DEF Sends
  <2> QED
    BY <1>2, <1>7, <2>1, <2>2, Amendments DEF Answered
<1>8. ASSUME NEW k \in Sends, Server(k)
      PROVE  talk' = talk
  BY <1>8 DEF Server, HandleChat, ProviderStreams, IterationEnds, ProviderFails, ClientLeft, Continue
<1>9. ASSUME NEW c \in parsing, MermaidResolves(c)
      PROVE  talk' = talk
  BY <1>9 DEF MermaidResolves
<1>10. ASSUME NEW p \in posts, HandleToolResult(p) \/ PostLost(p)
       PROVE  talk' = talk
  BY <1>10 DEF HandleToolResult, PostLost
<1>11. UNCHANGED vars => talk' = talk
  BY DEF vars
<1> QED
  BY <1>2, <1>6, <1>7, <1>8, <1>9, <1>10, <1>11 DEF Next

\* What is appended comes after the rest.
LEMMA AppendedFacts ==
  ASSUME ChatInv, TalkOK, NEW a, Appended(a), asked' \in Nat, asked <= asked'
  PROVE  /\ TalkOK'
         /\ \A s \in Sheets : \A i \in 1 .. Len(talk[s]) : i \in 1 .. Len(talk'[s]) /\ talk'[s][i] = talk[s][i]
         /\ \A s \in Sheets : \A i \in 1 .. Len(talk'[s]) :
              i \in 1 .. Len(talk[s]) \/ talk'[s][i] \in {Question, a}
<1>1. /\ sheet \in Sheets /\ talk \in [Sheets -> Seq(MsgType)] /\ asked \in Nat
      /\ \A s \in Sheets : MsgsOK(talk[s], asked)
  BY DEF TalkOK, ChatInv, Typing
<1>2. /\ talk' = [talk EXCEPT ![sheet] = @ \o <<Question, a>>]
      /\ a \in MsgType
      /\ a.id = 0 \/ (asked < a.id /\ a.id <= asked')
  BY DEF Appended
<1>3. MsgsOK(talk[sheet] \o <<Question, a>>, asked')
  BY <1>1, <1>2, AppendOK
<1>4. \A s \in Sheets : s # sheet => talk'[s] = talk[s]
  BY <1>1, <1>2
<1>5. talk'[sheet] = talk[sheet] \o <<Question, a>>
  BY <1>1, <1>2
<1>6. \A s \in Sheets : MsgsOK(talk[s], asked')
  BY <1>1, OlderOK
<1>7. \A s \in Sheets : MsgsOK(talk'[s], asked')
  BY <1>3, <1>4, <1>5, <1>6
<1>8. talk' \in [Sheets -> Seq(MsgType)]
  BY <1>1, <1>2, <1>3 DEF MsgsOK
<1>9. /\ <<Question, a>> \in Seq(MsgType) /\ Len(<<Question, a>>) = 2
      /\ <<Question, a>>[1] = Question /\ <<Question, a>>[2] = a
  <2>1. Question \in MsgType /\ a \in MsgType
    BY <1>2 DEF Question, MsgType, Parts
  <2> QED
    BY <2>1
<1> DEFINE m == talk[sheet]
           u == <<Question, a>>
<1>10. m \in Seq(MsgType) /\ u \in Seq(MsgType)
  BY <1>1, <1>9
<1> HIDE DEF m, u
<1>11. /\ Len(m \o u) = Len(m) + Len(u) /\ Len(m) \in Nat
       /\ \A i \in 1 .. Len(m) : (m \o u)[i] = m[i]
       /\ \A i \in 1 .. Len(u) : (m \o u)[Len(m) + i] = u[i]
  BY <1>10, Joined
<1>12. Len(u) = 2 /\ u[1] = Question /\ u[2] = a
  BY <1>9 DEF u
<1>13. \A i \in 1 .. Len(m \o u) : i \in 1 .. Len(m) \/ i = Len(m) + 1 \/ i = Len(m) + 2
  BY <1>11, <1>12
<1>14. \A i \in 1 .. Len(m \o u) : i \in 1 .. Len(m) \/ (m \o u)[i] \in {Question, a}
  BY <1>11, <1>12, <1>13
<1>15. \A i \in 1 .. Len(m) : i \in 1 .. Len(m \o u) /\ (m \o u)[i] = m[i]
  BY <1>11, <1>12
<1>16. talk'[sheet] = m \o u /\ talk[sheet] = m
  BY <1>5 DEF m, u
<1>17. TalkOK'
  BY <1>7, <1>8 DEF TalkOK
<1> QED
  BY <1>4, <1>14, <1>15, <1>16, <1>17

\* Every step keeps the conversations in order.
LEMMA TalkStep ==
  ASSUME ChatInv, AskedOK, DrawingOK, TalkOK, WordsOK, [Next]_vars
  PROVE  TalkOK'
<1>1. talk \in [Sheets -> Seq(MsgType)] /\ \A s \in Sheets : MsgsOK(talk[s], asked)
  BY DEF TalkOK
<1>2. asked \in Nat /\ asked' \in Nat /\ asked <= asked'
  BY Onward
<1>3. CASE Cleared
  <2>1. \A s \in Sheets : MsgsOK(talk[s], asked')
    BY <1>1, <1>2, OlderOK
  <2>2. MsgsOK(<< >>, asked') /\ << >> \in Seq(MsgType)
    BY DEF MsgsOK
  <2>3. \A s \in Sheets : MsgsOK(talk'[s], asked')
    BY <1>3, <2>1, <2>2 DEF Cleared
  <2>4. \A s \in Sheets : talk'[s] \in Seq(MsgType)
    BY <2>3 DEF MsgsOK
  <2>5. talk' = [s \in Sheets |-> talk'[s]]
    BY <1>3 DEF Cleared
  <2> QED
    BY <2>3, <2>4, <2>5 DEF TalkOK
<1>4. ASSUME NEW a, Appended(a)
      PROVE  TalkOK'
  BY <1>2, <1>4, AppendedFacts
<1>5. ASSUME NEW k \in 1 .. asked, NEW b \in SUBSET Parts, NEW d \in SUBSET (Nat \X Nat \X Tools), Answered(k, b, d)
      PROVE  TalkOK'
  BY <1>5, Writes DEF Answered
<1> QED
  BY <1>3, <1>4, <1>5, TalkSteps

-----------------------------------------------------------------------------

\* Which types of lines a part of a response has ...
LEMMA TypesOfParts ==
  ASSUME NEW s \in Seq(Lines), s # << >>
  PROVE  Types(Tail(s)) \subseteq Types(s) /\ Types(Front(s)) \subseteq Types(s)
<1>1. Len(s) \in Nat /\ Len(s) # 0 /\ Tail(s) \in Seq(Lines) /\ Len(Tail(s)) = Len(s) - 1
  OBVIOUS
<1>2. \A i \in 1 .. Len(Tail(s)) : Tail(s)[i] = s[i + 1] /\ i + 1 \in 1 .. Len(s)
  BY <1>1
<1>3. Types(Tail(s)) \subseteq Types(s)
  BY <1>2 DEF Types
<1> DEFINE m == Len(s) - 1
<1>4. m \in Nat /\ m <= Len(s) /\ Front(s) = SubSeq(s, 1, m) /\ \A i \in 1 .. m : i \in 1 .. Len(s)
  BY <1>1 DEF Front
<1> HIDE DEF m
<1>5. Len(Front(s)) = m /\ \A i \in 1 .. m : Front(s)[i] = s[i]
  BY <1>4, PrefixOK
<1>6. Types(Front(s)) \subseteq Types(s)
  BY <1>4, <1>5 DEF Types
<1> QED
  BY <1>3, <1>6

\* ... or of two, one after the other ...
LEMMA TypesOfBoth ==
  ASSUME NEW s \in Seq(Lines), NEW u \in Seq(Lines)
  PROVE  Types(s \o u) \subseteq Types(s) \cup Types(u)
<1>1. /\ Len(s) \in Nat /\ Len(u) \in Nat /\ Len(s \o u) = Len(s) + Len(u)
      /\ \A i \in 1 .. Len(s) : (s \o u)[i] = s[i]
      /\ \A i \in 1 .. Len(u) : (s \o u)[Len(s) + i] = u[i]
  BY Joined
<1>2. ASSUME NEW i \in 1 .. Len(s \o u)
      PROVE  (s \o u)[i].t \in Types(s) \cup Types(u)
  <2>1. CASE i <= Len(s)
    <3>1. i \in 1 .. Len(s)
      BY <1>1, <1>2, <2>1
    <3> QED
      BY <1>1, <3>1 DEF Types
  <2>2. CASE i > Len(s)
    <3> DEFINE j == i - Len(s)
    <3>1. j \in 1 .. Len(u) /\ i = Len(s) + j
      BY <1>1, <1>2, <2>2
    <3> HIDE DEF j
    <3> QED
      BY <1>1, <3>1 DEF Types
  <2> QED
    BY <1>1, <2>1, <2>2
<1> QED
  BY <1>2 DEF Types

\* ... and those of a single line.
LEMMA TypesOfLines ==
  /\ Types(<< >>) = {}
  /\ \A l \in Lines : <<l>> \in Seq(Lines) /\ Types(<<l>>) = {l.t}
  /\ \A t \in {"start", "text", "posing", "done", "error", "end", "cut"} : Line(t) \in Seq(Lines) /\ Types(Line(t)) = {t}
<1>1. ASSUME NEW l
      PROVE  Types(<<l>>) = {l.t}
  <2>1. Len(<<l>>) = 1 /\ <<l>>[1] = l
    OBVIOUS
  <2>2. 1 .. 1 = {1}
    OBVIOUS
  <2> QED
    BY <2>1, <2>2 DEF Types
<1>2. Types(<< >>) = {}
  <2>1. Len(<< >>) = 0 /\ 1 .. 0 = {}
    OBVIOUS
  <2> QED
    BY <2>1 DEF Types
<1>3. ASSUME NEW t \in {"start", "text", "posing", "done", "error", "end", "cut"}
      PROVE  Line(t) \in Seq(Lines) /\ Types(Line(t)) = {t}
  <2>1. Line(t) = <<[t |-> t, call |-> <<0, 0, "">>]>>
    BY DEF Line
  <2> QED
    BY <1>1, <2>1, LineOK
<1>4. \A l \in Lines : <<l>> \in Seq(Lines)
  OBVIOUS
<1> QED
  BY <1>1, <1>2, <1>3, <1>4

\* A request that has not reached the server had not reached it before.
LEMMA NotYetBefore ==
  ASSUME ChatInv, AskedOK, [Next]_vars, NEW k \in Sends, streams'[k].at \in {"idle", "sent"}
  PROVE  streams[k].at \in {"idle", "sent"}
<1>1. CASE HandleSend
  <2>1. asked < asked'
    BY <1>1, SendFacts, Onward
  <2> QED
    BY <1>1, <2>1, SendFacts DEF AskedOK
<1>2. CASE ~ HandleSend
  BY <1>2, StreamsGoOn DEF GoOn
<1> QED
  BY <1>1, <1>2

\* Lines that are read or lost, and loops that stop, change nothing.
LEMMA OnlyLess ==
  ASSUME ChatInv, AskedOK, [Next]_vars, NEW k \in Sends, NotYet(k), DoneIsLast(k),
         \/ wire'[k] = wire[k]
         \/ wire'[k] = << >>
         \/ wire[k] # << >> /\ wire'[k] \in {Tail(wire[k]), Front(wire[k])},
         tools'[k] = tools[k], loop'[k] = loop[k] \/ loop[k] = "running"
  PROVE  NotYet(k)' /\ DoneIsLast(k)'
<1>1. wire[k] \in Seq(Lines)
  BY DEF ChatInv, WireOK, LinesOK
<1>2. NotYet(k)'
  BY NotYetBefore DEF NotYet
<1>3. Types(wire'[k]) \subseteq Types(wire[k])
  BY <1>1, TypesOfParts, TypesOfLines
<1>4. DoneIsLast(k)'
  BY <1>3 DEF DoneIsLast
<1> QED
  BY <1>2, <1>4

\* A loop that runs, or begins, sends lines of types T.
LEMMA LoopSends ==
  ASSUME ChatInv, AskedOK, [Next]_vars, NEW k \in Sends, NotYet(k), DoneIsLast(k),
         streams'[k].at \notin {"idle", "sent"}, loop[k] # "over",
         NEW u \in Seq(Lines), wire'[k] \in {<< >>, wire[k] \o u},
         tools[k] => tools'[k],
         Types(u) \cap Tools # {} => tools'[k],
         "done" \in Types(u) => loop'[k] = "over" /\ ~ tools'[k]
  PROVE  NotYet(k)' /\ DoneIsLast(k)'
<1>1. wire[k] \in Seq(Lines)
  BY DEF ChatInv, WireOK, LinesOK
<1>2. NotYet(k)'
  BY DEF NotYet
<1>3. Types(wire'[k]) \subseteq Types(wire[k]) \cup Types(u)
  BY <1>1, TypesOfBoth, TypesOfLines
<1>4. "done" \notin Types(wire[k])
  BY DEF DoneIsLast
<1>5. DoneIsLast(k)'
  BY <1>3, <1>4 DEF DoneIsLast
<1> QED
  BY <1>2, <1>5

\* A step that sends nothing.
LEMMA SendsNothing ==
  ASSUME ChatInv, AskedOK, WordsOK, [Next]_vars, UNCHANGED <<loop, tools>>,
         \A k \in Sends : \/ wire'[k] = wire[k]
                          \/ wire'[k] = << >>
                          \/ wire[k] # << >> /\ wire'[k] \in {Tail(wire[k]), Front(wire[k])}
  PROVE  \A k \in Sends : NotYet(k)' /\ DoneIsLast(k)'
BY OnlyLess DEF WordsOK

\* No step makes a loop that has called a tool send done.
LEMMA LinesStep ==
  ASSUME ChatInv, AskedOK, WordsOK, [Next]_vars
  PROVE  /\ \A k \in Sends : NotYet(k)' /\ DoneIsLast(k)'
         /\ \A k \in Sends : tools[k] => tools'[k]
         /\ loop' \in [Sends -> {"idle", "running", "over"}] /\ tools' \in [Sends -> BOOLEAN]
<1> USE DEF canvasVars, panelVars, serverVars, ServerLeaves
<1> DEFINE Fine == /\ \A k \in Sends : NotYet(k)' /\ DoneIsLast(k)'
                   /\ \A k \in Sends : tools[k] => tools'[k]
                   /\ loop' \in [Sends -> {"idle", "running", "over"}] /\ tools' \in [Sends -> BOOLEAN]
<1>1. /\ loop \in [Sends -> {"idle", "running", "over"}] /\ tools \in [Sends -> BOOLEAN]
      /\ \A k \in Sends : NotYet(k) /\ DoneIsLast(k)
      /\ DOMAIN wire = Sends /\ streams \in [Sends -> Stream]
  BY DEF WordsOK, ChatInv, WireOK, Typing
<1>2. ASSUME UNCHANGED <<loop, tools, wire>>
      PROVE  Fine
  BY <1>1, <1>2, SendsNothing
<1>3. ASSUME User
      PROVE  Fine
  <2>1. UNCHANGED <<loop, tools, wire>>
    BY <1>3 DEF User, MountCanvas, HandleSendNotReady, HandleSend, StopGenerating, ClearConversation, Logout,
       Reload, SwitchSheet, HandleUndoAI
  <2> QED
    BY <1>2, <2>1
<1>4. ASSUME NEW k \in Sends, Client(k) \/ OnError(k)
      PROVE  Fine
  <2>1. UNCHANGED <<loop, tools>>
    BY <1>4 DEF Client, Broken, OnStart, OnText, OnToolCall, OnDone, OnErrorEvent, OnComplete, OnError
  <2>2. \/ wire[k] # << >> /\ wire' = [wire EXCEPT ![k] = Tail(@)]
        \/ wire' = [wire EXCEPT ![k] = << >>]
    BY <1>4 DEF Client, Broken, OnStart, OnText, OnToolCall, OnDone, OnErrorEvent, OnComplete, OnError, Arrived
  <2>3. \A j \in Sends : \/ wire'[j] = wire[j]
                         \/ wire'[j] = << >>
                         \/ wire[j] # << >> /\ wire'[j] \in {Tail(wire[j]), Front(wire[j])}
    BY <1>1, <2>2
  <2> QED
    BY <1>1, <2>1, <2>3, SendsNothing
<1>5. ASSUME NEW k \in Sends, NEW u \in Seq(Lines), Sent(k, u),
             streams'[k].at \notin {"idle", "sent"}, loop[k] # "over",
             \A j \in Sends : j # k => loop'[j] = loop[j] /\ tools'[j] = tools[j],
             loop' \in [Sends -> {"idle", "running", "over"}], tools' \in [Sends -> BOOLEAN],
             tools[k] => tools'[k],
             Types(u) \cap Tools # {} => tools'[k],
             "done" \in Types(u) => loop'[k] = "over" /\ ~ tools'[k]
      PROVE  Fine
  <2>1. wire'[k] \in {<< >>, wire[k] \o u} /\ \A j \in Sends : j # k => wire'[j] = wire[j]
    BY <1>1, <1>5 DEF Sent
  <2>2. NotYet(k)' /\ DoneIsLast(k)'
    BY <1>1, <1>5, <2>1, LoopSends
  <2>3. \A j \in Sends : j # k => NotYet(j)' /\ DoneIsLast(j)'
    BY <1>1, <1>5, <2>1, OnlyLess
  <2> QED
    BY <1>5, <2>2, <2>3
<1> HIDE DEF Fine
<1>6. ASSUME NEW k \in Sends, loop[k] = "running"
      PROVE  streams[k].at \notin {"idle", "sent"}
  BY <1>1, <1>6 DEF NotYet
<1>7. ASSUME NEW k \in Sends, HandleChat(k)
      PROVE  Fine
  <2>1. /\ Sent(k, Line("start")) /\ loop' = [loop EXCEPT ![k] = "running"] /\ tools' = tools
        /\ streams'[k].at = "open" /\ loop[k] = "idle"
    BY <1>1, <1>7 DEF HandleChat, NotYet, Stream
  <2>2. Line("start") \in Seq(Lines) /\ Types(Line("start")) = {"start"}
    BY TypesOfLines
  <2> QED
    BY <1>1, <1>5, <2>1, <2>2 DEF Tools
<1>8. ASSUME NEW k \in Sends, ProviderStreams(k)
      PROVE  Fine
  <2>1. loop[k] = "running" /\ streams'[k].at \notin {"idle", "sent"} /\ loop' = loop
    BY <1>6, <1>8 DEF ProviderStreams
  <2>2. ASSUME NEW t \in {"text", "posing"}, Sent(k, Line(t)), tools' = tools
        PROVE  Fine
    <3>1. Line(t) \in Seq(Lines) /\ Types(Line(t)) = {t}
      BY TypesOfLines
    <3>2. Types(Line(t)) \cap Tools = {} /\ "done" \notin Types(Line(t))
      BY <3>1 DEF Tools
    <3> QED
      BY <1>1, <1>5, <2>1, <2>2, <3>1, <3>2
  <2>3. ASSUME NEW t \in Tools, Sent(k, <<[t |-> t, call |-> <<k, emitted', t>>]>>),
               tools' = [tools EXCEPT ![k] = TRUE]
        PROVE  Fine
    <3> DEFINE l == [t |-> t, call |-> <<k, emitted', t>>]
    <3>1. l \in Lines /\ l.t = t
      <4>1. k \in Nat /\ emitted \in Nat /\ emitted' = emitted + 1
        BY <1>8, Onward DEF ProviderStreams, Sends
      <4> QED
        BY <4>1, CallLine
    <3> HIDE DEF l
    <3>2. <<l>> \in Seq(Lines) /\ Types(<<l>>) = {t}
      BY <3>1, TypesOfLines
    <3>3. Sent(k, <<l>>)
      BY <2>3 DEF l
    <3>4. tools'[k] /\ tools' \in [Sends -> BOOLEAN] /\ \A j \in Sends : j # k => tools'[j] = tools[j]
      BY <1>1, <2>3
    <3> QED
      BY <1>1, <1>5, <2>1, <3>2, <3>3, <3>4 DEF Tools
  <2> QED
    BY <1>8, <2>2, <2>3 DEF ProviderStreams
<1>9. ASSUME NEW k \in Sends, NEW u, Ended(k), Sent(k, u), UNCHANGED <<streams, tools>>,
             \/ u = Line("end")
             \/ u = Line("error") \o Line("end")
             \/ u = Line("done") \o Line("end") /\ ~ tools[k]
      PROVE  Fine
  <2>1. /\ loop[k] = "running" /\ loop' = [loop EXCEPT ![k] = "over"]
        /\ streams'[k].at \notin {"idle", "sent"}
    BY <1>6, <1>9 DEF Ended
  <2>4. \A t \in {"done", "error"} : Line(t) \o Line("end") \in Seq(Lines) /\ Types(Line(t) \o Line("end")) \subseteq {t, "end"}
    <3>1. ASSUME NEW t \in {"done", "error"}
          PROVE  Line(t) \o Line("end") \in Seq(Lines) /\ Types(Line(t) \o Line("end")) \subseteq {t, "end"}
      <4>1. /\ Line(t) \in Seq(Lines) /\ Types(Line(t)) = {t}
            /\ Line("end") \in Seq(Lines) /\ Types(Line("end")) = {"end"}
        BY TypesOfLines
      <4> QED
        BY <4>1, EndOK, TypesOfBoth
    <3> QED
      BY <3>1
  <2>2. u \in Seq(Lines) /\ Types(u) \subseteq {"done", "error", "end"} /\ ("done" \in Types(u) => ~ tools[k])
    <3>1. Line("end") \in Seq(Lines) /\ Types(Line("end")) = {"end"}
      BY TypesOfLines
    <3>2. CASE u = Line("end")
      BY <3>1, <3>2
    <3>3. CASE u = Line("error") \o Line("end")
      <4>1. u \in Seq(Lines) /\ Types(u) \subseteq {"error", "end"}
        BY <2>4, <3>3, Zenon
      <4> QED
        BY <4>1
    <3>4. CASE u = Line("done") \o Line("end") /\ ~ tools[k]
      <4>1. u \in Seq(Lines) /\ Types(u) \subseteq {"done", "end"}
        BY <2>4, <3>4, Zenon
      <4> QED
        BY <3>4, <4>1
    <3> QED
      BY <1>9, <3>2, <3>3, <3>4
  <2>3. loop' \in [Sends -> {"idle", "running", "over"}] /\ loop'[k] = "over"
        /\ \A j \in Sends : j # k => loop'[j] = loop[j]
    BY <1>1, <2>1
  <2> QED
    BY <1>1, <1>5, <1>9, <2>1, <2>2, <2>3 DEF Tools
<1>10. ASSUME NEW k \in Sends, IterationEnds(k) \/ ProviderFails(k)
       PROVE  Fine
  BY <1>9, <1>10 DEF IterationEnds, ProviderFails
<1>11. ASSUME NEW k \in Sends, ClientLeft(k)
       PROVE  Fine
  <2>1. loop[k] = "running" /\ loop' = [loop EXCEPT ![k] = "over"] /\ UNCHANGED <<wire, tools>>
    BY <1>11 DEF ClientLeft, Ended
  <2>2. \A j \in Sends : NotYet(j)' /\ DoneIsLast(j)'
    BY <1>1, <2>1, OnlyLess
  <2> QED
    BY <1>1, <2>1, <2>2 DEF Fine
<1>12. ASSUME NEW k \in Sends, Continue(k)
       PROVE  Fine
  <2>1. tools' = tools /\ streams' = streams
    BY <1>12 DEF Continue
  <2>2. CASE UNCHANGED <<wire, loop>>
    BY <1>2, <2>1, <2>2 DEF Fine
  <2>3. CASE wire[k] # << >> /\ wire' = [wire EXCEPT ![k] = Front(@)] /\ loop' = loop
    <3>1. \A j \in Sends : \/ wire'[j] = wire[j]
                           \/ wire[j] # << >> /\ wire'[j] \in {Tail(wire[j]), Front(wire[j])}
      BY <1>1, <2>3
    <3> QED
      BY <1>1, <2>1, <2>3, <3>1, SendsNothing DEF Fine
  <2>4. CASE Crashed
    <3>1. /\ loop' \in [Sends -> {"idle", "running", "over"}]
          /\ \A j \in Sends : loop'[j] = IF loop[j] = "running" THEN "over" ELSE loop[j]
      BY <1>1, <2>4 DEF Crashed
    <3>2. ASSUME NEW j \in Sends
          PROVE  NotYet(j)' /\ DoneIsLast(j)'
      <4>1. CASE wire'[j] = wire[j]
        BY <1>1, <2>1, <3>1, <4>1, OnlyLess
      <4>2. CASE loop[j] = "running" /\ wire'[j] = wire[j] \o Line("cut")
        <5>1. Line("cut") \in Seq(Lines) /\ Types(Line("cut")) = {"cut"}
          BY TypesOfLines
        <5> QED
          BY <1>1, <1>6, <2>1, <4>2, <5>1, LoopSends DEF Tools
      <4> QED
        BY <2>4, <4>1, <4>2 DEF Crashed
    <3> QED
      BY <1>1, <2>1, <3>1, <3>2 DEF Fine
  <2> QED
    BY <1>12, <2>2, <2>3, <2>4 DEF Continue
<1>13. ASSUME NEW k \in Sends, Server(k)
       PROVE  Fine
  BY <1>7, <1>8, <1>10, <1>11, <1>12, <1>13 DEF Server
<1>14. ASSUME NEW c \in parsing, MermaidResolves(c)
       PROVE  Fine
  BY <1>2, <1>14 DEF MermaidResolves
<1>15. ASSUME NEW p \in posts, HandleToolResult(p) \/ PostLost(p)
       PROVE  Fine
  BY <1>2, <1>15 DEF HandleToolResult, PostLost
<1>16. ASSUME UNCHANGED vars
       PROVE  Fine
  BY <1>2, <1>16 DEF vars
<1>17. Fine
  BY <1>3, <1>4, <1>13, <1>14, <1>15, <1>16 DEF Next
<1> QED
  BY <1>17 DEF Fine

-----------------------------------------------------------------------------

\* A message stays in its place, with its number, until it is cleared.
LEMMA MessagesStay ==
  ASSUME ChatInv, AskedOK, DrawingOK, TalkOK, WordsOK, [Next]_vars,
         NEW s \in Sheets, talk'[s] # << >>, NEW i \in 1 .. Len(talk[s])
  PROVE  /\ i \in 1 .. Len(talk'[s]) /\ talk'[s][i].id = talk[s][i].id
         /\ \/ talk'[s][i].body = talk[s][i].body
            \/ "error" \in talk'[s][i].body
            \/ "posing" \in talk[s][i].body
            \/ talk[s][i].body \subseteq talk'[s][i].body
<1>1. asked \in Nat /\ asked' \in Nat /\ asked <= asked'
  BY Onward
<1>2. CASE Cleared
  BY <1>2 DEF Cleared
<1>3. ASSUME NEW a, Appended(a)
      PROVE  i \in 1 .. Len(talk'[s]) /\ talk'[s][i] = talk[s][i]
  BY <1>1, <1>3, AppendedFacts
<1>4. ASSUME NEW k \in 1 .. asked, NEW b \in SUBSET Parts, NEW d \in SUBSET (Nat \X Nat \X Tools), Answered(k, b, d)
      PROVE  /\ i \in 1 .. Len(talk'[s]) /\ talk'[s][i].id = talk[s][i].id
             /\ \/ talk'[s][i].body = talk[s][i].body
                \/ "error" \in talk'[s][i].body
                \/ "posing" \in talk[s][i].body
                \/ talk[s][i].body \subseteq talk'[s][i].body
  <2>1. /\ Len(talk'[s]) = Len(talk[s]) /\ talk'[s][i].id = talk[s][i].id
        /\ s # streams[k].sheet => talk'[s] = talk[s]
        /\ talk[s][i].id = k /\ s = streams[k].sheet => talk'[s][i].body = b
        /\ talk[s][i].id # k => talk'[s][i] = talk[s][i]
    BY <1>4, Writes DEF Answered
  <2>2. CASE "error" \in b
    BY <2>1, <2>2
  <2>3. CASE talk[s][i].id = k /\ s = streams[k].sheet /\ "error" \notin b
    <3>1. IsLast(k) /\ ("posing" \in Message(k).body \/ Message(k).body \subseteq b) /\ k # 0
      BY <1>4, <2>3 DEF Answered, Rewrites
    <3>2. Len(talk[s]) \in 1 .. Len(talk[s]) /\ Message(k) = talk[s][Len(talk[s])] /\ Message(k).id = k
      BY <2>3, <3>1, LastMessage
    <3>3. i = Len(talk[s])
      BY <2>3, <3>1, <3>2 DEF TalkOK, MsgsOK
    <3> QED
      BY <2>1, <2>3, <3>1, <3>2, <3>3
  <2> QED
    BY <2>1, <2>2, <2>3
<1> QED
  BY <1>2, <1>3, <1>4, TalkSteps

\* No step reports progress without a call.
LEMMA ProgressStep ==
  ASSUME ChatInv, AskedOK, DrawingOK, TalkOK, WordsOK, [Next]_vars
  PROVE  ProgressIsReal'
<1>1. asked \in Nat /\ asked' \in Nat /\ asked <= asked' /\ asked <= MaxSends
  BY Onward, ChatAssumption DEF ChatInv, Typing
<1>2. \A k \in Sends : tools[k] => tools'[k]
  BY LinesStep
<1>3. ASSUME NEW s \in Sheets, NEW i \in 1 .. Len(talk[s]), talk[s][i].id # 0, "progress" \in talk[s][i].body
      PROVE  tools'[talk[s][i].id]
  <2>1. talk[s][i] \in MsgType /\ talk[s][i].id <= asked
    BY DEF TalkOK, MsgsOK
  <2>2. talk[s][i].id \in Sends
    BY <1>1, <1>3, <2>1, ChatAssumption DEF MsgType, Sends
  <2> QED
    BY <1>2, <1>3, <2>2 DEF WordsOK, ProgressIsReal
<1>4. CASE Cleared
  BY <1>3, <1>4 DEF Cleared, ProgressIsReal
<1>5. ASSUME NEW a, Appended(a)
      PROVE  ProgressIsReal'
  <2>1. \A s \in Sheets : \A i \in 1 .. Len(talk'[s]) : i \in 1 .. Len(talk[s]) \/ talk'[s][i] \in {Question, a}
    BY <1>1, <1>5, AppendedFacts
  <2>2. \A s \in Sheets : \A i \in 1 .. Len(talk[s]) : talk'[s][i] = talk[s][i]
    BY <1>1, <1>5, AppendedFacts
  <2>3. "progress" \notin Question.body /\ "progress" \notin a.body
    BY <1>5 DEF Appended, Question
  <2> QED
    BY <1>3, <2>1, <2>2, <2>3 DEF ProgressIsReal
<1>6. ASSUME NEW k \in 1 .. asked, NEW b \in SUBSET Parts, NEW d \in SUBSET (Nat \X Nat \X Tools), Answered(k, b, d)
      PROVE  ProgressIsReal'
  <2>1. "progress" \in b => tools'[k]
    BY <1>1, <1>2, <1>6, ChatAssumption DEF Answered, Rewrites, Sends
  <2>2. ASSUME NEW s \in Sheets, NEW i \in 1 .. Len(talk'[s]), talk'[s][i].id # 0, "progress" \in talk'[s][i].body
        PROVE  tools'[talk'[s][i].id]
    <3>2. i \in 1 .. Len(talk[s])
      <4>1. Len(talk'[s]) = Len(talk[s])
        BY <1>6, Writes DEF Answered
      <4> QED
        BY <4>1
    <3>1. /\ talk'[s][i].id = talk[s][i].id
          /\ s # streams[k].sheet => talk'[s] = talk[s]
          /\ talk[s][i].id = k /\ s = streams[k].sheet => talk'[s][i].body = b
          /\ talk[s][i].id # k => talk'[s][i] = talk[s][i]
      BY <1>6, <3>2, Writes DEF Answered
    <3> QED
      BY <1>3, <2>1, <2>2, <3>1, <3>2
  <2> QED
    BY <2>2 DEF ProgressIsReal
<1> QED
  BY <1>4, <1>5, <1>6, TalkSteps

\* What the panel holds.
PanelInv == ChatInv /\ AskedOK /\ Bounded /\ DrawingOK /\ LoopsOK /\ TalkOK /\ WordsOK

\* Every step keeps what the panel holds.
LEMMA PanelStep ==
  ASSUME PanelInv, [Next]_vars
  PROVE  PanelInv'
<1>1. ChatInv /\ AskedOK /\ Bounded /\ DrawingOK /\ LoopsOK /\ TalkOK /\ WordsOK
  BY DEF PanelInv
<1>2. WordsOK'
  BY <1>1, LinesStep, ProgressStep DEF WordsOK
<1> QED
  BY <1>1, <1>2, Inductive, AskedStep, BoundedStep, DrawingStep, LoopsStep, TalkStep DEF PanelInv

\* A panel that has just been opened holds nothing.
LEMMA PanelInit == Init => PanelInv
<1> SUFFICES ASSUME Init
             PROVE  PanelInv
  OBVIOUS
<1>1. /\ Typing /\ asked = 0 /\ emitted = 0 /\ clicks = 0 /\ crashes = 0 /\ api = 0 /\ streaming = FALSE
      /\ results = {} /\ tracked = {} /\ parsing = {} /\ drawn = {} /\ posts = {}
      /\ scene = [s \in Sheets |-> {}] /\ talk = [s \in Sheets |-> << >>]
      /\ registry = {} /\ conts = {}
      /\ loop = [k \in Sends |-> "idle"] /\ tools = [k \in Sends |-> FALSE] /\ wire = [k \in Sends |-> << >>]
      /\ streams = [k \in Sends |-> NoStream]
  BY Initially DEF Init, ChatInv
<1>2. AskedOK
  BY <1>1 DEF AskedOK, NoStream, Sends
<1>3. Bounded
  <2>1. clicks \in 0 .. MaxClicks /\ crashes \in 0 .. MaxCrashes /\ emitted \in 0 .. MaxEvents /\ api <= clicks + 1
    <3>1. clicks = 0 /\ crashes = 0 /\ emitted = 0 /\ api = 0
      BY <1>1
    <3> QED
      BY <3>1, ChatAssumption
  <2>2. streaming \in BOOLEAN
    BY <1>1
  <2> QED
    BY <2>1, <2>2 DEF Bounded
<1>7. LoopsOK
  BY <1>1 DEF LoopsOK
<1>4. DrawingOK
  BY <1>1 DEF DrawingOK
<1>5. TalkOK
  BY <1>1 DEF TalkOK, MsgsOK
<1>6. WordsOK
  BY <1>1, TypesOfLines DEF WordsOK, NotYet, DoneIsLast, ProgressIsReal
<1> QED
  BY <1>2, <1>3, <1>4, <1>5, <1>6, <1>7, Initially DEF PanelInv

\* The panel holds it at all times.
LEMMA PanelHolds == Spec => []PanelInv
BY PanelInit, PanelStep, PTL DEF Spec

\* It implies the type invariant.
LEMMA PanelTypes == PanelInv => ChatTypeOK
<1> SUFFICES ASSUME PanelInv
             PROVE  ChatTypeOK
  OBVIOUS
<1>1. ChatInv /\ AskedOK /\ Bounded /\ DrawingOK /\ LoopsOK /\ TalkOK /\ WordsOK
  BY DEF PanelInv
<1>2. asked \in 0 .. MaxSends /\ emitted \in 0 .. MaxEvents /\ sheet \in Sheets /\ reqId \in {0, asked}
  BY <1>1, ChatAssumption DEF ChatInv, Typing, Bounded, RefsAreOfLast
<1>3. (1 .. asked) \X (1 .. emitted) \X Tools \subseteq Calls
  BY <1>2, ChatAssumption DEF Calls, Sends
<1>4. tracked \subseteq Calls /\ parsing \subseteq Calls /\ drawn \subseteq Calls /\ results \subseteq Calls
  BY <1>1, <1>3 DEF DrawingOK
<1>5. \A p \in posts : p.req \in Sends /\ p.calls # {} /\ p.calls \subseteq Calls
  <2> SUFFICES ASSUME NEW p \in posts
               PROVE  p.req \in Sends /\ p.calls # {} /\ p.calls \subseteq Calls
    OBVIOUS
  <2>1. p \in Post /\ p.calls # {} /\ \A c \in p.calls : CallOf(c, p.req, emitted)
    BY <1>1 DEF ChatInv, PostsOK, LoopsOK
  <2>2. p.req \in Sends
    BY <2>1 DEF Post
  <2> QED
    BY <1>2, <2>1, <2>2, ChatAssumption DEF CallOf, Calls
<1>6. \A s \in Sheets : \A i \in DOMAIN talk[s] : talk[s][i].id \in 0 .. asked /\ talk[s][i].body \subseteq Parts
  <2> SUFFICES ASSUME NEW s \in Sheets, NEW i \in DOMAIN talk[s]
               PROVE  talk[s][i].id \in 0 .. asked /\ talk[s][i].body \subseteq Parts
    OBVIOUS
  <2>1. i \in 1 .. Len(talk[s]) /\ talk[s][i] \in MsgType /\ talk[s][i].id <= asked
    BY <1>1 DEF TalkOK, MsgsOK
  <2> QED
    BY <1>2, <2>1 DEF MsgType
<1>7. api \in 0 .. MaxClicks + 1 /\ streaming \in BOOLEAN /\ crashes \in 0 .. MaxCrashes /\ clicks \in 0 .. MaxClicks
  BY <1>1, ChatAssumption DEF Bounded, ChatInv, Typing
<1>8. /\ \A s \in Sheets : scene[s] \subseteq drawn
      /\ registry \subseteq 1 .. asked /\ conts \subseteq 1 .. asked
  BY <1>1 DEF DrawingOK, LoopsOK
<1> QED
  BY <1>2, <1>4, <1>5, <1>6, <1>7, <1>8 DEF ChatTypeOK

\* No step replaces words by anything but an error.
LEMMA WordsStep ==
  ASSUME PanelInv, [Next]_vars, NEW s \in Sheets, NEW k \in Sends, Told(s, k), Held(s, k)'
  PROVE  \E i \in DOMAIN talk'[s] : talk'[s][i].id = k /\ talk'[s][i].body \cap {"text", "error"} # {}
<1>1. ChatInv /\ AskedOK /\ DrawingOK /\ TalkOK /\ WordsOK /\ TalkOK'
  BY PanelStep DEF PanelInv
<1>2. DOMAIN talk[s] = 1 .. Len(talk[s]) /\ DOMAIN talk'[s] = 1 .. Len(talk'[s]) /\ talk'[s] # << >>
  BY <1>1 DEF TalkOK, Held
<1>3. PICK i \in 1 .. Len(talk[s]) :
        talk[s][i].id = k /\ "text" \in talk[s][i].body /\ "posing" \notin talk[s][i].body
  BY <1>2 DEF Told
<1>4. /\ i \in 1 .. Len(talk'[s]) /\ talk'[s][i].id = k
      /\ "text" \in talk'[s][i].body \/ "error" \in talk'[s][i].body
  BY <1>1, <1>2, <1>3, MessagesStay
<1> QED
  BY <1>2, <1>4

-----------------------------------------------------------------------------

\* Only the last question is read.
LEMMA ReadsOne == ChatInv => OneStream
BY DEF ChatInv, LastIsRead, OneStream

\* What is posted is of its loop, and nowhere else.
LEMMA PostsAreSound == ChatInv => ResultsReachTheirLoop
BY DEF ChatInv, PostsOK, CallOf, ResultsReachTheirLoop

\* Whatever the user stops, clears, signs out of or asks next, at most one
\* stream draws: handleSend aborts the last one (AIChatPanel.tsx:190).
THEOREM OneStreamHolds == Spec => []OneStream
BY Invariance, ReadsOne, PTL

\* A tool result is posted once, and to the loop whose call it answers, though
\* iterResultsRef and requestIdRef are shared by all requests.
THEOREM ResultsReachTheirLoopHolds == Spec => []ResultsReachTheirLoop
BY Invariance, PostsAreSound, PTL

\* The bounds and types of everything the panel and the agent loop keep, among
\* them that the request id is null or the last question's, however often the
\* server crashes.
THEOREM ChatTypesHold == Spec => []ChatTypeOK
BY PanelHolds, PanelTypes, PTL

\* The words of an answer stay until an error takes their place or the user
\* clears the conversation: the summary of onDone (AIChatPanel.tsx) is only
\* written over an empty message, because HandleChat sends no done after a call,
\* or over words that begin like the progress line, which onDone mistakes for it.
THEOREM WordsStayHolds == Spec => WordsStay
<1>1. PanelInv /\ [Next]_vars =>
        [\A s \in Sheets, k \in Sends : Told(s, k) /\ Held(s, k)' =>
           \E i \in DOMAIN talk'[s] : talk'[s][i].id = k /\ talk'[s][i].body \cap {"text", "error"} # {}]_vars
  BY WordsStep
<1> QED
  BY <1>1, PanelHolds, PTL DEF Spec, WordsStay

\* What a tool drew for a user who does not leave the sheet meanwhile is on that
\* sheet until it is undone or a tool deletes it: no request holds a canvas that
\* has been replaced.
THEOREM DrawnStaysHolds ==
  ASSUME Patient
  PROVE  Spec => []DrawnStays
<1> DEFINE Inv == PanelInv /\ ActiveOnSheet /\ DrawnStays
<1>1. Init => Inv
  <2> SUFFICES ASSUME Init
               PROVE  Inv
    OBVIOUS
  <2>1. parsing = {} /\ drawn = {} /\ streams = [k \in Sends |-> NoStream]
    BY DEF Init
  <2> QED
    BY <2>1, PanelInit DEF ActiveOnSheet, Active, UnderWay, NoStream, DrawnStays
<1>2. Inv /\ [Next]_vars => Inv'
  BY PanelStep, ActiveStep, DrawnStep DEF PanelInv
<1>3. Inv => DrawnStays
  OBVIOUS
<1> HIDE DEF Inv
<1> QED
  BY <1>1, <1>2, <1>3, PTL DEF Spec
=============================================================================
