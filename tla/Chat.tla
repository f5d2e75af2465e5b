-------------------------------- MODULE Chat --------------------------------
(***************************************************************************)
(* The AI assistant: the chat panel (AIChatPanel.tsx), the store of the    *)
(* conversations (useAIChatStore.ts), the client of the stream             *)
(* (aiService.ts) and the agent loop behind it (internal/ai/handler.go,    *)
(* agent_loop.go, agent_registry.go).                                      *)
(*                                                                         *)
(* Questions are numbered in the order they are asked; number k stands for *)
(* the request, for its stream and for the message that takes its answer.  *)
(* A tool call <<k, n, t>> is an event of request k and a call of tool t;  *)
(* it stands for what it draws too.  Of a message's text only its parts    *)
(* are kept, and whether it begins as the panel's progress line does.      *)
(***************************************************************************)
EXTENDS Naturals, Sequences, FiniteSets, SequencesExt

CONSTANTS
  Sheets,      \* the tabs of the file that is open
  Patient,     \* TRUE: nobody changes the sheet while one is being drawn on
  MaxSends,    \* bound on the questions asked
  MaxEvents,   \* bound on what the provider streams, for all questions
  MaxCrashes,  \* bound on the crashes of the server process
  MaxClicks    \* bound on what the user does

\* A file has a sheet at all times.
ASSUME ChatAssumption ==
  /\ Sheets # {} /\ Patient \in BOOLEAN
  /\ MaxSends \in Nat /\ MaxEvents \in Nat /\ MaxCrashes \in Nat /\ MaxClicks \in Nat

VARIABLES
  sheet,      \* the sheet on the canvas
  api,        \* excalidrawAPI: the canvas mounted last, counted; 0 for none
  scene,      \* what the assistant drew, by sheet
  talk,       \* the conversations, by sheet
  asked,      \* questions asked so far
  streams,    \* what the client knows of each request
  streaming,  \* the store's isStreaming: no question can be asked
  reqId,      \* requestIdRef, 0 for null
  results,    \* iterResultsRef: calls whose results are still to be posted
  tracked,    \* trackedElementIds
  parsing,    \* convert_mermaid calls whose parser has not resolved
  drawn,      \* what updateScene was called with, until it is taken away
  posts,      \* tool results on their way to the server
  wire,       \* the lines of each response that are not read yet
  loop,       \* the server's HandleChat, by request
  emitted,    \* events the provider streamed
  tools,      \* hasToolCalls, by request
  registry,   \* agentReg
  conts,      \* loops that tool results are about to continue
  crashes,
  clicks

canvasVars == <<sheet, api, scene>>
panelVars == <<streaming, reqId, results, tracked, parsing, drawn, posts>>
serverVars == <<loop, emitted, tools, registry, conts, crashes>>
vars == <<sheet, api, scene, talk, asked, streams, streaming, reqId, results,
          tracked, parsing, drawn, posts, wire, loop, emitted, tools, registry,
          conts, crashes, clicks>>

Sends == 1 .. MaxSends
Tools == {"create", "mermaid", "delete"}
Calls == Sends \X (1 .. MaxEvents) \X Tools
NoStream == [at |-> "idle", sheet |-> 0, aborted |-> FALSE, canvas |-> 0, gone |-> FALSE]

Init ==
  /\ sheet = (CHOOSE s \in Sheets : TRUE) /\ api = 0
  /\ scene = [s \in Sheets |-> {}]
  /\ talk = [s \in Sheets |-> << >>]
  /\ asked = 0
  /\ streams = [k \in Sends |-> NoStream]
  /\ streaming = FALSE /\ reqId = 0 /\ results = {} /\ tracked = {}
  /\ parsing = {} /\ drawn = {} /\ posts = {}
  /\ wire = [k \in Sends |-> << >>]
  /\ loop = [k \in Sends |-> "idle"]
  /\ emitted = 0
  /\ tools = [k \in Sends |-> FALSE]
  /\ registry = {} /\ conts = {} /\ crashes = 0 /\ clicks = 0

---------------------------------------------------------------------------
(* Messages and the refs of the panel.                                     *)

UnderWay(k) == streams[k].at \in {"sent", "open"}

Drawing == (\E k \in Sends : UnderWay(k) /\ ~ streams[k].gone)
           \/ (\E c \in parsing : ~ streams[c[1]].gone)

Click == clicks < MaxClicks /\ clicks' = clicks + 1

Question == [id |-> 0, body |-> {"question"}, made |-> {}]
NotReady == [id |-> 0, body |-> {"error"}, made |-> {}]
Placeholder(k) == [id |-> k, body |-> {}, made |-> {}]

IsLast(k) ==
  LET msgs == talk[streams[k].sheet] IN msgs # << >> /\ Last(msgs).id = k

\* updateLastMessage: the message is found by its id, wherever it stands
Amended(k, body, made) ==
  [talk EXCEPT ![streams[k].sheet] =
     [i \in DOMAIN @ |-> IF @[i].id = k
                         THEN [@[i] EXCEPT !.body = body, !.made = made] ELSE @[i]]]

Message(k) == Last(talk[streams[k].sheet])

\* flushResults
FlushResults ==
  IF results = {} \/ reqId = 0 THEN UNCHANGED <<results, posts>>
  ELSE /\ posts' = posts \cup {[req |-> reqId, calls |-> results]}
       /\ results' = {}

\* Mutants: what the last question left behind is kept.
FreshId == results' = {} /\ UNCHANGED reqId
FreshResults == reqId' = 0 /\ UNCHANGED results

\* per-request state, reset by handleSend
Fresh == reqId' = 0 /\ results' = {}

\* Mutant: only the Stop button aborts.
NothingAborted == streams

\* abortControllerRef holds the controller of the last question only.
Aborted == [k \in Sends |-> IF k = asked THEN [streams[k] EXCEPT !.aborted = TRUE] ELSE streams[k]]

---------------------------------------------------------------------------
(* What the user does.                                                     *)

MountCanvas ==
  /\ api = 0 /\ api' = 1
  /\ UNCHANGED <<sheet, scene, talk, asked, streams, panelVars, wire, serverVars, clicks>>

HandleSendNotReady ==
  /\ api = 0 /\ ~ streaming /\ Click
  /\ talk' = [talk EXCEPT ![sheet] = @ \o <<Question, NotReady>>]
  /\ streams' = Aborted
  /\ Fresh
  /\ UNCHANGED <<canvasVars, asked, streaming, tracked, parsing, drawn, posts, wire, serverVars>>

\* Mutant: handleSend keeps the canvas of its first render.
CapturedFirst == 1

\* excalidrawAPI, which the callback depends on
Captured == api

HandleSend ==
  /\ api # 0 /\ ~ streaming /\ asked < MaxSends /\ Click
  /\ asked' = asked + 1
  /\ talk' = [talk EXCEPT ![sheet] = @ \o <<Question, Placeholder(asked + 1)>>]
  /\ streams' = [Aborted EXCEPT ![asked + 1] = [at |-> "sent", sheet |-> sheet,
                   aborted |-> FALSE, canvas |-> Captured, gone |-> FALSE]]
  /\ streaming' = TRUE
  /\ Fresh
  /\ UNCHANGED <<canvasVars, tracked, parsing, drawn, posts, wire, serverVars>>

StopGenerating ==
  /\ streaming /\ Click
  /\ streams' = Aborted
  /\ UNCHANGED <<canvasVars, talk, asked, panelVars, wire, serverVars>>

ClearConversation ==
  /\ Click
  /\ talk' = [talk EXCEPT ![sheet] = << >>]
  /\ UNCHANGED <<canvasVars, asked, streams, panelVars, wire, serverVars>>

\* Another sheet, another Excalidraw: streams under way keep the old api.
Remounted == api' = IF api = 0 THEN 0 ELSE api + 1

SwitchSheet(s) ==
  /\ s # sheet /\ Click
  /\ Patient => ~ Drawing
  /\ sheet' = s
  /\ Remounted
  /\ UNCHANGED <<scene, talk, asked, streams, panelVars, wire, serverVars>>

\* clearAllConversations; the user's sheets give way to those of a guest
Logout ==
  /\ Click
  /\ talk' = [s \in Sheets |-> << >>]
  /\ scene' = [s \in Sheets |-> {}]
  /\ streaming' = FALSE
  /\ streams' = [k \in Sends |-> [streams[k] EXCEPT !.gone = TRUE]]
  /\ Remounted
  /\ UNCHANGED <<sheet, asked, reqId, results, tracked, parsing, drawn, posts, wire, serverVars>>

\* isStreaming is not persisted, conversations are; requests end with the page
Reload ==
  /\ Click
  /\ api' = 0
  /\ streaming' = FALSE /\ reqId' = 0 /\ results' = {} /\ tracked' = {} /\ parsing' = {}
  /\ streams' = [k \in Sends |->
       [streams[k] EXCEPT !.gone = TRUE, !.at = IF UnderWay(k) THEN "over" ELSE @]]
  /\ UNCHANGED <<sheet, scene, talk, asked, drawn, posts, wire, serverVars>>

\* The buttons stay; elements that are gone already are passed over.
HandleUndoAI(i) ==
  /\ ~ streaming /\ api # 0 /\ Click
  /\ i \in DOMAIN talk[sheet] /\ talk[sheet][i].made # {}
  /\ scene' = [scene EXCEPT ![sheet] = @ \ talk[sheet][i].made]
  /\ drawn' = drawn \ (talk[sheet][i].made \cap scene[sheet])
  /\ UNCHANGED <<sheet, api, talk, asked, streams, streaming, reqId, results,
                 tracked, parsing, posts, wire, serverVars>>

---------------------------------------------------------------------------
(* What the stream brings.                                                 *)

Reads(k) == streams[k].at = "open" /\ ~ streams[k].aborted

Arrived(k, types) == Reads(k) /\ wire[k] # << >> /\ Head(wire[k]).t \in types
                     /\ wire' = [wire EXCEPT ![k] = Tail(@)]

OnStart(k) ==
  /\ Arrived(k, {"start"})
  /\ reqId' = k
  /\ UNCHANGED <<canvasVars, talk, asked, streams, streaming, results, tracked,
                 parsing, drawn, posts, serverVars, clicks>>

\* The words of an answer may begin as the progress line does ("posing").
Spoken(t, body) == body \cup {"text"} \cup (IF body \subseteq {"text"} THEN {t} ELSE {})

OnText(k) ==
  /\ Arrived(k, {"text", "posing"})
  /\ talk' = IF IsLast(k) THEN Amended(k, Spoken(Head(wire[k]).t, Message(k).body), Message(k).made)
             ELSE talk
  /\ FlushResults
  /\ UNCHANGED <<canvasVars, asked, streams, streaming, reqId, tracked, parsing,
                 drawn, serverVars, clicks>>

\* Drawn on the canvas the request was asked on, or on nothing that is shown.
Drawn(c) ==
  /\ drawn' = drawn \cup {c}
  /\ tracked' = tracked \cup {c}
  /\ scene' = IF streams[c[1]].canvas = api
              THEN [scene EXCEPT ![streams[c[1]].sheet] = @ \cup {c}] ELSE scene

NotDrawn == UNCHANGED <<drawn, tracked, scene>>

\* applyDeleteElements: whatever it names of what is shown.
Deleted(k) ==
  /\ streams[k].canvas = api
  /\ \E els \in SUBSET scene[streams[k].sheet] :
       /\ scene' = [scene EXCEPT ![streams[k].sheet] = @ \ els]
       /\ drawn' = drawn \ els
  /\ UNCHANGED tracked

\* A result is recorded as a success before the tool runs; what the create
\* tools throw is caught inside, so it stays one.
OnToolCall(k) ==
  /\ Arrived(k, Tools)
  /\ talk' = IF IsLast(k) /\ Message(k).body = {} THEN Amended(k, {"progress"}, {}) ELSE talk
  /\ LET c == Head(wire[k]).call IN
     /\ results' = results \cup {c}
     /\ \/ /\ Head(wire[k]).t = "create"
           /\ Drawn(c) \/ NotDrawn
           /\ UNCHANGED parsing
        \/ /\ Head(wire[k]).t = "mermaid"
           /\ parsing' = parsing \cup {c}
           /\ NotDrawn
        \/ /\ Head(wire[k]).t = "delete"
           /\ Deleted(k) \/ NotDrawn
           /\ UNCHANGED parsing
  /\ UNCHANGED <<sheet, api, asked, streams, streaming, reqId, posts, serverVars, clicks>>

MermaidResolves(c) ==
  /\ c \in parsing
  /\ parsing' = parsing \ {c}
  /\ Drawn(c) \/ NotDrawn
  /\ UNCHANGED <<sheet, api, talk, asked, streams, streaming, reqId, results,
                 posts, wire, serverVars, clicks>>

\* content.startsWith("Membuat diagram"): the panel's line, or words like it.
IsProgressMsg(body) == body \cap {"progress", "posing"} # {}

OnDone(k) ==
  /\ Arrived(k, {"done"})
  /\ talk' = IF ~ IsLast(k) THEN talk
             ELSE Amended(k, IF Message(k).body = {} \/ IsProgressMsg(Message(k).body)
                             THEN {"summary"} ELSE Message(k).body, tracked)
  /\ tracked' = {}
  /\ FlushResults
  /\ UNCHANGED <<canvasVars, asked, streams, streaming, reqId, parsing, drawn, serverVars, clicks>>

OnErrorEvent(k) ==
  /\ Arrived(k, {"error"})
  /\ talk' = IF IsLast(k) THEN Amended(k, {"error"}, Message(k).made) ELSE Amended(k, {"error"}, {})
  /\ UNCHANGED <<canvasVars, asked, streams, panelVars, serverVars, clicks>>

\* Mutant: a stream the user stopped does not free the panel.
FreedUnlessStopped(k) == streaming' = (streaming /\ streams[k].aborted)

Freed(k) == streaming' = FALSE

OnComplete(k) ==
  /\ \/ UnderWay(k) /\ streams[k].aborted
     \/ streams[k].at = "open" /\ wire[k] # << >> /\ Head(wire[k]).t = "end"
  /\ streams' = [streams EXCEPT ![k].at = "over"]
  /\ tracked' = {}
  /\ Freed(k)
  /\ wire' = [wire EXCEPT ![k] = << >>]
  /\ UNCHANGED <<canvasVars, talk, asked, reqId, results, parsing, drawn, posts, serverVars, clicks>>

\* The request is refused, the connection breaks or a read times out.
OnError(k) ==
  /\ UnderWay(k) /\ ~ streams[k].aborted
  /\ streams' = [streams EXCEPT ![k].at = "failed"]
  /\ tracked' = {}
  /\ talk' = Amended(k, {"error"}, {})
  /\ wire' = [wire EXCEPT ![k] = << >>]
  /\ UNCHANGED <<canvasVars, asked, streaming, reqId, results, parsing, drawn, posts, serverVars, clicks>>

Broken(k) == wire[k] # << >> /\ Head(wire[k]).t = "cut" /\ OnError(k)

---------------------------------------------------------------------------
(* The server.                                                             *)

Sent(k, lines) == wire' = [wire EXCEPT ![k] = IF UnderWay(k) THEN @ \o lines ELSE << >>]
Line(t) == <<[t |-> t, call |-> <<0, 0, "">>]>>

HandleChat(k) ==
  /\ streams[k].at = "sent" /\ ~ streams[k].aborted
  /\ streams' = [streams EXCEPT ![k].at = "open"]
  /\ loop' = [loop EXCEPT ![k] = "running"]
  /\ registry' = registry \cup {k}
  /\ Sent(k, Line("start"))
  /\ UNCHANGED <<canvasVars, talk, asked, panelVars, emitted, tools, conts, crashes, clicks>>

ProviderStreams(k) ==
  /\ loop[k] = "running" /\ emitted < MaxEvents
  /\ emitted' = emitted + 1
  /\ \/ \E t \in {"text", "posing"} : Sent(k, Line(t)) /\ UNCHANGED tools
     \/ \E t \in Tools :
          /\ Sent(k, <<[t |-> t, call |-> <<k, emitted', t>>]>>)
          /\ tools' = [tools EXCEPT ![k] = TRUE]
  /\ UNCHANGED <<canvasVars, talk, asked, streams, panelVars, loop, registry, conts, crashes, clicks>>

Ended(k) == loop[k] = "running" /\ loop' = [loop EXCEPT ![k] = "over"]

ServerLeaves == <<canvasVars, talk, asked, streams, panelVars, emitted, tools, conts, crashes, clicks>>

\* Mutant: done follows the first iteration, whatever it called.
IterationEndsWithDone(k) ==
  /\ Ended(k)
  /\ registry' = registry \ {k} /\ Sent(k, Line("done") \o Line("end"))
  /\ UNCHANGED ServerLeaves

\* After tool calls HandleChat returns, and its response ends with it.
IterationEnds(k) ==
  /\ Ended(k)
  /\ IF tools[k] THEN UNCHANGED registry /\ Sent(k, Line("end"))
     ELSE registry' = registry \ {k} /\ Sent(k, Line("done") \o Line("end"))
  /\ UNCHANGED ServerLeaves

ProviderFails(k) ==
  /\ Ended(k)
  /\ registry' = registry \ {k}
  /\ Sent(k, Line("error") \o Line("end"))
  /\ UNCHANGED ServerLeaves

\* The context of the request is cancelled.
ClientLeft(k) ==
  /\ streams[k].aborted \/ ~ UnderWay(k)
  /\ Ended(k)
  /\ registry' = registry \ {k}
  /\ UNCHANGED wire
  /\ UNCHANGED ServerLeaves

\* An unknown request is answered 404, which the client ignores.
HandleToolResult(p) ==
  /\ p \in posts
  /\ posts' = posts \ {p}
  /\ conts' = IF p.req \in registry THEN conts \cup {p.req} ELSE conts
  /\ UNCHANGED <<canvasVars, talk, asked, streams, streaming, reqId, results,
                 tracked, parsing, drawn, wire, loop, emitted, tools, registry, crashes, clicks>>

PostLost(p) ==
  /\ p \in posts
  /\ posts' = posts \ {p}
  /\ UNCHANGED <<canvasVars, talk, asked, streams, streaming, reqId, results,
                 tracked, parsing, drawn, wire, serverVars, clicks>>

\* The process dies: a response that is open is cut off.
Crashed ==
  /\ crashes < MaxCrashes /\ crashes' = crashes + 1
  /\ wire' = [k \in Sends |-> IF loop[k] = "running" /\ UnderWay(k)
                              THEN wire[k] \o Line("cut") ELSE wire[k]]
  /\ loop' = [k \in Sends |-> IF loop[k] = "running" THEN "over" ELSE loop[k]]
  /\ registry' = {} /\ conts' = {}

\* The next iteration runs with the context of the tool-result request, which
\* is over: its provider call fails and the loop is dropped.  Before that it
\* writes its number to the response of HandleChat.  While that is open, two
\* goroutines write to it and may spoil a line; afterwards the write has no
\* effect or takes the process down.
Continue(k) ==
  /\ k \in conts
  /\ \/ /\ registry' = registry \ {k} /\ conts' = conts \ {k}
        /\ UNCHANGED <<wire, loop, crashes>>
     \/ /\ loop[k] = "running" /\ wire[k] # << >>
        /\ wire' = [wire EXCEPT ![k] = Front(@)]
        /\ registry' = registry \ {k} /\ conts' = conts \ {k}
        /\ UNCHANGED <<loop, crashes>>
     \/ loop[k] = "over" /\ Crashed
  /\ UNCHANGED <<canvasVars, talk, asked, streams, panelVars, emitted, tools, clicks>>

---------------------------------------------------------------------------

User ==
  \/ MountCanvas \/ HandleSendNotReady \/ HandleSend \/ StopGenerating
  \/ ClearConversation \/ Logout \/ Reload
  \/ \E s \in Sheets : SwitchSheet(s)
  \/ \E i \in 1 .. 2 * MaxClicks : HandleUndoAI(i)

Client(k) ==
  \/ OnStart(k) \/ OnText(k) \/ OnToolCall(k) \/ OnDone(k) \/ OnErrorEvent(k)
  \/ OnComplete(k) \/ Broken(k)

Server(k) ==
  \/ HandleChat(k) \/ ProviderStreams(k) \/ IterationEnds(k) \/ ProviderFails(k)
  \/ ClientLeft(k) \/ Continue(k)

Next ==
  \/ User
  \/ \E k \in Sends : Client(k) \/ OnError(k) \/ Server(k)
  \/ \E c \in parsing : MermaidResolves(c)
  \/ \E p \in posts : HandleToolResult(p) \/ PostLost(p)

\* What was sent is handled or refused, and what arrived is read.
Fairness == \A k \in Sends : WF_vars(Client(k)) /\ WF_vars(Server(k))

Spec == Init /\ [][Next]_vars /\ Fairness

---------------------------------------------------------------------------
(* Properties.                                                             *)

Parts == {"question", "progress", "text", "posing", "summary", "error"}

\* Types; the panel's request id is null or that of the last question.
ChatTypeOK ==
  /\ sheet \in Sheets /\ api \in 0 .. MaxClicks + 1 /\ streaming \in BOOLEAN
  /\ asked \in 0 .. MaxSends
  /\ reqId \in {0, asked}
  /\ tracked \subseteq Calls /\ parsing \subseteq Calls /\ drawn \subseteq Calls
  /\ results \subseteq Calls
  /\ \A s \in Sheets : scene[s] \subseteq drawn
  /\ \A s \in Sheets : \A i \in DOMAIN talk[s] :
       talk[s][i].id \in 0 .. asked /\ talk[s][i].body \subseteq Parts
  /\ \A p \in posts : p.req \in Sends /\ p.calls # {} /\ p.calls \subseteq Calls
  /\ registry \subseteq 1 .. asked /\ conts \subseteq 1 .. asked
  /\ crashes \in 0 .. MaxCrashes /\ clicks \in 0 .. MaxClicks

\* Two streams never draw at once, even when signing out frees the panel with
\* one under way: a new question aborts the last one (AIChatPanel.tsx:190).
OneStream ==
  \A j, k \in Sends :
    UnderWay(j) /\ ~ streams[j].aborted /\ UnderWay(k) /\ ~ streams[k].aborted => j = k

\* Results are posted to the loop that made the calls and to no other, each of
\* them once, though both sides of a post sit in refs that requests share.
ResultsReachTheirLoop ==
  /\ \A p \in posts : \A c \in p.calls : c[1] = p.req /\ c \notin results
  /\ \A p, q \in posts : p # q => p.calls \cap q.calls = {}

\* What a request drew for a user who waited is on the sheet it was asked on
\* until the user undoes it or a tool deletes it there: none draws on a canvas
\* that is no longer shown.
DrawnStays ==
  \A c \in drawn :
    streams[c[1]].gone \/ c \in scene[streams[c[1]].sheet]

Told(s, k) ==
  \E i \in DOMAIN talk[s] :
    talk[s][i].id = k /\ "text" \in talk[s][i].body /\ "posing" \notin talk[s][i].body
Held(s, k) == \E i \in DOMAIN talk[s] : talk[s][i].id = k

\* The assistant's words are never replaced by a summary of its tools: only
\* an error takes their place, or the user who clears the conversation.  Words
\* that begin like the panel's own progress line are not protected: done takes
\* them for that line (AIChatPanel.tsx:450).
WordsStay ==
  [][\A s \in Sheets, k \in Sends : Told(s, k) /\ Held(s, k)' =>
       \E i \in DOMAIN talk'[s] :
         talk'[s][i].id = k /\ talk'[s][i].body \cap {"text", "error"} # {}]_vars

\* A panel that waits for an answer becomes free again, with the answer, an
\* error of the provider or after Stop, unless a request fails.
ChatSettles == streaming ~> (~ streaming \/ \E k \in Sends : streams[k].at = "failed")

\* An answer that is complete lists what it drew, for the Show and Undo
\* buttons (ai_implementation_todo_160526.md:143).
MadeIsListed ==
  \A c \in drawn :
    LET k == c[1] IN
    streams[k].at = "over" /\ ~ streams[k].aborted /\ ~ streams[k].gone =>
      \A i \in DOMAIN talk[streams[k].sheet] :
        talk[streams[k].sheet][i].id = k => c \in talk[streams[k].sheet][i].made

\* What is posted as a success has been drawn, or is still being parsed
\* (AIChatPanel.tsx:299 "If execution throws, the catch below marks it failed").
SuccessIsDrawn ==
  \A p \in posts : \A c \in p.calls : c[3] # "delete" => c \in drawn \cup parsing

\* A panel that waits for an answer becomes free again (aiService.ts:152
\* "120 seconds max for AI response").
Released == streaming ~> ~ streaming

\* A message lists only what was drawn for it.
ListedIsOwn ==
  \A s \in Sheets : \A i \in DOMAIN talk[s] : \A c \in talk[s][i].made : c[1] = talk[s][i].id

\* A loop is forgotten once neither its client nor the server will go on.
LoopsAreDropped ==
  \A k \in registry : UnderWay(k) \/ k \in conts \/ \E p \in posts : p.req = k
=============================================================================
