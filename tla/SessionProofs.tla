---------------------------- MODULE SessionProofs ----------------------------
(***************************************************************************)
(* What is promised of sessions, for any number of users, requests, links  *)
(* and clicks.                                                             *)
(*                                                                         *)
(* Resets: a link is good for one, and it ends every session of the user,  *)
(* but for what the code lets pass.  The server reads a link, a refresh    *)
(* token or a password in one step and acts on it in the next; what it has *)
(* read may be outdated then.  So the invariant says of it what the        *)
(* property says of a token that works (Fresh), and of a link who still    *)
(* holds it (LinkOK).  No user is taken to be patient.                     *)
(*                                                                         *)
(* Types: for any number of tabs, patient users or not.  That stores and   *)
(* requests name pairs the server has made is plain; that there are no     *)
(* more pairs than clicks is a matter of counting what may still make one  *)
(* (Paid).                                                                 *)
(*                                                                         *)
(* Lives of sessions: they end for a reason, requests stay with their user *)
(* and signing out is final.  That needs Patient, and one tab only (OneTab):*)
(* two tabs share one local storage, and refresh behind each other's back. *)
(***************************************************************************)
EXTENDS Session, TLAPS, FiniteSetTheorems

Pair  == [user : Users, chain : Nat, gen : Nat]
Link  == [user : Users, spent : BOOLEAN, uses : Nat, slip : BOOLEAN]
Job   == [link : Nat, at : {"sent", "read", "changed", "used", "done", "refused"}]
Try   == [at : {"idle", "sent", "read", "denied", "granted", "failed"},
          pair : Nat, got : Nat, ours : BOOLEAN]
Entry == [at : {"idle", "sent", "read", "granted"}, who : Users \cup {0}, gen : Nat, pair : Nat]
Form  == [at : {"idle", "validating", "invalid", "form", "sent", "ok"}, link : Nat, job : Nat]

\* A form that shows or awaits something knows its link, and its handler.
Linked(form, known, handlers) ==
  /\ form.at \in {"validating", "form", "sent"} => form.link \in known
  /\ form.at = "sent" => form.job \in handlers

Typing ==
  /\ pairs \in Seq(Pair) /\ usable \subseteq DOMAIN pairs
  /\ gen \in [Users -> Nat] /\ links \in Seq(Link)
  /\ jobs \in Seq(Job) /\ \A j \in DOMAIN jobs : jobs[j].link \in DOMAIN links
  /\ mem \in [Tabs -> Nat] /\ disk \in Nat
  /\ tries \in [Tabs -> [Slots -> Try]]
  /\ login \in [Tabs -> Entry]
  /\ \A t \in Tabs : login[t].at # "idle" => login[t].who \in Users
  /\ reset \in [Tabs -> Form] /\ \A t \in Tabs : Linked(reset[t], DOMAIN links, DOMAIN jobs)

\* A token of u that stems from a sign-in with her g-th password may work.
Sound(u, g) == g = gen[u] \/ u \in loose \/ Revoking(u)
SoundPair(k) == k \in DOMAIN pairs /\ Sound(pairs[k].user, pairs[k].gen)

\* What the server has looked up and is about to make a pair from.
SoundTry(try) == try.at = "read" => SoundPair(try.pair)
SoundEntry(entry) == entry.at = "read" => Sound(entry.who, entry.gen)
Fresh ==
  /\ \A k \in usable : SoundPair(k)
  /\ \A t \in Tabs : \A a \in Slots : SoundTry(tries[t][a])
  /\ \A t \in Tabs : SoundEntry(login[t])

\* A link is held by one handler, used at most once, and spent after that
\* unless its handler is about to.
LinkOK(l) ==
  ~ links[l].slip =>
    /\ \A i, j \in Holding(l) : i = j
    /\ \A j \in Holding(l) : jobs[j].at = "read" => links[l].uses = 0
    /\ \/ links[l].uses = 0
       \/ links[l].uses = 1 /\ (links[l].spent \/ \E j \in Holding(l) : jobs[j].at = "changed")

LinksOK == \A l \in DOMAIN links : LinkOK(l)

SessInv == Typing /\ Fresh /\ LinksOK

-----------------------------------------------------------------------------
(* Steps that have their effect in common.                                  *)

\* Whoever may sign in or refresh after a step could before it.
NothingRead ==
  /\ \A t \in Tabs : \A a \in Slots :
       tries'[t][a].at = "read" => tries[t][a].at = "read" /\ tries'[t][a].pair = tries[t][a].pair
  /\ \A t \in Tabs :
       login'[t].at = "read" => /\ login[t].at = "read"
                                /\ login'[t].who = login[t].who /\ login'[t].gen = login[t].gen

\* A step that makes no pair and changes no password.
LEMMA BrowserStep ==
  ASSUME SessInv, UNCHANGED <<pairs, gen, links, jobs, loose>>, usable' \subseteq usable,
         mem' \in [Tabs -> Nat], disk' \in Nat,
         tries' \in [Tabs -> [Slots -> Try]], login' \in [Tabs -> Entry],
         \A t \in Tabs : login'[t].at # "idle" => login'[t].who \in Users,
         NothingRead,
         reset' \in [Tabs -> Form], \A t \in Tabs : Linked(reset'[t], DOMAIN links, DOMAIN jobs)
  PROVE  SessInv'
<1>1. Typing'
  BY DEF SessInv, Typing
<1>2. Fresh'
  <2>1. \A u, g : Sound(u, g)' = Sound(u, g)
    BY DEF Sound, Revoking
  <2>2. \A k : SoundPair(k)' = SoundPair(k)
    BY <2>1 DEF SoundPair
  <2> QED
    BY <2>1, <2>2 DEF SessInv, Fresh, SoundTry, SoundEntry, NothingRead
<1>3. LinksOK'
  BY DEF SessInv, LinksOK, LinkOK, Holding
<1> QED
  BY <1>1, <1>2, <1>3 DEF SessInv

\* Nothing that the invariant speaks of changes, but for tokens that are
\* refused from now on.
LEMMA Fewer ==
  ASSUME SessInv, usable' \subseteq usable,
         UNCHANGED <<pairs, gen, links, jobs, loose, mem, disk, tries, login, reset>>
  PROVE  SessInv'
BY BrowserStep DEF SessInv, Typing, NothingRead

\* A new pair is made from what the server has looked up.
LEMMA Granted ==
  ASSUME SessInv, NEW rec \in Pair, NEW gone, Grant(rec, gone), Sound(rec.user, rec.gen),
         UNCHANGED <<gen, links, jobs, loose, mem, disk, reset>>,
         tries' \in [Tabs -> [Slots -> Try]], login' \in [Tabs -> Entry],
         \A t \in Tabs : login'[t].at # "idle" => login'[t].who \in Users,
         NothingRead
  PROVE  SessInv'
<1>0. PICK k : k = Len(pairs) + 1
  OBVIOUS
<1> DEFINE new == IF rec.chain = 0 THEN [rec EXCEPT !.chain = k] ELSE rec
<1>1. /\ new \in Pair /\ new.gen = rec.gen /\ new.user = rec.user
      /\ pairs \in Seq(Pair) /\ Len(pairs) \in Nat
      /\ pairs' = Append(pairs, new) /\ usable' \subseteq usable \cup {k}
  <2>1. pairs \in Seq(Pair) /\ Len(pairs) \in Nat
    BY DEF SessInv, Typing
  <2>2. new \in Pair /\ new.gen = rec.gen /\ new.user = rec.user
    BY <1>0, <2>1 DEF Pair
  <2>3. pairs' = Append(pairs, new) /\ usable' \subseteq usable \cup {k}
    BY <1>0 DEF Grant
  <2> QED
    BY <2>1, <2>2, <2>3
<1> HIDE DEF new
<1>2. /\ pairs' \in Seq(Pair) /\ DOMAIN pairs' = DOMAIN pairs \cup {k}
      /\ pairs'[k] = new /\ \A i \in DOMAIN pairs : pairs'[i] = pairs[i]
  BY <1>0, <1>1
<1>3. Typing'
  BY <1>1, <1>2 DEF SessInv, Typing
<1>4. Fresh'
  <2>1. \A u, g : Sound(u, g)' = Sound(u, g)
    BY DEF Sound, Revoking
  <2>2. \A i : SoundPair(i) => SoundPair(i)'
    BY <1>2, <2>1 DEF SoundPair
  <2>3. SoundPair(k)'
    BY <1>1, <1>2, <2>1 DEF SoundPair
  <2> QED
    BY <1>1, <2>1, <2>2, <2>3 DEF SessInv, Fresh, SoundTry, SoundEntry, NothingRead
<1>5. LinksOK'
  BY DEF SessInv, LinksOK, LinkOK, Holding
<1> QED
  BY <1>3, <1>4, <1>5 DEF SessInv

-----------------------------------------------------------------------------
(* Requests and refreshes.                                                  *)

\* A refresh that is begun has been read by nobody.
LEMMA Begun ==
  ASSUME SessInv, NEW t \in Tabs, NEW p \in Slots \cup {0}, RefreshTokens(t, p) \/ UNCHANGED tries,
         UNCHANGED login
  PROVE  tries' \in [Tabs -> [Slots -> Try]] /\ NothingRead
<1>1. /\ tries \in [Tabs -> [Slots -> Try]]
      /\ Asked(mem[t]) \in Try /\ Asked(mem[t]).at = "sent"
  BY DEF SessInv, Typing, Asked, Try
<1>2. tries' = tries \/ (p \in Slots /\ tries' = [tries EXCEPT ![t][p] = Asked(mem[t])])
  BY DEF RefreshTokens
<1> HIDE DEF Asked
<1> QED
  BY <1>1, <1>2 DEF NothingRead

\* The requests of the app, and the refreshes they begin.
LEMMA RequestStep ==
  ASSUME SessInv, NEW t \in Tabs, NEW r \in Requests,
         Call(t, r) \/ CallAI(t, r) \/ Served(t, r) \/ CallLost(t, r)
  PROVE  SessInv'
<1>1. UNCHANGED <<pairs, usable, gen, links, jobs, loose, mem, disk, login, reset>>
  BY DEF Call, CallAI, Served, CallLost, serverVars, tokenVars, resetVars, dialogVars
<1>2. \E p \in Slots \cup {0} : RefreshTokens(t, p) \/ UNCHANGED tries
  BY DEF Call, CallAI, Served, CallLost
<1> QED
  BY <1>1, <1>2, Begun, BrowserStep DEF SessInv, Typing

\* The state of one refresh changes.
LEMMA TryStep ==
  ASSUME SessInv, NEW t \in Tabs, NEW a \in Slots, NEW new \in Try,
         tries' = [tries EXCEPT ![t][a] = new], new.at # "read", UNCHANGED login
  PROVE  tries' \in [Tabs -> [Slots -> Try]] /\ NothingRead
<1>1. tries \in [Tabs -> [Slots -> Try]]
  BY DEF SessInv, Typing
<1> QED
  BY <1>1 DEF NothingRead

\* The server's side of a refresh.
LEMMA RefreshStep ==
  ASSUME SessInv, NEW t \in Tabs, NEW a \in Slots,
         \/ RefreshRead(t, a) \/ Refresh(t, a) \/ RefreshBroken(t, a) \/ RefreshLost(t, a)
         \/ Refreshed(t, a)
  PROVE  SessInv'
<1>1. /\ tries \in [Tabs -> [Slots -> Try]] /\ tries[t][a] \in Try
      /\ pairs \in Seq(Pair) /\ Len(pairs) \in Nat /\ mem \in [Tabs -> Nat] /\ disk \in Nat
      /\ login \in [Tabs -> Entry] /\ \A x \in Tabs : login[x].at # "idle" => login[x].who \in Users
      /\ reset \in [Tabs -> Form] /\ \A x \in Tabs : Linked(reset[x], DOMAIN links, DOMAIN jobs)
  BY DEF SessInv, Typing
<1>2. CASE RefreshRead(t, a)
  <2> DEFINE k == tries[t][a].pair
             new == [tries[t][a] EXCEPT !.at = IF k \in usable THEN "read" ELSE "denied"]
  <2>1. /\ new \in Try /\ new.pair = k /\ (new.at = "read" => k \in usable)
        /\ tries' = [tries EXCEPT ![t][a] = new]
        /\ UNCHANGED <<pairs, usable, gen, links, jobs, loose, mem, disk, login, reset>>
    BY <1>1, <1>2 DEF RefreshRead, TryBecomes, Try, serverVars, tokenVars, resetVars, dialogVars
  <2> HIDE DEF new
  <2>2. SoundTry(new)
    BY <2>1 DEF SessInv, Fresh, SoundTry
  <2>3. Typing'
    BY <1>1, <2>1 DEF SessInv, Typing
  <2>4. Fresh'
    <3>1. \A u, g : Sound(u, g)' = Sound(u, g)
      BY <2>1 DEF Sound, Revoking
    <3>2. \A i : SoundPair(i)' = SoundPair(i)
      BY <2>1, <3>1 DEF SoundPair
    <3>3. \A x \in Tabs : \A b \in Slots : SoundTry(tries'[x][b])
      BY <1>1, <2>1, <2>2 DEF SessInv, Fresh
    <3> QED
      BY <2>1, <3>1, <3>2, <3>3 DEF SessInv, Fresh, SoundTry, SoundEntry
  <2>5. LinksOK'
    BY <2>1 DEF SessInv, LinksOK, LinkOK, Holding
  <2> QED
    BY <2>3, <2>4, <2>5 DEF SessInv
<1>3. CASE Refresh(t, a)
  <2> DEFINE k == tries[t][a].pair
             n == Len(pairs) + 1
             new == [tries[t][a] EXCEPT !.at = "granted", !.got = n]
  <2>1. new \in Try /\ new.at = "granted"
    <3>1. n \in Nat
      BY <1>1
    <3> HIDE DEF n
    <3> QED
      BY <1>1, <3>1 DEF Try
  <2>2. /\ tries' = [tries EXCEPT ![t][a] = new] /\ Grant(pairs[k], {k})
        /\ UNCHANGED <<gen, links, jobs, loose, mem, disk, login, reset>>
    BY <1>3 DEF Refresh, TryBecomes, dialogVars, resetVars
  <2>3. k \in DOMAIN pairs /\ Sound(pairs[k].user, pairs[k].gen)
    BY <1>3 DEF SessInv, Fresh, SoundTry, SoundPair, Refresh
  <2>4. pairs[k] \in Pair
    BY <1>1, <2>3
  <2> HIDE DEF new, k
  <2>5. tries' \in [Tabs -> [Slots -> Try]] /\ NothingRead
    BY <2>1, <2>2, TryStep
  <2> QED
    BY <1>1, <2>2, <2>3, <2>4, <2>5, Granted
<1>4. CASE RefreshLost(t, a) \/ RefreshBroken(t, a)
  <2> DEFINE new == [tries[t][a] EXCEPT !.at = "failed"]
  <2>1. new \in Try /\ new.at = "failed"
    BY <1>1 DEF Try
  <2>2. /\ tries' = [tries EXCEPT ![t][a] = new] /\ usable' \subseteq usable
        /\ UNCHANGED <<pairs, gen, links, jobs, loose, mem, disk, login, reset>>
    BY <1>4 DEF RefreshLost, RefreshBroken, TryBecomes, serverVars, tokenVars, resetVars, dialogVars
  <2> HIDE DEF new
  <2> QED
    BY <1>1, <2>1, <2>2, TryStep, BrowserStep
<1>5. CASE Refreshed(t, a)
  <2>1. NoTry \in Try /\ NoTry.at = "idle"
    BY DEF NoTry, Try
  <2>2. /\ tries' = [tries EXCEPT ![t][a] = NoTry]
        /\ UNCHANGED <<pairs, usable, gen, links, jobs, loose, login, reset>>
        /\ \/ UNCHANGED <<mem, disk>>
           \/ \E k \in Nat : Keep(t, k)
    BY <1>1, <1>5 DEF Refreshed, TryBecomes, serverVars, tokenVars, resetVars, dialogVars, Try
  <2>3. mem' \in [Tabs -> Nat] /\ disk' \in Nat
    BY <1>1, <2>2 DEF Keep
  <2>4. tries' \in [Tabs -> [Slots -> Try]] /\ NothingRead
    BY <2>1, <2>2, TryStep
  <2> QED
    BY <1>1, <2>2, <2>3, <2>4, BrowserStep
<1> QED
  BY <1>2, <1>3, <1>4, <1>5

-----------------------------------------------------------------------------
(* Signing in.                                                              *)

\* Both sides of a sign-in.
LEMMA LoginStep ==
  ASSUME SessInv, NEW t \in Tabs,
         \/ \E u \in Users : SubmitLogin(t, u)
         \/ LoginRead(t) \/ Login(t) \/ LoggedIn(t) \/ LoginLost(t)
  PROVE  SessInv'
<1>1. /\ login \in [Tabs -> Entry] /\ login[t] \in Entry /\ gen \in [Users -> Nat]
      /\ \A x \in Tabs : login[x].at # "idle" => login[x].who \in Users
      /\ pairs \in Seq(Pair) /\ Len(pairs) \in Nat /\ mem \in [Tabs -> Nat] /\ disk \in Nat
      /\ tries \in [Tabs -> [Slots -> Try]]
      /\ reset \in [Tabs -> Form] /\ \A x \in Tabs : Linked(reset[x], DOMAIN links, DOMAIN jobs)
      /\ NoLogin \in Entry /\ NoLogin.at = "idle"
  BY DEF SessInv, Typing, NoLogin, Entry
<1>2. ASSUME NEW new \in Entry, login' = [login EXCEPT ![t] = new],
             new.at # "idle" => new.who \in Users, new.at # "read",
             mem' \in [Tabs -> Nat], disk' \in Nat,
             UNCHANGED <<pairs, usable, gen, links, jobs, loose, tries, reset>>
      PROVE  SessInv'
  <2>1. login' \in [Tabs -> Entry] /\ \A x \in Tabs : login'[x].at # "idle" => login'[x].who \in Users
    BY <1>1, <1>2
  <2>2. NothingRead
    BY <1>1, <1>2 DEF NothingRead
  <2> QED
    BY <1>1, <1>2, <2>1, <2>2, BrowserStep
<1>3. ASSUME NEW u \in Users, SubmitLogin(t, u)
      PROVE  SessInv'
  <2> DEFINE new == [at |-> "sent", who |-> u, gen |-> gen[u], pair |-> 0]
  <2>1. new \in Entry /\ new.at = "sent" /\ new.who = u
    BY <1>1 DEF Entry
  <2>2. /\ login' = [login EXCEPT ![t] = new]
        /\ UNCHANGED <<pairs, usable, gen, links, jobs, loose, tries, reset, mem, disk>>
    BY <1>3 DEF SubmitLogin, serverVars, tokenVars, resetVars
  <2> HIDE DEF new
  <2> QED
    BY <1>1, <1>2, <2>1, <2>2
<1>4. CASE LoginRead(t)
  <2> DEFINE new == IF login[t].gen = gen[login[t].who] THEN [login[t] EXCEPT !.at = "read"] ELSE NoLogin
  <2>1. /\ new \in Entry
        /\ new.at # "idle" => new.who \in Users
        /\ new.at = "read" => new.gen = gen[new.who]
    BY <1>1, <1>4 DEF LoginRead, Entry
  <2>2. /\ login' = [login EXCEPT ![t] = new]
        /\ UNCHANGED <<pairs, usable, gen, links, jobs, loose, tries, reset, mem, disk>>
    BY <1>4 DEF LoginRead, serverVars, tokenVars, resetVars
  <2> HIDE DEF new
  <2>3. Typing'
    BY <1>1, <2>1, <2>2 DEF SessInv, Typing
  <2>4. Fresh'
    <3>1. \A u, g : Sound(u, g)' = Sound(u, g)
      BY <2>2 DEF Sound, Revoking
    <3>2. \A i : SoundPair(i)' = SoundPair(i)
      BY <2>2, <3>1 DEF SoundPair
    <3>3. SoundEntry(new)
      BY <2>1 DEF SoundEntry, Sound
    <3>4. \A x \in Tabs : SoundEntry(login'[x])
      BY <1>1, <2>2, <3>3 DEF SessInv, Fresh
    <3> QED
      BY <2>2, <3>1, <3>2, <3>4 DEF SessInv, Fresh, SoundTry, SoundEntry
  <2>5. LinksOK'
    BY <2>2 DEF SessInv, LinksOK, LinkOK, Holding
  <2> QED
    BY <2>3, <2>4, <2>5 DEF SessInv
<1>5. CASE Login(t)
  <2> DEFINE n == Len(pairs) + 1
             rec == [user |-> login[t].who, chain |-> 0, gen |-> login[t].gen]
             new == [login[t] EXCEPT !.at = "granted", !.pair = n]
  <2>1. n \in Nat
    BY <1>1
  <2>2. /\ Grant(rec, {}) /\ login' = [login EXCEPT ![t].at = "granted", ![t].pair = n]
        /\ UNCHANGED <<gen, links, jobs, loose, mem, disk, reset, tries>>
    BY <1>5 DEF Login, resetVars
  <2>3. rec \in Pair /\ Sound(rec.user, rec.gen)
    BY <1>1, <1>5 DEF Login, Pair, Entry, SessInv, Fresh, SoundEntry
  <2> HIDE DEF n
  <2>4. new \in Entry /\ new.at = "granted" /\ new.who = login[t].who /\ login[t].who \in Users
    BY <1>1, <1>5, <2>1 DEF Login, Entry
  <2>5. login' = [login EXCEPT ![t] = new]
    BY <1>1, <2>2 DEF Entry
  <2> HIDE DEF new, rec
  <2>6. /\ login' \in [Tabs -> Entry] /\ NothingRead
        /\ \A x \in Tabs : login'[x].at # "idle" => login'[x].who \in Users
    BY <1>1, <2>2, <2>4, <2>5 DEF NothingRead
  <2> QED
    BY <1>1, <2>2, <2>3, <2>6, Granted
<1>6. CASE LoggedIn(t)
  <2>1. /\ login' = [login EXCEPT ![t] = NoLogin] /\ Keep(t, login[t].pair) /\ login[t].pair \in Nat
        /\ UNCHANGED <<pairs, usable, gen, links, jobs, loose, tries, reset>>
    BY <1>1, <1>6 DEF LoggedIn, serverVars, tokenVars, resetVars, Entry
  <2>2. mem' \in [Tabs -> Nat] /\ disk' \in Nat
    BY <1>1, <2>1 DEF Keep
  <2> QED
    BY <1>1, <1>2, <2>1, <2>2
<1>7. CASE LoginLost(t)
  <2>1. /\ login' = [login EXCEPT ![t] = NoLogin]
        /\ UNCHANGED <<pairs, usable, gen, links, jobs, loose, tries, reset, mem, disk>>
    BY <1>7 DEF LoginLost, serverVars, tokenVars, resetVars
  <2> QED
    BY <1>1, <1>2, <2>1
<1> QED
  BY <1>3, <1>4, <1>5, <1>6, <1>7

-----------------------------------------------------------------------------
(* The form that resets a password.                                         *)

\* Every step of the form but the one that sends it.
LEMMA FormStep ==
  ASSUME SessInv, NEW t \in Tabs,
         \/ ValidateResetToken(t) \/ ResetAnswered(t) \/ ResetLost(t) \/ ResetDone(t)
         \/ \E d \in {"none", "login", "forgot"} : OpenDialog(t, d)
  PROVE  SessInv'
<1>1. /\ reset \in [Tabs -> Form] /\ reset[t] \in Form /\ NoReset \in Form /\ NoReset.at = "idle"
      /\ \A x \in Tabs : Linked(reset[x], DOMAIN links, DOMAIN jobs)
  BY DEF SessInv, Typing, Form, NoReset
<1>2. UNCHANGED <<pairs, usable, gen, links, jobs, loose, mem, disk, tries, login>>
  BY DEF ValidateResetToken, ResetAnswered, ResetLost, ResetDone, OpenDialog, serverVars, tokenVars,
         resetVars
<1>3. \E new \in Form : Linked(new, DOMAIN links, DOMAIN jobs) /\ (reset' = [reset EXCEPT ![t] = new] \/ reset' = reset)
  <2>1. CASE reset' = reset \/ reset' = [reset EXCEPT ![t] = NoReset]
    BY <1>1, <2>1 DEF Linked
  <2>2. ASSUME NEW at \in {"invalid", "form", "ok"}, reset' = [reset EXCEPT ![t].at = at],
               reset[t].at \in {"validating", "sent"}
        PROVE  \E new \in Form : Linked(new, DOMAIN links, DOMAIN jobs) /\ reset' = [reset EXCEPT ![t] = new]
    <3> DEFINE new == [reset[t] EXCEPT !.at = at]
    <3>1. new \in Form /\ new.link \in DOMAIN links /\ new.at # "sent"
      BY <1>1, <2>2 DEF Form, Linked
    <3>2. reset' = [reset EXCEPT ![t] = new]
      BY <1>1, <2>2
    <3> QED
      BY <3>1, <3>2 DEF Linked
  <2> QED
    BY <2>1, <2>2 DEF ValidateResetToken, ResetAnswered, ResetLost, ResetDone, OpenDialog
<1>4. reset' \in [Tabs -> Form] /\ \A x \in Tabs : Linked(reset'[x], DOMAIN links, DOMAIN jobs)
  BY <1>1, <1>3
<1> QED
  BY <1>2, <1>4, BrowserStep DEF SessInv, Typing, NothingRead

\* The form is sent, and a handler starts.
LEMMA SubmitStep ==
  ASSUME SessInv, NEW t \in Tabs, SubmitReset(t)
  PROVE  SessInv'
<1> DEFINE n == Len(jobs) + 1
           job == [link |-> reset[t].link, at |-> "sent"]
           new == [reset[t] EXCEPT !.at = "sent", !.job = n]
<1>1. /\ reset \in [Tabs -> Form] /\ reset[t] \in Form /\ jobs \in Seq(Job) /\ n \in Nat
      /\ \A x \in Tabs : Linked(reset[x], DOMAIN links, DOMAIN jobs)
  BY DEF SessInv, Typing
<1>2. /\ jobs' = Append(jobs, job) /\ reset' = [reset EXCEPT ![t] = new] /\ reset[t].at = "form"
      /\ UNCHANGED <<pairs, usable, gen, links, loose, mem, disk, tries, login>>
  BY DEF SubmitReset, tokenVars
<1>3. reset[t].link \in DOMAIN links /\ job \in Job /\ job.link \in DOMAIN links /\ job.at = "sent"
  BY <1>1, <1>2 DEF Job, Form, Linked
<1>4. new \in Form /\ new.link \in DOMAIN links /\ new.job = n
  <2> HIDE DEF n
  <2> QED
    BY <1>1, <1>3 DEF Form
<1> HIDE DEF job, new
<1>5. /\ jobs' \in Seq(Job) /\ DOMAIN jobs' = DOMAIN jobs \cup {n} /\ jobs'[n] = job
      /\ \A j \in DOMAIN jobs : jobs'[j] = jobs[j]
  BY <1>1, <1>2, <1>3
<1>6. Typing'
  <2>1. reset' \in [Tabs -> Form] /\ \A x \in Tabs : Linked(reset'[x], DOMAIN links, DOMAIN jobs')
    BY <1>1, <1>2, <1>4, <1>5 DEF Linked
  <2> QED
    BY <1>2, <1>3, <1>5, <2>1 DEF SessInv, Typing
<1>7. Fresh'
  <2>1. \A u, g : Sound(u, g) => Sound(u, g)'
    BY <1>2, <1>5 DEF Sound, Revoking
  <2>2. \A k : SoundPair(k) => SoundPair(k)'
    BY <1>2, <2>1 DEF SoundPair
  <2> QED
    BY <1>2, <2>1, <2>2 DEF SessInv, Fresh, SoundTry, SoundEntry
<1>8. LinksOK'
  <2>1. \A l : Holding(l)' = Holding(l)
    BY <1>3, <1>5 DEF Holding
  <2>2. \A l : Holding(l) \subseteq DOMAIN jobs
    BY DEF Holding
  <2> QED
    BY <1>2, <1>5, <2>1, <2>2 DEF SessInv, LinksOK, LinkOK
<1> QED
  BY <1>6, <1>7, <1>8 DEF SessInv

\* Handler j of ResetPassword, which works on link l, goes one statement
\* further and leaves the link as it is in `link'.
Handled(j, l, at, link) ==
  /\ l = jobs[j].link /\ at \in {"read", "changed", "used", "done", "refused"}
  /\ jobs' = [jobs EXCEPT ![j].at = at]
  /\ links' = [links EXCEPT ![l] = link]
  /\ link \in Link /\ link.user = links[l].user
  /\ gen' \in [Users -> Nat] /\ usable' \subseteq usable
  /\ UNCHANGED <<pairs, mem, disk, tries, login, reset>>

LEMMA HandlerStep ==
  ASSUME SessInv, NEW j \in DOMAIN jobs, NEW l, NEW at, NEW link, Handled(j, l, at, link),
         LinkOK(l)', Fresh'
  PROVE  SessInv'
<1>0. /\ l = jobs[j].link /\ at \in {"read", "changed", "used", "done", "refused"}
      /\ jobs' = [jobs EXCEPT ![j].at = at]
      /\ links' = [links EXCEPT ![l] = link]
      /\ link \in Link /\ link.user = links[l].user
      /\ gen' \in [Users -> Nat] /\ usable' \subseteq usable
      /\ UNCHANGED <<pairs, mem, disk, tries, login, reset>>
  BY DEF Handled
<1>1. /\ jobs \in Seq(Job) /\ links \in Seq(Link) /\ l \in DOMAIN links
      /\ \A i \in DOMAIN jobs : jobs[i] \in Job /\ jobs[i].link \in DOMAIN links
  BY <1>0 DEF SessInv, Typing
<1>2. /\ jobs' \in Seq(Job) /\ DOMAIN jobs' = DOMAIN jobs
      /\ \A i \in DOMAIN jobs : jobs'[i].link = jobs[i].link /\ (i # j => jobs'[i] = jobs[i])
  <2> DEFINE new == [jobs[j] EXCEPT !.at = at]
  <2>1. new \in Job /\ new.link = l /\ jobs' = [jobs EXCEPT ![j] = new]
    BY <1>0, <1>1 DEF Job
  <2> HIDE DEF new
  <2>2. /\ jobs' \in Seq(Job) /\ DOMAIN jobs' = DOMAIN jobs
        /\ \A i \in DOMAIN jobs : jobs'[i] = IF i = j THEN new ELSE jobs[i]
    <3> HIDE DEF Job
    <3> QED
      BY <1>1, <2>1
  <2> QED
    BY <1>0, <2>1, <2>2
<1>3. /\ links' \in Seq(Link) /\ DOMAIN links' = DOMAIN links
      /\ \A m \in DOMAIN links : m # l => links'[m] = links[m]
  BY <1>0, <1>1
<1>4. Typing'
  BY <1>0, <1>1, <1>2, <1>3 DEF SessInv, Typing
<1>6. ASSUME NEW m \in DOMAIN links, m # l
      PROVE  LinkOK(m)'
  <2>1. Holding(m)' = Holding(m) /\ j \notin Holding(m) /\ Holding(m) \subseteq DOMAIN jobs
    BY <1>0, <1>2, <1>6 DEF Holding
  <2> QED
    BY <1>2, <1>3, <1>6, <2>1 DEF SessInv, LinksOK, LinkOK
<1>7. LinksOK'
  BY <1>3, <1>6 DEF LinksOK
<1> QED
  BY <1>4, <1>7 DEF SessInv

\* Where passwords and revocations stay as they are, tokens do.
LEMMA SoundStays ==
  ASSUME SessInv, \A u \in Users : \A g : Sound(u, g) => Sound(u, g)',
         UNCHANGED <<pairs, usable, tries, login>>
  PROVE  Fresh'
<1>1. /\ \A k \in DOMAIN pairs : pairs[k].user \in Users
      /\ \A t \in Tabs : login[t].at = "read" => login[t].who \in Users
  <2>1. \A k \in DOMAIN pairs : pairs[k] \in Pair
    BY DEF SessInv, Typing
  <2> QED
    BY <2>1 DEF SessInv, Typing, Pair
<1>2. \A k : SoundPair(k) => SoundPair(k)'
  BY <1>1 DEF SoundPair
<1> QED
  BY <1>1, <1>2 DEF SessInv, Fresh, SoundEntry, SoundTry

\* What the steps of a handler start from.
LEMMA HandlerTypes ==
  ASSUME SessInv, NEW j \in DOMAIN jobs
  PROVE  /\ jobs \in Seq(Job) /\ jobs[j] \in Job /\ links \in Seq(Link) /\ gen \in [Users -> Nat]
         /\ jobs[j].link \in DOMAIN links /\ links[jobs[j].link] \in Link
         /\ links[jobs[j].link].user \in Users
<1>1. /\ jobs \in Seq(Job) /\ jobs[j] \in Job /\ links \in Seq(Link) /\ gen \in [Users -> Nat]
      /\ jobs[j].link \in DOMAIN links /\ links[jobs[j].link] \in Link
  BY DEF SessInv, Typing
<1> QED
  BY <1>1 DEF Link

\* The handler reads its link.
LEMMA ReadStep ==
  ASSUME SessInv, NEW j \in DOMAIN jobs, ResetRead(j)
  PROVE  SessInv'
<1>0. PICK l : l = jobs[j].link
  OBVIOUS
<1> DEFINE at == IF links[l].spent THEN "refused" ELSE "read"
           slip == links[l].slip \/ (~ links[l].spent /\ Holding(l) # {})
           link == [links[l] EXCEPT !.slip = slip]
<1>1. /\ jobs \in Seq(Job) /\ jobs[j] \in Job /\ links \in Seq(Link) /\ gen \in [Users -> Nat]
      /\ l \in DOMAIN links /\ links[l] \in Link
  BY <1>0, HandlerTypes
<1>2. /\ jobs' = [jobs EXCEPT ![j].at = at] /\ jobs[j].at = "sent"
      /\ links' = [links EXCEPT ![l] = link]
      /\ UNCHANGED <<pairs, usable, gen, loose, mem, disk, tries, login, reset>>
  BY <1>0, <1>1 DEF ResetRead, JobBecomes, tokenVars, dialogVars
<1>3. /\ link \in Link /\ link.user = links[l].user /\ link.uses = links[l].uses
      /\ link.spent = links[l].spent /\ link.slip = slip
  <2>1. slip \in BOOLEAN
    BY <1>1 DEF Link
  <2> HIDE DEF slip
  <2> QED
    BY <1>1, <2>1 DEF Link
<1> HIDE DEF link
<1>4. /\ DOMAIN jobs' = DOMAIN jobs /\ jobs'[j].at = at /\ jobs'[j].link = l /\ links'[l] = link
      /\ \A i \in DOMAIN jobs : i # j => jobs'[i] = jobs[i]
  BY <1>0, <1>1, <1>2 DEF Job
<1>5. LinkOK(l)'
  <2>1. j \notin Holding(l) /\ Holding(l) \subseteq DOMAIN jobs
    BY <1>0, <1>2 DEF Holding
  <2>2. LinkOK(l)
    BY <1>1 DEF SessInv, LinksOK
  <2>3. CASE links[l].spent
    <3>1. Holding(l)' = Holding(l) /\ \A i \in Holding(l) : jobs'[i] = jobs[i]
      BY <1>4, <2>1, <2>3 DEF Holding
    <3> QED
      BY <1>3, <1>4, <2>2, <2>3, <3>1 DEF LinkOK
  <2>4. CASE ~ links[l].spent /\ Holding(l) = {}
    <3>1. Holding(l)' = {j}
      BY <1>4, <2>1, <2>4 DEF Holding
    <3> QED
      BY <1>3, <1>4, <2>2, <2>4, <3>1 DEF LinkOK
  <2>5. CASE ~ links[l].spent /\ Holding(l) # {}
    BY <1>3, <1>4, <2>5 DEF LinkOK
  <2> QED
    BY <2>3, <2>4, <2>5
<1>6. \A u, g : Sound(u, g) => Sound(u, g)'
  <2>1. \A i \in DOMAIN jobs : jobs[i].link \in DOMAIN links
    BY DEF SessInv, Typing
  <2>2. \A m \in DOMAIN links : links'[m].user = links[m].user
    BY <1>0, <1>1, <1>2, <1>3
  <2>3. \A u : Revoking(u) => Revoking(u)'
    BY <1>2, <1>4, <2>1, <2>2 DEF Revoking
  <2> QED
    BY <1>2, <2>3 DEF Sound
<1>7. Fresh'
  BY <1>2, <1>6, SoundStays
<1> QED
  <2> at \in {"read", "refused"}
    OBVIOUS
  <2> HIDE DEF at
  <2>1. Handled(j, l, at, link)
    BY <1>0, <1>1, <1>2, <1>3 DEF Handled
  <2> QED
    BY <1>5, <1>7, <2>1, HandlerStep

\* It changes the password, or cannot.
LEMMA ChangeStep ==
  ASSUME SessInv, NEW j \in DOMAIN jobs, ChangePassword(j)
  PROVE  SessInv'
<1>0. PICK l, u, n : l = jobs[j].link /\ u = links[l].user /\ n = links[l].uses + 1
  OBVIOUS
<1> DEFINE used == [links[l] EXCEPT !.uses = n]
<1>1. /\ jobs \in Seq(Job) /\ jobs[j] \in Job /\ links \in Seq(Link) /\ gen \in [Users -> Nat]
      /\ l \in DOMAIN links /\ links[l] \in Link /\ u \in Users
  BY <1>0, HandlerTypes
<1>2. PICK at \in {"changed", "refused"}, link \in {used, links[l]} :
      /\ jobs[j].at = "read" /\ jobs' = [jobs EXCEPT ![j].at = at]
      /\ links' = [links EXCEPT ![l] = link]
      /\ UNCHANGED <<pairs, usable, loose, mem, disk, tries, login, reset>>
      /\ \/ at = "changed" /\ link = used /\ gen' = [gen EXCEPT ![u] = @ + 1]
         \/ at = "refused" /\ link = links[l] /\ gen' = gen
  <2>1. /\ jobs[j].at = "read"
        /\ UNCHANGED <<pairs, usable, loose, mem, disk, tries, login, reset>>
    BY DEF ChangePassword, dialogVars
  <2>2. CASE /\ JobBecomes(j, "changed")
             /\ gen' = [gen EXCEPT ![u] = @ + 1]
             /\ links' = [links EXCEPT ![l].uses = @ + 1]
    BY <1>0, <1>1, <2>1, <2>2 DEF JobBecomes
  <2>3. CASE JobBecomes(j, "refused") /\ UNCHANGED <<gen, links>>
    BY <1>1, <2>1, <2>3 DEF JobBecomes
  <2> QED
    BY <1>0, <2>2, <2>3 DEF ChangePassword
<1>3. /\ link \in Link /\ link.user = u /\ link.spent = links[l].spent /\ link.slip = links[l].slip
      /\ link.uses = IF at = "changed" THEN n ELSE links[l].uses
  <2>1. n \in Nat
    BY <1>0, <1>1 DEF Link
  <2>2. /\ used \in Link /\ used.user = u /\ used.spent = links[l].spent /\ used.slip = links[l].slip
        /\ used.uses = n
    BY <1>0, <1>1, <2>1 DEF Link
  <2> HIDE DEF used
  <2>3. CASE at = "changed" /\ link = used
    BY <2>2, <2>3
  <2>4. CASE at = "refused" /\ link = links[l]
    BY <1>0, <1>1, <2>4
  <2> QED
    BY <1>2, <2>3, <2>4
<1>4. /\ DOMAIN jobs' = DOMAIN jobs /\ jobs'[j].at = at /\ jobs'[j].link = l /\ links'[l] = link
      /\ \A i \in DOMAIN jobs : i # j => jobs'[i] = jobs[i]
  BY <1>0, <1>1, <1>2 DEF Job
<1> HIDE DEF used
<1>5. LinkOK(l)'
  <2>1. j \in Holding(l) /\ Holding(l) \subseteq DOMAIN jobs
    BY <1>0, <1>2 DEF Holding
  <2>2. Holding(l)' = IF at = "changed" THEN Holding(l) ELSE Holding(l) \ {j}
    BY <1>2, <1>4, <2>1 DEF Holding
  <2> SUFFICES ASSUME ~ link.slip
               PROVE  LinkOK(l)'
    BY <1>4 DEF LinkOK
  <2>3. /\ Holding(l) = {j} /\ links[l].uses = 0
    <3>1. LinkOK(l) /\ ~ links[l].slip
      BY <1>1, <1>3 DEF SessInv, LinksOK
    <3> QED
      BY <1>2, <2>1, <3>1 DEF LinkOK
  <2>4. CASE at = "changed"
    <3>1. Holding(l)' = {j} /\ links'[l].uses = 1
      BY <1>0, <1>3, <1>4, <2>2, <2>3, <2>4
    <3> QED
      BY <1>4, <2>4, <3>1 DEF LinkOK
  <2>5. CASE at = "refused"
    <3>1. Holding(l)' = {} /\ links'[l].uses = 0
      BY <1>3, <1>4, <2>2, <2>3, <2>5
    <3> QED
      BY <3>1 DEF LinkOK
  <2> QED
    BY <1>2, <2>4, <2>5
<1>6. \A v \in Users : \A g : Sound(v, g) => Sound(v, g)'
  <2>1. \A i \in DOMAIN jobs : jobs[i].link \in DOMAIN links
    BY DEF SessInv, Typing
  <2>2. \A m \in DOMAIN links : links'[m].user = links[m].user
    BY <1>0, <1>1, <1>2, <1>3
  <2>3. \A v : Revoking(v) => Revoking(v)'
    BY <1>2, <1>4, <2>1, <2>2 DEF Revoking
  <2>4. at = "changed" => Revoking(u)'
    BY <1>0, <1>1, <1>4, <2>2 DEF Revoking
  <2>5. \A v \in Users : v # u => gen'[v] = gen[v]
    BY <1>1, <1>2
  <2> QED
    BY <1>2, <2>3, <2>4, <2>5 DEF Sound
<1>7. gen' \in [Users -> Nat]
  BY <1>1, <1>2
<1>8. Fresh'
  BY <1>2, <1>6, SoundStays
<1> QED
  <2>1. Handled(j, l, at, link)
    BY <1>0, <1>2, <1>3, <1>7 DEF Handled
  <2> QED
    BY <1>5, <1>8, <2>1, HandlerStep

\* It marks the link as used, or fails to.
LEMMA SpendStep ==
  ASSUME SessInv, NEW j \in DOMAIN jobs, SpendLink(j)
  PROVE  SessInv'
<1>0. PICK l : l = jobs[j].link
  OBVIOUS
<1>1. /\ jobs \in Seq(Job) /\ jobs[j] \in Job /\ links \in Seq(Link) /\ gen \in [Users -> Nat]
      /\ l \in DOMAIN links /\ links[l] \in Link
  BY <1>0, HandlerTypes
<1>2. PICK failed \in BOOLEAN :
        links' = [links EXCEPT ![l] = [links[l] EXCEPT !.spent = links[l].spent \/ ~ failed,
                                                       !.slip = links[l].slip \/ failed]]
  BY <1>0 DEF SpendLink
<1> DEFINE spent == links[l].spent \/ ~ failed
           slip == links[l].slip \/ failed
           link == [links[l] EXCEPT !.spent = spent, !.slip = slip]
<1>3. /\ jobs' = [jobs EXCEPT ![j].at = "used"] /\ jobs[j].at = "changed"
      /\ links' = [links EXCEPT ![l] = link]
      /\ UNCHANGED <<pairs, usable, gen, loose, mem, disk, tries, login, reset>>
  BY <1>0, <1>1, <1>2 DEF SpendLink, JobBecomes, dialogVars
<1>4. /\ link \in Link /\ link.user = links[l].user /\ link.uses = links[l].uses
      /\ link.spent = spent /\ link.slip = slip
  <2>1. slip \in BOOLEAN /\ spent \in BOOLEAN
    BY <1>1 DEF Link
  <2> HIDE DEF slip, spent
  <2> QED
    BY <1>1, <2>1 DEF Link
<1> HIDE DEF link
<1>5. /\ DOMAIN jobs' = DOMAIN jobs /\ jobs'[j].at = "used" /\ jobs'[j].link = l /\ links'[l] = link
      /\ \A i \in DOMAIN jobs : i # j => jobs'[i] = jobs[i]
  BY <1>0, <1>1, <1>3 DEF Job
<1>6. LinkOK(l)'
  <2>1. j \in Holding(l) /\ Holding(l) \subseteq DOMAIN jobs
    BY <1>0, <1>3 DEF Holding
  <2>2. Holding(l)' = Holding(l) \ {j}
    BY <1>5, <2>1 DEF Holding
  <2> SUFFICES ASSUME ~ link.slip
               PROVE  LinkOK(l)'
    BY <1>5 DEF LinkOK
  <2>3. ~ links[l].slip /\ link.spent
    BY <1>4
  <2>4. Holding(l) = {j} /\ links[l].uses \in {0, 1}
    <3>1. LinkOK(l) /\ ~ links[l].slip
      BY <1>1, <2>3 DEF SessInv, LinksOK
    <3> QED
      BY <2>1, <3>1 DEF LinkOK
  <2>5. Holding(l)' = {}
    BY <2>2, <2>4
  <2> QED
    BY <1>4, <1>5, <2>3, <2>4, <2>5 DEF LinkOK
<1>7. \A u \in Users : \A g : Sound(u, g) => Sound(u, g)'
  <2>1. \A i \in DOMAIN jobs : jobs[i].link \in DOMAIN links
    BY DEF SessInv, Typing
  <2>2. \A m \in DOMAIN links : links'[m].user = links[m].user
    BY <1>0, <1>1, <1>3, <1>4
  <2>3. \A u : Revoking(u) => Revoking(u)'
    BY <1>0, <1>3, <1>5, <2>1, <2>2 DEF Revoking
  <2> QED
    BY <1>3, <2>3 DEF Sound
<1>8. Fresh'
  BY <1>3, <1>7, SoundStays
<1> QED
  <2>1. Handled(j, l, "used", link)
    BY <1>0, <1>1, <1>3, <1>4 DEF Handled
  <2> QED
    BY <1>6, <1>8, <2>1, HandlerStep

\* It revokes the user's tokens, or fails to, or too early.
LEMMA RevokeStep ==
  ASSUME SessInv, NEW j \in DOMAIN jobs, RevokeTokens(j)
  PROVE  SessInv'
<1>0. PICK l, u : l = jobs[j].link /\ u = links[l].user
  OBVIOUS
<1>1. /\ jobs \in Seq(Job) /\ jobs[j] \in Job /\ links \in Seq(Link) /\ gen \in [Users -> Nat]
      /\ l \in DOMAIN links /\ links[l] \in Link /\ u \in Users
  BY <1>0, HandlerTypes
<1>2. /\ jobs' = [jobs EXCEPT ![j].at = "done"] /\ jobs[j].at = "used"
      /\ links' = [links EXCEPT ![l] = links[l]]
      /\ UNCHANGED <<pairs, gen, links, mem, disk, tries, login, reset>>
  BY <1>0, <1>1 DEF RevokeTokens, JobBecomes, dialogVars
<1>3. /\ DOMAIN jobs' = DOMAIN jobs /\ jobs'[j].at = "done" /\ jobs'[j].link = l
      /\ \A i \in DOMAIN jobs : i # j => jobs'[i] = jobs[i]
  BY <1>0, <1>1, <1>2 DEF Job
<1>4. LinkOK(l)'
  <2>1. Holding(l)' = Holding(l) /\ j \notin Holding(l) /\ Holding(l) \subseteq DOMAIN jobs
    BY <1>2, <1>3 DEF Holding
  <2>2. LinkOK(l)
    BY <1>1 DEF SessInv, LinksOK
  <2> QED
    BY <1>2, <1>3, <2>1, <2>2 DEF LinkOK
<1>5. usable' \subseteq usable /\ \A v : v # u => (v \in loose' <=> v \in loose)
  BY <1>0 DEF RevokeTokens
<1>6. \A v \in Users : v # u => \A g : Sound(v, g) => Sound(v, g)'
  <2>1. \A v \in Users : v # u => (Revoking(v) => Revoking(v)')
    BY <1>0, <1>2, <1>3 DEF Revoking
  <2> QED
    BY <1>2, <1>5, <2>1 DEF Sound
<1>7. u \in loose' \/ (usable' = usable \ Revoked(u) /\ ~ Overtaken(u))
  BY <1>0 DEF RevokeTokens
<1>8. /\ \A k \in DOMAIN pairs : pairs[k].user \in Users
      /\ \A t \in Tabs : login[t].at = "read" => login[t].who \in Users
  <2>1. \A k \in DOMAIN pairs : pairs[k] \in Pair
    BY DEF SessInv, Typing
  <2> QED
    BY <2>1 DEF SessInv, Typing, Pair
<1>9. \A k \in usable' : SoundPair(k)'
  <2> SUFFICES ASSUME NEW k \in usable'
               PROVE  SoundPair(k)'
    OBVIOUS
  <2>1. SoundPair(k) /\ k \in DOMAIN pairs
    BY <1>5 DEF SessInv, Fresh, SoundPair
  <2>2. CASE u \in loose'
    BY <1>2, <1>6, <1>8, <2>1, <2>2 DEF SoundPair, Sound
  <2>3. CASE usable' = usable \ Revoked(u)
    <3>1. pairs[k].user # u
      BY <2>1, <2>3 DEF Revoked
    <3> QED
      BY <1>2, <1>6, <1>8, <2>1, <3>1 DEF SoundPair
  <2> QED
    BY <1>7, <2>2, <2>3
<1>10. \A t \in Tabs : SoundEntry(login[t])' /\ \A a \in Slots : SoundTry(tries[t][a])'
  <2> SUFFICES ASSUME NEW t \in Tabs
               PROVE  SoundEntry(login[t])' /\ \A a \in Slots : SoundTry(tries[t][a])'
    OBVIOUS
  <2>1. SoundEntry(login[t])'
    <3>1. CASE u \in loose'
      BY <1>2, <1>6, <1>8, <3>1 DEF SessInv, Fresh, SoundEntry, Sound
    <3>2. CASE ~ Overtaken(u)
      BY <1>2, <1>6, <1>8, <3>2 DEF SessInv, Fresh, SoundEntry, Sound, Overtaken
    <3> QED
      BY <1>7, <3>1, <3>2
  <2>2. ASSUME NEW a \in Slots
        PROVE  SoundTry(tries[t][a])'
    <3>1. CASE u \in loose'
      BY <1>2, <1>6, <1>8, <3>1 DEF SessInv, Fresh, SoundTry, SoundPair, Sound
    <3>2. CASE ~ Overtaken(u)
      BY <1>2, <1>6, <1>8, <3>2 DEF SessInv, Fresh, SoundTry, SoundPair, Overtaken
    <3> QED
      BY <1>7, <3>1, <3>2
  <2> QED
    BY <2>1, <2>2
<1> QED
  <2>1. Fresh'
    BY <1>2, <1>9, <1>10 DEF Fresh
  <2>2. Handled(j, l, "done", links[l])
    BY <1>0, <1>1, <1>2, <1>5 DEF Handled
  <2> QED
    BY <1>4, <2>1, <2>2, HandlerStep

\* A link is mailed, and the older ones are spent.
LEMMA ForgotStep ==
  ASSUME SessInv, NEW t \in Tabs, NEW u \in Users, ForgotPassword(t, u)
  PROVE  SessInv'
<1> DEFINE one(l) == [links[l] EXCEPT !.spent = @ \/ links[l].user = u]
           kept == [l \in DOMAIN links |-> one(l)]
           new == [user |-> u, spent |-> FALSE, uses |-> 0, slip |-> FALSE]
<1>0. PICK n : n = Len(links) + 1
  OBVIOUS
<1>1. /\ links \in Seq(Link) /\ Len(links) \in Nat /\ DOMAIN links = 1 .. Len(links) /\ new \in Link
      /\ \A j \in DOMAIN jobs : jobs[j].link \in DOMAIN links
  BY DEF SessInv, Typing, Link
<1>2. \A l \in DOMAIN links :
        /\ kept[l] \in Link /\ kept[l].uses = links[l].uses /\ kept[l].slip = links[l].slip
        /\ kept[l].user = links[l].user /\ (links[l].spent => kept[l].spent)
  <2> SUFFICES ASSUME NEW l \in DOMAIN links
               PROVE  /\ one(l) \in Link /\ one(l).uses = links[l].uses /\ one(l).slip = links[l].slip
                      /\ one(l).user = links[l].user /\ (links[l].spent => one(l).spent)
    OBVIOUS
  <2> DEFINE v == links[l].spent \/ links[l].user = u
  <2>1. links[l] \in Link
    BY <1>1
  <2>2. v \in BOOLEAN /\ (links[l].spent => v) /\ one(l) = [links[l] EXCEPT !.spent = v]
    OBVIOUS
  <2> HIDE DEF v, one
  <2>3. /\ one(l) \in Link /\ one(l).uses = links[l].uses /\ one(l).spent = v
        /\ one(l).slip = links[l].slip /\ one(l).user = links[l].user
    BY <2>1, <2>2 DEF Link
  <2> QED
    BY <2>2, <2>3
<1>3. kept \in Seq(Link) /\ DOMAIN kept = DOMAIN links
  <2>1. kept \in [1 .. Len(links) -> Link]
    BY <1>1, <1>2
  <2> QED
    BY <1>1, <2>1
<1>4. /\ links' = Append(kept, new)
      /\ UNCHANGED <<pairs, usable, gen, jobs, loose, mem, disk, tries, login, reset>>
  BY DEF ForgotPassword, tokenVars
<1> HIDE DEF kept
<1>5. /\ links' \in Seq(Link) /\ DOMAIN links' = DOMAIN links \cup {n} /\ n \notin DOMAIN links
      /\ links'[n] = new /\ \A l \in DOMAIN links : links'[l] = kept[l]
  <2>1. Len(kept) = Len(links)
    BY <1>1, <1>3
  <2> HIDE DEF new
  <2> QED
    BY <1>0, <1>1, <1>3, <1>4, <2>1
<1>6. Typing'
  <2>1. \A x \in Tabs : Linked(reset'[x], DOMAIN links', DOMAIN jobs)
    BY <1>4, <1>5 DEF SessInv, Typing, Linked
  <2> QED
    BY <1>1, <1>4, <1>5, <2>1 DEF SessInv, Typing
<1>7. Fresh'
  <2>1. \A v : Revoking(v) => Revoking(v)'
    BY <1>1, <1>2, <1>4, <1>5 DEF Revoking
  <2>2. \A v, g : Sound(v, g) => Sound(v, g)'
    BY <1>4, <2>1 DEF Sound
  <2> QED
    BY <1>4, <2>2 DEF SessInv, Fresh, SoundTry, SoundEntry, SoundPair
<1>8. LinksOK'
  <2>1. \A l : Holding(l)' = Holding(l)
    BY <1>4 DEF Holding
  <2>2. Holding(n) = {} /\ links'[n].uses = 0
    BY <1>1, <1>5 DEF Holding
  <2>3. LinkOK(n)'
    BY <2>1, <2>2 DEF LinkOK
  <2>4. ASSUME NEW l \in DOMAIN links
        PROVE  LinkOK(l)'
    <3>1. LinkOK(l)
      BY DEF SessInv, LinksOK
    <3> QED
      BY <1>2, <1>4, <1>5, <2>1, <3>1 DEF LinkOK
  <2> QED
    BY <1>5, <2>3, <2>4 DEF LinksOK
<1> QED
  BY <1>6, <1>7, <1>8 DEF SessInv

\* The page is loaded again, by a link perhaps.
LEMMA LoadStep ==
  ASSUME SessInv, NEW t \in Tabs, NEW d, NEW l \in DOMAIN links \cup {0}, Load(t, d, l)
  PROVE  SessInv'
<1> DEFINE form == [at |-> IF l = 0 THEN "idle" ELSE "validating", link |-> l, job |-> 0]
           left == [a \in Slots |-> [tries[t][a] EXCEPT !.ours = FALSE]]
<1>1. /\ UNCHANGED <<pairs, usable, gen, links, jobs, loose, disk>>
      /\ mem' = [mem EXCEPT ![t] = disk]
      /\ login' = [login EXCEPT ![t] = NoLogin]
      /\ reset' = [reset EXCEPT ![t] = form]
  BY DEF Load, serverVars, tokenVars, resetVars
<1>2. /\ reset \in [Tabs -> Form] /\ login \in [Tabs -> Entry] /\ mem \in [Tabs -> Nat] /\ disk \in Nat
      /\ tries \in [Tabs -> [Slots -> Try]] /\ links \in Seq(Link)
      /\ \A x \in Tabs : login[x].at # "idle" => login[x].who \in Users
      /\ \A x \in Tabs : Linked(reset[x], DOMAIN links, DOMAIN jobs)
      /\ NoLogin \in Entry /\ NoLogin.at = "idle"
  BY DEF SessInv, Typing, NoLogin, Entry
<1>3. form \in Form /\ Linked(form, DOMAIN links, DOMAIN jobs)
  <2>1. l \in Nat
    BY <1>2
  <2> QED
    BY <2>1 DEF Form, Linked
<1>4. /\ left \in [Slots -> Try]
      /\ \A a \in Slots : left[a].at = tries[t][a].at /\ left[a].pair = tries[t][a].pair
      /\ Asked(disk) \in Try /\ Asked(disk).at = "sent"
  <2>1. Asked(disk) \in Try /\ Asked(disk).at = "sent"
    BY <1>2 DEF Try, Asked
  <2>2. ASSUME NEW a \in Slots
        PROVE  left[a] \in Try /\ left[a].at = tries[t][a].at /\ left[a].pair = tries[t][a].pair
    <3>1. tries[t][a] \in Try
      BY <1>2
    <3> QED
      BY <3>1 DEF Try
  <2> QED
    BY <2>1, <2>2
<1>5. \/ \E p \in Slots : tries' = [tries EXCEPT ![t] = [left EXCEPT ![p] = Asked(disk)]]
      \/ tries' = [tries EXCEPT ![t] = left]
  BY DEF Load
<1> HIDE DEF form, left
<1>6. /\ tries' \in [Tabs -> [Slots -> Try]]
      /\ \A x \in Tabs : \A a \in Slots :
           tries'[x][a].at = "read" => tries[x][a].at = "read" /\ tries'[x][a].pair = tries[x][a].pair
  <2>1. CASE tries' = [tries EXCEPT ![t] = left]
    BY <1>2, <1>4, <2>1
  <2>2. ASSUME NEW p \in Slots, tries' = [tries EXCEPT ![t] = [left EXCEPT ![p] = Asked(disk)]]
        PROVE  /\ tries' \in [Tabs -> [Slots -> Try]]
               /\ \A x \in Tabs : \A a \in Slots :
                    tries'[x][a].at = "read" => tries[x][a].at = "read" /\ tries'[x][a].pair = tries[x][a].pair
    <3> DEFINE row == [left EXCEPT ![p] = Asked(disk)]
    <3>1. /\ row \in [Slots -> Try]
          /\ \A a \in Slots : row[a].at = "read" => tries[t][a].at = "read" /\ row[a].pair = tries[t][a].pair
      BY <1>4
    <3>2. tries' = [tries EXCEPT ![t] = row]
      BY <2>2
    <3> HIDE DEF row
    <3> QED
      BY <1>2, <3>1, <3>2
  <2> QED
    BY <1>5, <2>1, <2>2
<1>7. /\ login' \in [Tabs -> Entry] /\ \A x \in Tabs : login'[x].at # "idle" => login'[x].who \in Users
      /\ NothingRead
  BY <1>1, <1>2, <1>6 DEF NothingRead
<1>8. /\ reset' \in [Tabs -> Form] /\ \A x \in Tabs : Linked(reset'[x], DOMAIN links, DOMAIN jobs)
      /\ mem' \in [Tabs -> Nat]
  BY <1>1, <1>2, <1>3
<1> QED
  BY <1>1, <1>2, <1>6, <1>7, <1>8, BrowserStep

\* The user signs out.
LEMMA LogoutStep ==
  ASSUME SessInv, NEW t \in Tabs, HandleLogout(t)
  PROVE  SessInv'
<1>1. mem' \in [Tabs -> Nat] /\ disk' \in Nat /\ tries \in [Tabs -> [Slots -> Try]]
  BY DEF HandleLogout, Keep, SessInv, Typing
<1>2. UNCHANGED <<pairs, usable, gen, links, jobs, loose, tries, login, reset>>
  BY DEF HandleLogout, tokenVars, resetVars, dialogVars
<1> QED
  BY <1>1, <1>2, BrowserStep DEF SessInv, Typing, NothingRead

-----------------------------------------------------------------------------

\* Every step keeps the invariant.
LEMMA Inductive ==
  ASSUME SessInv, [Next]_vars
  PROVE  SessInv'
<1>1. ASSUME NEW t \in Tabs, Answers(t) \/ Losses(t) \/ Clicks(t)
      PROVE  SessInv'
  <2>1. ASSUME NEW l \in DOMAIN links, OpenLink(t, l)
        PROVE  SessInv'
    BY <2>1, LoadStep DEF OpenLink
  <2>2. CASE Reload(t)
    BY <2>2, LoadStep DEF Reload
  <2>3. CASE Answers(t)
    BY <2>3, RequestStep, RefreshStep, LoginStep, FormStep DEF Answers
  <2>4. CASE Losses(t)
    BY <2>4, RequestStep, RefreshStep, LoginStep, FormStep DEF Losses
  <2>5. CASE Clicks(t)
    BY <2>1, <2>2, <2>5, RequestStep, LoginStep, FormStep, SubmitStep, ForgotStep, LogoutStep DEF Clicks
  <2> QED
    BY <1>1, <2>3, <2>4, <2>5
<1>2. ASSUME NEW k, Logout(k) \/ LogoutLost(k) \/ ExpireRefresh(k) \/ Expire
      PROVE  SessInv'
  <2>1. /\ usable' \subseteq usable
        /\ UNCHANGED <<pairs, gen, links, jobs, loose, mem, disk, tries, login, reset>>
    BY <1>2 DEF Logout, LogoutLost, ExpireRefresh, Expire, dialogVars, resetVars
  <2> QED
    BY <2>1, Fewer
<1>3. ASSUME NEW j \in DOMAIN jobs, ResetPassword(j)
      PROVE  SessInv'
  BY <1>3, ReadStep, ChangeStep, SpendStep, RevokeStep DEF ResetPassword
<1>4. CASE UNCHANGED vars
  BY <1>4, Fewer DEF vars
<1> QED
  BY <1>1, <1>2, <1>3, <1>4 DEF Next

\* At first there are no pairs, no links and nothing under way.
LEMMA Initially == Init => SessInv
<1> SUFFICES ASSUME Init
             PROVE  SessInv
  OBVIOUS
<1>1. Typing
  BY DEF Init, Typing, Linked, NoTry, Try, NoLogin, Entry, NoReset, Form
<1>2. Fresh /\ LinksOK
  BY DEF Init, Fresh, SoundTry, SoundEntry, LinksOK, NoTry, NoLogin
<1> QED
  BY <1>1, <1>2 DEF SessInv

\* A reset link changes the password once, unless two handlers hold it at once
\* or spending it fails; and a refresh token that works stems from a sign-in
\* with the password of now, unless the user's tokens are still to be revoked,
\* could not be, or were while one of them was being made.
THEOREM ResetsHoldAlways == Spec => []ResetsHold
<1>1. SessInv /\ [Next]_vars => SessInv'
  BY Inductive
<1>2. SessInv => ResetsHold
  <2> SUFFICES ASSUME SessInv
               PROVE  ResetEndsSessions /\ ResetOnce
    BY DEF ResetsHold
  <2>1. ResetEndsSessions
    BY DEF SessInv, Fresh, SoundPair, Sound, ResetEndsSessions
  <2>2. ResetOnce
    BY DEF SessInv, LinksOK, LinkOK, ResetOnce
  <2> QED
    BY <2>1, <2>2
<1> QED
  BY <1>1, <1>2, Initially, PTL DEF Spec

-----------------------------------------------------------------------------
(* Stores and requests.                                                      *)
(*                                                                           *)
(* Whatever users and tabs do, what a tab keeps or waits for was made by the *)
(* server (Names), a request that waits waits for a refresh that this page   *)
(* began (Shared), and every pair was paid for by a click: a click makes a   *)
(* request, a refresh or a sign-in, and each of these makes at most one      *)
(* pair, a request by the refresh it asks for (Paid).                        *)

Request == [at : {"idle", "sent", "wait"}, who : Users \cup {0}, pair : Nat,
            last : BOOLEAN, slot : Nat]

Shapes ==
  /\ pairs \in Seq(Pair) /\ gen \in [Users -> Nat] /\ old \in Nat
  /\ mem \in [Tabs -> Nat] /\ disk \in Nat /\ cur \in [Tabs -> Nat]
  /\ tries \in [Tabs -> [Slots -> Try]]
  /\ req \in [Tabs -> [Requests -> Request]]
  /\ login \in [Tabs -> Entry]

Tables ==
  /\ \A k \in DOMAIN pairs : pairs[k].chain \in 1..k /\ pairs[k].gen <= gen[pairs[k].user]
  /\ old <= Len(pairs)
  /\ usable \cup excused \cup slips \cup ended \cup byes \subseteq DOMAIN pairs

Known == {0} \cup DOMAIN pairs

TryNames(try, known) ==
  /\ try.at # "idle" => try.pair \in known /\ try.pair # 0
  /\ try.at = "granted" => try.got \in known /\ try.got # 0

LoginNames(entry, known, now) ==
  /\ entry.at # "idle" => entry.who \in Users /\ entry.gen <= now[entry.who]
  /\ entry.at = "granted" => entry.pair \in known /\ entry.pair # 0

Names ==
  /\ disk \in Known /\ \A t \in Tabs : mem[t] \in Known
  /\ \A t \in Tabs : \A a \in Slots : TryNames(tries[t][a], Known)
  /\ \A t \in Tabs : \A r \in Requests : req[t][r].pair \in Known
  /\ \A t \in Tabs : LoginNames(login[t], Known, gen)

\* Attempt a of a tab is under way and this page began it.
Ours(row, a) == a \in Slots /\ row[a].at # "idle" /\ row[a].ours

Shared ==
  /\ \A t \in Tabs : cur[t] # 0 => Ours(tries[t], cur[t])
  /\ \A t \in Tabs : \A r \in Requests : req[t][r].at = "wait" => Ours(tries[t], req[t][r].slot)

\* What may still make a pair.
AsksFor(call) == call.at = "sent" /\ ~ call.last
Asking     == {x \in Tabs \X Requests : AsksFor(req[x[1]][x[2]])}
Exchanging == {x \in Tabs \X Slots : tries[x[1]][x[2]].at \in {"sent", "read"}}
Entering   == {t \in Tabs : login[t].at \in {"sent", "read"}}

Paid ==
  /\ IsFiniteSet(Asking) /\ IsFiniteSet(Exchanging) /\ IsFiniteSet(Entering)
  /\ Len(pairs) + Cardinality(Asking) + Cardinality(Exchanging) + Cardinality(Entering) <= clicks
  /\ clicks \in 0..MaxClicks

StoreInv == Shapes /\ Tables /\ Names /\ Shared /\ Paid

\* A set that loses nothing but gains at most one element.
LEMMA GainsOne ==
  ASSUME NEW S, IsFiniteSet(S), NEW T, NEW x, T \subseteq S \cup {x}
  PROVE  IsFiniteSet(T) /\ Cardinality(T) <= Cardinality(S) + 1 /\ Cardinality(T) \in Nat /\ Cardinality(S) \in Nat
<1>1. IsFiniteSet(S \cup {x}) /\ Cardinality(S \cup {x}) <= Cardinality(S) + 1
      /\ Cardinality(S) \in Nat /\ Cardinality(S \cup {x}) \in Nat
  <2>1. IsFiniteSet(S \cup {x}) /\ (Cardinality(S \cup {x}) = Cardinality(S) \/ Cardinality(S \cup {x}) = Cardinality(S) + 1)
    BY FS_AddElement
  <2>2. Cardinality(S) \in Nat
    BY FS_CardinalityType
  <2> QED
    BY <2>1, <2>2
<1>2. IsFiniteSet(T) /\ Cardinality(T) <= Cardinality(S \cup {x})
  BY <1>1, FS_Subset
<1>3. Cardinality(T) \in Nat
  BY <1>2, FS_CardinalityType
<1> QED
  BY <1>1, <1>2, <1>3

\* A set that gains nothing.
LEMMA GainsNone ==
  ASSUME NEW S, IsFiniteSet(S), NEW T, T \subseteq S
  PROVE  IsFiniteSet(T) /\ Cardinality(T) <= Cardinality(S) /\ Cardinality(T) \in Nat /\ Cardinality(S) \in Nat
BY FS_Subset, FS_CardinalityType

\* A set that loses an element.
LEMMA LosesOne ==
  ASSUME NEW S, IsFiniteSet(S), NEW T, NEW x \in S, T \subseteq S \ {x}
  PROVE  IsFiniteSet(T) /\ Cardinality(T) + 1 <= Cardinality(S) /\ Cardinality(T) \in Nat /\ Cardinality(S) \in Nat
<1>1. IsFiniteSet(S \ {x}) /\ Cardinality(S \ {x}) = Cardinality(S) - 1 /\ Cardinality(S) \in Nat
  BY FS_RemoveElement, FS_CardinalityType
<1>2. IsFiniteSet(T) /\ Cardinality(T) <= Cardinality(S \ {x}) /\ Cardinality(T) \in Nat
  BY <1>1, GainsNone
<1> QED
  BY <1>1, <1>2

\* A step that clicks nothing, makes no pair and begins nothing.
LEMMA NothingBegun ==
  ASSUME Paid, Asking' \subseteq Asking, Exchanging' \subseteq Exchanging, Entering' \subseteq Entering,
         Len(pairs') = Len(pairs), Len(pairs) \in Nat,
         clicks' = clicks \/ (clicks < MaxClicks /\ clicks' = clicks + 1)
  PROVE  Paid'
<1>1. /\ IsFiniteSet(Asking') /\ Cardinality(Asking') <= Cardinality(Asking)
      /\ Cardinality(Asking') \in Nat /\ Cardinality(Asking) \in Nat
  BY GainsNone DEF Paid
<1>2. /\ IsFiniteSet(Exchanging') /\ Cardinality(Exchanging') <= Cardinality(Exchanging)
      /\ Cardinality(Exchanging') \in Nat /\ Cardinality(Exchanging) \in Nat
  BY GainsNone DEF Paid
<1>3. /\ IsFiniteSet(Entering') /\ Cardinality(Entering') <= Cardinality(Entering)
      /\ Cardinality(Entering') \in Nat /\ Cardinality(Entering) \in Nat
  BY GainsNone DEF Paid
<1> QED
  BY <1>1, <1>2, <1>3, SessionAssumption DEF Paid

\* A click that begins one thing.
LEMMA OneBegun ==
  ASSUME Paid, NEW x, UNCHANGED pairs, Len(pairs) \in Nat,
         \/ Asking' \subseteq Asking \cup {x} /\ Exchanging' \subseteq Exchanging /\ Entering' \subseteq Entering
         \/ Asking' \subseteq Asking /\ Exchanging' \subseteq Exchanging \cup {x} /\ Entering' \subseteq Entering
         \/ Asking' \subseteq Asking /\ Exchanging' \subseteq Exchanging /\ Entering' \subseteq Entering \cup {x},
         clicks < MaxClicks, clicks' = clicks + 1
  PROVE  Paid'
<1>1. ASSUME NEW i \in 0..1, NEW j \in 0..1, NEW k \in 0..1, i + j + k = 1,
             /\ IsFiniteSet(Asking') /\ Cardinality(Asking') <= Cardinality(Asking) + i
             /\ Cardinality(Asking') \in Nat /\ Cardinality(Asking) \in Nat,
             /\ IsFiniteSet(Exchanging') /\ Cardinality(Exchanging') <= Cardinality(Exchanging) + j
             /\ Cardinality(Exchanging') \in Nat /\ Cardinality(Exchanging) \in Nat,
             /\ IsFiniteSet(Entering') /\ Cardinality(Entering') <= Cardinality(Entering) + k
             /\ Cardinality(Entering') \in Nat /\ Cardinality(Entering) \in Nat
      PROVE  Paid'
  <2>1. Len(pairs') = Len(pairs)
    OBVIOUS
  <2>2. Len(pairs) + Cardinality(Asking) + Cardinality(Exchanging) + Cardinality(Entering) <= clicks /\ clicks \in Nat
    BY SessionAssumption DEF Paid
  <2>3. Len(pairs') + Cardinality(Asking') + Cardinality(Exchanging') + Cardinality(Entering') <= clicks'
    <3> DEFINE l == Len(pairs)
               a == Cardinality(Asking)
               b == Cardinality(Exchanging)
               c == Cardinality(Entering)
               d == Cardinality(Asking')
               e == Cardinality(Exchanging')
               f == Cardinality(Entering')
    <3>1. /\ l \in Nat /\ a \in Nat /\ b \in Nat /\ c \in Nat /\ d \in Nat /\ e \in Nat /\ f \in Nat
          /\ l + a + b + c <= clicks /\ clicks \in Nat
          /\ d <= a + i /\ e <= b + j /\ f <= c + k /\ i + j + k = 1
      BY <1>1, <2>2
    <3> HIDE DEF l, a, b, c, d, e, f
    <3>2. l + d + e + f <= clicks + 1
      BY <3>1
    <3> QED
      BY <2>1, <3>2 DEF l, d, e, f
  <2>4. clicks' \in 0..MaxClicks
    BY <2>2, SessionAssumption
  <2> QED
    BY <1>1, <2>3, <2>4 DEF Paid
<1>2. CASE Asking' \subseteq Asking \cup {x} /\ Exchanging' \subseteq Exchanging /\ Entering' \subseteq Entering
  <2>1. /\ IsFiniteSet(Asking') /\ Cardinality(Asking') <= Cardinality(Asking) + 1
        /\ Cardinality(Asking') \in Nat /\ Cardinality(Asking) \in Nat
    BY <1>2, GainsOne DEF Paid
  <2>2. /\ IsFiniteSet(Exchanging') /\ Cardinality(Exchanging') <= Cardinality(Exchanging) + 0
        /\ Cardinality(Exchanging') \in Nat /\ Cardinality(Exchanging) \in Nat
    BY <1>2, GainsNone DEF Paid
  <2>3. /\ IsFiniteSet(Entering') /\ Cardinality(Entering') <= Cardinality(Entering) + 0
        /\ Cardinality(Entering') \in Nat /\ Cardinality(Entering) \in Nat
    BY <1>2, GainsNone DEF Paid
  <2> QED
    BY <1>1, <2>1, <2>2, <2>3
<1>3. CASE Asking' \subseteq Asking /\ Exchanging' \subseteq Exchanging \cup {x} /\ Entering' \subseteq Entering
  <2>1. /\ IsFiniteSet(Asking') /\ Cardinality(Asking') <= Cardinality(Asking) + 0
        /\ Cardinality(Asking') \in Nat /\ Cardinality(Asking) \in Nat
    BY <1>3, GainsNone DEF Paid
  <2>2. /\ IsFiniteSet(Exchanging') /\ Cardinality(Exchanging') <= Cardinality(Exchanging) + 1
        /\ Cardinality(Exchanging') \in Nat /\ Cardinality(Exchanging) \in Nat
    BY <1>3, GainsOne DEF Paid
  <2>3. /\ IsFiniteSet(Entering') /\ Cardinality(Entering') <= Cardinality(Entering) + 0
        /\ Cardinality(Entering') \in Nat /\ Cardinality(Entering) \in Nat
    BY <1>3, GainsNone DEF Paid
  <2> QED
    BY <1>1, <2>1, <2>2, <2>3
<1>4. CASE Asking' \subseteq Asking /\ Exchanging' \subseteq Exchanging /\ Entering' \subseteq Entering \cup {x}
  <2>1. /\ IsFiniteSet(Asking') /\ Cardinality(Asking') <= Cardinality(Asking) + 0
        /\ Cardinality(Asking') \in Nat /\ Cardinality(Asking) \in Nat
    BY <1>4, GainsNone DEF Paid
  <2>2. /\ IsFiniteSet(Exchanging') /\ Cardinality(Exchanging') <= Cardinality(Exchanging) + 0
        /\ Cardinality(Exchanging') \in Nat /\ Cardinality(Exchanging) \in Nat
    BY <1>4, GainsNone DEF Paid
  <2>3. /\ IsFiniteSet(Entering') /\ Cardinality(Entering') <= Cardinality(Entering) + 1
        /\ Cardinality(Entering') \in Nat /\ Cardinality(Entering) \in Nat
    BY <1>4, GainsOne DEF Paid
  <2> QED
    BY <1>1, <2>1, <2>2, <2>3
<1> QED
  BY <1>2, <1>3, <1>4

\* What RefreshTokens does: nothing, or a refresh is begun in an idle slot.
LEMMA RefreshBegun ==
  ASSUME StoreInv, NEW t \in Tabs, NEW p \in Slots \cup {0}, RefreshTokens(t, p)
  PROVE  \/ UNCHANGED <<cur, tries>> /\ (p = 0 => mem[t] = 0 /\ cur[t] = 0) /\ (p # 0 => p = cur[t])
         \/ /\ p \in Slots /\ cur[t] = 0 /\ mem[t] # 0 /\ tries[t][p].at = "idle"
            /\ Asked(mem[t]) \in Try
            /\ cur' = [cur EXCEPT ![t] = p]
            /\ tries' = [tries EXCEPT ![t][p] = Asked(mem[t])]
<1>1. Asked(mem[t]) \in Try /\ 0 \notin Slots
  BY DEF StoreInv, Shapes, Asked, Try, Slots
<1> QED
  BY <1>1 DEF RefreshTokens

\* A refresh that was begun, in what the invariant says of refreshes.
LEMMA RefreshShared ==
  ASSUME StoreInv, NEW t \in Tabs, NEW p \in Slots \cup {0},
         RefreshTokens(t, p) \/ (p = 0 /\ UNCHANGED <<cur, tries>>),
         UNCHANGED <<pairs, mem>>
  PROVE  /\ cur' \in [Tabs -> Nat] /\ tries' \in [Tabs -> [Slots -> Try]]
         /\ \A x \in Tabs : \A a \in Slots : TryNames(tries'[x][a], Known)
         /\ \A x \in Tabs : cur'[x] # 0 => Ours(tries'[x], cur'[x])
         /\ \A x \in Tabs : \A a : Ours(tries[x], a) => Ours(tries'[x], a)
         /\ p # 0 => Ours(tries'[t], p)
         /\ Exchanging' \subseteq Exchanging \cup {<<t, p>>}
         /\ p = 0 => UNCHANGED tries
<1>1. /\ cur \in [Tabs -> Nat] /\ tries \in [Tabs -> [Slots -> Try]] /\ 0 \notin Slots /\ Slots \subseteq Nat
      /\ \A x \in Tabs : \A a \in Slots : TryNames(tries[x][a], Known)
      /\ \A x \in Tabs : cur[x] # 0 => Ours(tries[x], cur[x])
      /\ mem[t] \in Known
  BY DEF StoreInv, Shapes, Names, Shared, Slots
<1>2. CASE UNCHANGED <<cur, tries>> /\ (p # 0 => p = cur[t])
  BY <1>1, <1>2 DEF Exchanging
<1>3. CASE /\ p \in Slots /\ cur[t] = 0 /\ mem[t] # 0 /\ tries[t][p].at = "idle"
           /\ Asked(mem[t]) \in Try
           /\ cur' = [cur EXCEPT ![t] = p]
           /\ tries' = [tries EXCEPT ![t][p] = Asked(mem[t])]
  <2> DEFINE new == Asked(mem[t])
  <2>1. new \in Try /\ new.at = "sent" /\ new.ours /\ TryNames(new, Known) /\ tries' = [tries EXCEPT ![t][p] = new]
    BY <1>1, <1>3 DEF Asked, TryNames
  <2> HIDE DEF new
  <2>2. /\ cur' \in [Tabs -> Nat] /\ cur'[t] = p /\ \A x \in Tabs : x # t => cur'[x] = cur[x]
        /\ tries' \in [Tabs -> [Slots -> Try]]
        /\ \A x \in Tabs : \A a \in Slots : tries'[x][a] = IF x = t /\ a = p THEN new ELSE tries[x][a]
    BY <1>1, <1>3, <2>1
  <2>3. Exchanging' \subseteq Exchanging \cup {<<t, p>>}
    BY <2>2 DEF Exchanging
  <2>4. \A x \in Tabs : \A a : Ours(tries[x], a) => Ours(tries'[x], a)
    BY <1>3, <2>2 DEF Ours
  <2>5. Ours(tries'[t], p)
    BY <1>3, <2>1, <2>2 DEF Ours
  <2>6. \A x \in Tabs : cur'[x] # 0 => Ours(tries'[x], cur'[x])
    BY <1>1, <2>2, <2>4, <2>5
  <2>7. \A x \in Tabs : \A a \in Slots : TryNames(tries'[x][a], Known)
    BY <1>1, <2>1, <2>2
  <2>8. p # 0
    BY <1>1, <1>3
  <2> QED
    BY <2>2, <2>3, <2>4, <2>5, <2>6, <2>7, <2>8
<1> QED
  BY <1>2, <1>3, RefreshBegun

\* What a step of request r does: the request becomes another or none, a
\* refresh may be begun for it, and only a click begins a request.
RequestMove(t, r, call, p) ==
  /\ req' = [req EXCEPT ![t][r] = call]
  /\ RefreshTokens(t, p) \/ (p = 0 /\ UNCHANGED <<cur, tries>>)
  /\ call.at = "wait" => p # 0 /\ call.slot = p
  /\ call.at = "idle" => call.pair = 0
  /\ call.at # "idle" =>
       \/ mem[t] # 0 /\ call.who = pairs[mem[t]].user /\ call.pair = disk
       \/ req[t][r].at = "sent" /\ call.who = req[t][r].who /\ call.pair = req[t][r].pair
  /\ \/ clicks < MaxClicks /\ clicks' = clicks + 1 /\ (p = 0 \/ ~ AsksFor(call))
     \/ clicks' = clicks /\ ~ AsksFor(call) /\ (p = 0 \/ AsksFor(req[t][r]))
  /\ UNCHANGED <<serverVars, mem, disk, byes, login>>

\* Every step of a request has this form.
LEMMA RequestMoves ==
  ASSUME StoreInv, NEW t \in Tabs, NEW r \in Requests,
         Call(t, r) \/ CallAI(t, r) \/ Served(t, r) \/ CallLost(t, r)
  PROVE  \E call \in Request, p \in Slots \cup {0} : RequestMove(t, r, call, p)
<1>1. /\ req[t][r] \in Request /\ NoCall \in Request /\ NoCall.at = "idle" /\ NoCall.pair = 0 /\ disk \in Nat
      /\ mem[t] \in Known /\ Slots \subseteq Nat
  BY DEF StoreInv, Shapes, Names, Request, NoCall, Slots
<1>2. mem[t] # 0 => pairs[mem[t]].user \in Users
  <2>1. pairs \in Seq(Pair)
    BY DEF StoreInv, Shapes
  <2>2. mem[t] # 0 => pairs[mem[t]] \in Pair
    BY <1>1, <2>1 DEF Known
  <2> QED
    BY <2>2 DEF Pair
<1>3. CASE Call(t, r)
  <2> DEFINE call == Sent(pairs[mem[t]].user, disk, FALSE)
  <2>1. /\ call \in Request /\ call.at = "sent" /\ call.who = pairs[mem[t]].user /\ call.pair = disk
    BY <1>1, <1>2, <1>3 DEF Call, MayCall, Sent, Request
  <2>2. /\ mem[t] # 0 /\ clicks < MaxClicks /\ clicks' = clicks + 1
        /\ req' = [req EXCEPT ![t][r] = call]
        /\ UNCHANGED <<serverVars, mem, disk, byes, login, cur, tries>>
    BY <1>3 DEF Call, MayCall, Click, dialogVars
  <2> HIDE DEF call
  <2> QED
    BY <2>1, <2>2 DEF RequestMove
<1>4. CASE CallAI(t, r)
  <2> DEFINE call == Sent(pairs[mem[t]].user, disk, TRUE)
  <2>1. /\ call \in Request /\ call.at = "sent" /\ call.who = pairs[mem[t]].user /\ call.pair = disk /\ call.last
    BY <1>1, <1>2, <1>4 DEF CallAI, MayCall, Sent, Request
  <2>2. PICK p \in Slots \cup {0} :
          /\ RefreshTokens(t, p) \/ (p = 0 /\ UNCHANGED <<cur, tries>>)
          /\ req' = [req EXCEPT ![t][r] = IF p = 0 THEN call ELSE [call EXCEPT !.at = "wait", !.slot = p]]
    BY <1>4 DEF CallAI
  <2>3. /\ mem[t] # 0 /\ clicks < MaxClicks /\ clicks' = clicks + 1
        /\ UNCHANGED <<serverVars, mem, disk, byes, login>>
    BY <1>4 DEF CallAI, MayCall, Click, dialogVars
  <2> DEFINE waiting == [call EXCEPT !.at = "wait", !.slot = p]
  <2>4. p # 0 => /\ waiting \in Request /\ waiting.at = "wait" /\ waiting.slot = p /\ waiting.who = call.who
                 /\ waiting.pair = call.pair
    BY <1>1, <2>1 DEF Request
  <2> HIDE DEF call, waiting
  <2>5. CASE p = 0
    BY <2>1, <2>2, <2>3, <2>5 DEF RequestMove, AsksFor
  <2>6. CASE p # 0
    <3>1. RequestMove(t, r, waiting, p)
      BY <2>1, <2>2, <2>3, <2>4, <2>6 DEF RequestMove, AsksFor, waiting
    <3> QED
      BY <2>4, <2>6, <3>1
  <2> QED
    BY <2>5, <2>6
<1>5. CASE Served(t, r)
  <2>1. /\ req[t][r].at = "sent"
        /\ UNCHANGED <<serverVars, mem, disk, byes, login, clicks>>
    BY <1>5 DEF Served, dialogVars
  <2>2. CASE req' = [req EXCEPT ![t][r] = NoCall] /\ UNCHANGED <<cur, tries>>
    BY <1>1, <2>1, <2>2 DEF RequestMove, AsksFor
  <2>3. CASE /\ ~ req[t][r].last
             /\ \E p \in Slots \cup {0} :
                  /\ RefreshTokens(t, p)
                  /\ req' = [req EXCEPT ![t][r] =
                       IF p = 0 THEN NoCall ELSE [req[t][r] EXCEPT !.at = "wait", !.slot = p]]
    <3>1. PICK p \in Slots \cup {0} :
            /\ RefreshTokens(t, p)
            /\ req' = [req EXCEPT ![t][r] =
                 IF p = 0 THEN NoCall ELSE [req[t][r] EXCEPT !.at = "wait", !.slot = p]]
      BY <2>3
    <3> DEFINE waiting == [req[t][r] EXCEPT !.at = "wait", !.slot = p]
    <3>2. p # 0 => /\ waiting \in Request /\ waiting.at = "wait" /\ waiting.slot = p
                   /\ waiting.who = req[t][r].who /\ waiting.pair = req[t][r].pair
      BY <1>1 DEF Request
    <3>3. CASE p = 0
      BY <1>1, <2>1, <3>1, <3>3 DEF RequestMove, AsksFor
    <3>4. CASE p # 0
      <4>1. req' = [req EXCEPT ![t][r] = waiting]
        BY <3>1, <3>4
      <4> HIDE DEF waiting
      <4>2. RequestMove(t, r, waiting, p)
        BY <2>1, <2>3, <3>1, <3>2, <3>4, <4>1 DEF RequestMove, AsksFor
      <4> QED
        BY <3>2, <3>4, <4>2
    <3> QED
      BY <3>3, <3>4
  <2> QED
    BY <1>5, <2>2, <2>3 DEF Served
<1>6. CASE CallLost(t, r)
  BY <1>1, <1>6 DEF CallLost, RequestMove, AsksFor, dialogVars
<1> QED
  BY <1>3, <1>4, <1>5, <1>6

\* Requests keep the invariant.
LEMMA RequestStores ==
  ASSUME StoreInv, NEW t \in Tabs, NEW r \in Requests, NEW call \in Request, NEW p \in Slots \cup {0},
         RequestMove(t, r, call, p)
  PROVE  StoreInv'
<1>1. /\ req' = [req EXCEPT ![t][r] = call]
      /\ RefreshTokens(t, p) \/ (p = 0 /\ UNCHANGED <<cur, tries>>)
      /\ UNCHANGED <<pairs, old, usable, excused, slips, ended, gen, mem, disk, byes, login>>
  BY DEF RequestMove, serverVars, tokenVars, resetVars
<1>2. /\ req \in [Tabs -> [Requests -> Request]] /\ disk \in Known
      /\ \A x \in Tabs : \A q \in Requests : req[x][q].pair \in Known
      /\ \A x \in Tabs : \A q \in Requests : req[x][q].at = "wait" => Ours(tries[x], req[x][q].slot)
  BY DEF StoreInv, Shapes, Names, Shared
<1>3. /\ req' \in [Tabs -> [Requests -> Request]]
      /\ \A x \in Tabs : \A q \in Requests : req'[x][q] = IF x = t /\ q = r THEN call ELSE req[x][q]
  BY <1>1, <1>2
<1>4. /\ cur' \in [Tabs -> Nat] /\ tries' \in [Tabs -> [Slots -> Try]]
      /\ \A x \in Tabs : \A a \in Slots : TryNames(tries'[x][a], Known)
      /\ \A x \in Tabs : cur'[x] # 0 => Ours(tries'[x], cur'[x])
      /\ \A x \in Tabs : \A a : Ours(tries[x], a) => Ours(tries'[x], a)
      /\ p # 0 => Ours(tries'[t], p)
      /\ Exchanging' \subseteq Exchanging \cup {<<t, p>>}
      /\ p = 0 => UNCHANGED tries
  BY <1>1, RefreshShared
<1>5. Known' = Known /\ Tables' /\ Shapes'
  BY <1>1, <1>3, <1>4 DEF StoreInv, Shapes, Tables, Known
<1>6. call.at # "idle" => call.pair \in Known
  BY <1>2 DEF RequestMove
<1>7. \A x \in Tabs : \A q \in Requests : req'[x][q].pair \in Known
  <2>1. call.pair \in Known
    BY <1>6 DEF RequestMove, Known
  <2> QED
    BY <1>2, <1>3, <2>1
<1>8. Names'
  BY <1>1, <1>4, <1>5, <1>7 DEF StoreInv, Names
<1>9. Shared'
  <2>1. call.at = "wait" => p # 0 /\ call.slot = p
    BY DEF RequestMove
  <2> QED
    BY <1>2, <1>3, <1>4, <2>1 DEF Shared
<1>10. Paid'
  <2>1. Asking' \subseteq Asking \cup {<<t, r>>} /\ (~ AsksFor(call) => Asking' \subseteq Asking \ {<<t, r>>})
    BY <1>3 DEF Asking
  <2>2. Exchanging' \subseteq Exchanging \cup {<<t, p>>} /\ (p = 0 => Exchanging' = Exchanging)
    BY <1>4 DEF Exchanging
  <2>3. Entering' = Entering /\ Paid /\ UNCHANGED pairs /\ Len(pairs) \in Nat
    BY <1>1 DEF Entering, StoreInv, Shapes
  <2>4. CASE clicks < MaxClicks /\ clicks' = clicks + 1 /\ (p = 0 \/ ~ AsksFor(call))
    BY <2>1, <2>2, <2>3, <2>4, OneBegun
  <2>5. CASE clicks' = clicks /\ ~ AsksFor(call) /\ p = 0
    BY <2>1, <2>2, <2>3, <2>5, NothingBegun
  <2>6. CASE clicks' = clicks /\ ~ AsksFor(call) /\ AsksFor(req[t][r])
    <3>1. <<t, r>> \in Asking /\ Asking' \subseteq Asking \ {<<t, r>>}
      BY <2>1, <2>6 DEF Asking
    <3>2. /\ IsFiniteSet(Asking') /\ Cardinality(Asking') + 1 <= Cardinality(Asking)
          /\ Cardinality(Asking') \in Nat /\ Cardinality(Asking) \in Nat
      BY <3>1, <2>3, LosesOne DEF Paid
    <3>3. /\ IsFiniteSet(Exchanging') /\ Cardinality(Exchanging') <= Cardinality(Exchanging) + 1
          /\ Cardinality(Exchanging') \in Nat /\ Cardinality(Exchanging) \in Nat
      BY <2>2, <2>3, GainsOne DEF Paid
    <3>4. /\ Cardinality(Entering') = Cardinality(Entering) /\ Cardinality(Entering) \in Nat
          /\ IsFiniteSet(Entering') /\ Len(pairs') = Len(pairs)
      BY <2>3, FS_CardinalityType DEF Paid
    <3> QED
      BY <2>3, <2>6, <3>2, <3>3, <3>4 DEF Paid
  <2> QED
    BY <2>4, <2>5, <2>6 DEF RequestMove
<1> QED
  BY <1>5, <1>8, <1>9, <1>10 DEF StoreInv

\* A step that leaves stores, requests and pairs alone; the tables of the server
\* may change in what they say of the pairs there are.
LEMMA ServerStores ==
  ASSUME StoreInv, UNCHANGED <<pairs, mem, disk, cur, tries, req, login>>,
         gen' \in [Users -> Nat], \A u \in Users : gen[u] <= gen'[u],
         old' \in Nat, old' <= Len(pairs),
         usable' \cup excused' \cup slips' \cup ended' \cup byes' \subseteq DOMAIN pairs,
         clicks' = clicks \/ (clicks < MaxClicks /\ clicks' = clicks + 1)
  PROVE  StoreInv'
<1>1. Known' = Known /\ Shapes' /\ Shared'
  BY DEF StoreInv, Shapes, Known, Shared
<1>2. Tables'
  <2>1. \A k \in DOMAIN pairs : pairs[k] \in Pair /\ pairs[k].chain \in 1..k /\ pairs[k].gen <= gen[pairs[k].user]
    BY DEF StoreInv, Shapes, Tables
  <2>2. \A k \in DOMAIN pairs : pairs[k].user \in Users /\ pairs[k].gen \in Nat
    BY <2>1 DEF Pair
  <2>3. \A k \in DOMAIN pairs : pairs[k].gen <= gen'[pairs[k].user]
    BY <2>1, <2>2 DEF StoreInv, Shapes
  <2> QED
    BY <2>1, <2>3 DEF Tables
<1>3. Names'
  <2>1. ASSUME NEW t \in Tabs
        PROVE  LoginNames(login[t], Known, gen')
    <3>1. LoginNames(login[t], Known, gen) /\ login[t] \in Entry /\ gen \in [Users -> Nat]
      BY DEF StoreInv, Names, Shapes
    <3> QED
      BY <3>1 DEF LoginNames, Entry
  <2> QED
    BY <1>1, <2>1 DEF StoreInv, Names
<1>4. Paid'
  <2>1. Asking' = Asking /\ Exchanging' = Exchanging /\ Entering' = Entering /\ Len(pairs) \in Nat /\ Len(pairs') = Len(pairs)
    BY DEF Asking, Exchanging, Entering, StoreInv, Shapes
  <2> QED
    BY <2>1, NothingBegun DEF StoreInv
<1> QED
  BY <1>1, <1>2, <1>3, <1>4 DEF StoreInv

\* The same when nothing is said of the tables.
LEMMA IdleStores ==
  ASSUME StoreInv, UNCHANGED <<pairs, gen, old, usable, excused, slips, ended, byes, mem, disk, cur, tries, req, login>>,
         clicks' = clicks \/ (clicks < MaxClicks /\ clicks' = clicks + 1)
  PROVE  StoreInv'
<1>1. /\ gen' \in [Users -> Nat] /\ \A u \in Users : gen[u] <= gen'[u]
      /\ old' \in Nat /\ old' <= Len(pairs)
      /\ usable' \cup excused' \cup slips' \cup ended' \cup byes' \subseteq DOMAIN pairs
  BY DEF StoreInv, Shapes, Tables
<1> QED
  BY <1>1, ServerStores

\* Tokens expire, sign-outs arrive and passwords are reset.
LEMMA ExpiryStores ==
  ASSUME StoreInv,
         \/ Expire
         \/ \E k \in usable : ExpireRefresh(k)
         \/ \E k \in byes : Logout(k) \/ LogoutLost(k)
         \/ \E j \in DOMAIN jobs : ResetPassword(j)
  PROVE  StoreInv'
<1>0. /\ pairs \in Seq(Pair) /\ Len(pairs) \in Nat /\ gen \in [Users -> Nat] /\ old \in Nat /\ old <= Len(pairs)
      /\ usable \cup excused \cup slips \cup ended \cup byes \subseteq DOMAIN pairs
  BY DEF StoreInv, Shapes, Tables
<1>1. CASE Expire
  <2>1. /\ UNCHANGED <<pairs, gen, usable, excused, slips, ended, byes, mem, disk, cur, tries, req, login, clicks>>
        /\ old' = old + 1 /\ old < Len(pairs)
    BY <1>1 DEF Expire, resetVars, dialogVars
  <2> QED
    BY <1>0, <2>1, ServerStores
<1>2. CASE \E k \in usable : ExpireRefresh(k)
  <2>1. /\ UNCHANGED <<pairs, gen, old, slips, ended, byes, mem, disk, cur, tries, req, login, clicks>>
        /\ \E k \in usable : usable' = usable \ {k} /\ excused' = excused \cup {k}
    BY <1>2 DEF ExpireRefresh, resetVars, dialogVars
  <2> QED
    BY <1>0, <2>1, ServerStores
<1>3. CASE \E k \in byes : Logout(k) \/ LogoutLost(k)
  <2>1. /\ UNCHANGED <<pairs, gen, old, slips, ended, mem, disk, cur, tries, req, login, clicks>>
        /\ usable' \subseteq usable
        /\ \E k \in byes : byes' = byes \ {k} /\ excused' = excused \cup {k}
    BY <1>3 DEF Logout, LogoutLost, resetVars, dialogVars
  <2> QED
    BY <1>0, <2>1, ServerStores
<1>4. CASE \E j \in DOMAIN jobs : ResetPassword(j)
  <2>1. PICK u : /\ UNCHANGED <<pairs, old, slips, ended, byes, mem, disk, cur, tries, req, login, clicks>>
                 /\ gen' = [gen EXCEPT ![u] = @ + 1] \/ gen' = gen
                 /\ usable' \subseteq usable
                 /\ excused' = excused \cup Revoked(u) \/ excused' = excused
    <3>1. PICK j \in DOMAIN jobs : ResetPassword(j)
      BY <1>4
    <3> DEFINE u == links[jobs[j].link].user
    <3>2. CASE ResetRead(j) \/ SpendLink(j)
      BY <3>2 DEF ResetRead, SpendLink, tokenVars, dialogVars
    <3>3. CASE ChangePassword(j)
      BY <3>3 DEF ChangePassword, dialogVars
    <3>4. CASE RevokeTokens(j)
      <4>1. /\ UNCHANGED <<pairs, old, slips, ended, byes, mem, disk, cur, tries, req, login, clicks>>
            /\ gen' = gen /\ usable' \subseteq usable
            /\ excused' = excused \cup Revoked(u) \/ excused' = excused
        BY <3>4 DEF RevokeTokens, dialogVars
      <4> HIDE DEF u
      <4> QED
        BY <4>1
    <3> QED
      BY <3>1, <3>2, <3>3, <3>4 DEF ResetPassword
  <2>2. Revoked(u) \subseteq DOMAIN pairs
    BY DEF Revoked
  <2>3. gen' \in [Users -> Nat] /\ \A v \in Users : gen[v] <= gen'[v]
    <3>0. CASE gen' = gen
      BY <1>0, <3>0
    <3> SUFFICES ASSUME gen' = [gen EXCEPT ![u] = @ + 1]
                 PROVE  gen' \in [Users -> Nat] /\ \A v \in Users : gen[v] <= gen'[v]
      BY <2>1, <3>0
    <3>1. gen' = [v \in Users |-> IF v = u THEN gen[u] + 1 ELSE gen[v]]
      BY <1>0
    <3>2. ASSUME NEW v \in Users
          PROVE  gen'[v] \in Nat /\ gen[v] <= gen'[v]
      <4>1. gen[v] \in Nat /\ gen'[v] = IF v = u THEN gen[v] + 1 ELSE gen[v]
        BY <1>0, <3>1
      <4> QED
        BY <4>1
    <3> QED
      BY <3>1, <3>2
  <2>4. usable' \cup excused' \cup slips' \cup ended' \cup byes' \subseteq DOMAIN pairs
    BY <1>0, <2>1, <2>2
  <2> QED
    BY <1>0, <2>1, <2>3, <2>4, ServerStores
<1> QED
  BY <1>1, <1>2, <1>3, <1>4

\* Types in the form in which the steps below need them.
LEMMA Types ==
  ASSUME StoreInv
  PROVE  /\ pairs \in Seq(Pair) /\ Len(pairs) \in Nat /\ old \in Nat /\ old <= Len(pairs)
         /\ \A k \in DOMAIN pairs : /\ pairs[k] \in Pair /\ pairs[k].user \in Users
                                    /\ pairs[k].chain \in 1..k /\ pairs[k].chain <= Len(pairs)
                                    /\ pairs[k].gen <= gen[pairs[k].user]
         /\ gen \in [Users -> Nat] /\ mem \in [Tabs -> Nat] /\ disk \in Nat /\ cur \in [Tabs -> Nat]
         /\ tries \in [Tabs -> [Slots -> Try]] /\ \A t \in Tabs : \A a \in Slots : tries[t][a] \in Try
         /\ req \in [Tabs -> [Requests -> Request]] /\ \A t \in Tabs : \A r \in Requests : req[t][r] \in Request
         /\ login \in [Tabs -> Entry] /\ \A t \in Tabs : login[t] \in Entry
<1>1. pairs \in Seq(Pair) /\ DOMAIN pairs = 1..Len(pairs) /\ Len(pairs) \in Nat
  BY DEF StoreInv, Shapes
<1>2. ASSUME NEW k \in DOMAIN pairs
      PROVE  /\ pairs[k] \in Pair /\ pairs[k].user \in Users /\ pairs[k].chain \in 1..k
             /\ pairs[k].chain <= Len(pairs) /\ pairs[k].gen <= gen[pairs[k].user]
  <2>1. pairs[k] \in Pair
    BY <1>1
  <2>2. pairs[k].chain \in 1..k /\ pairs[k].gen <= gen[pairs[k].user]
    BY DEF StoreInv, Tables
  <2> QED
    BY <1>1, <2>1, <2>2 DEF Pair
<1> QED
  BY <1>1, <1>2 DEF StoreInv, Shapes, Tables

\* Of what may still make a pair, and of the pairs themselves.
LEMMA Count ==
  ASSUME NEW n \in Nat, NEW a \in Nat, NEW b \in Nat, NEW c \in Nat, NEW l \in Nat, n + a + b + c <= l,
         NEW b1 \in Nat, NEW c1 \in Nat, b1 + c1 + 1 <= b + c
  PROVE  (n + 1) + a + b1 + c1 <= l
OBVIOUS

\* A new pair leaves the others as they are.
LEMMA PairAdded ==
  ASSUME StoreInv, NEW rec \in Pair, NEW gone, Grant(rec, gone)
  PROVE  LET k == Len(pairs) + 1 IN
         /\ k \in Nat /\ k # 0 /\ k \notin DOMAIN pairs
         /\ pairs' \in Seq(Pair) /\ Len(pairs') = k /\ DOMAIN pairs' = DOMAIN pairs \cup {k}
         /\ \A i \in DOMAIN pairs : pairs'[i] = pairs[i]
         /\ pairs'[k].user = rec.user /\ pairs'[k].gen = rec.gen
         /\ pairs'[k].chain = IF rec.chain = 0 THEN k ELSE rec.chain
         /\ usable \ gone \subseteq usable' /\ usable' \subseteq usable \cup {k}
         /\ slips \subseteq slips' /\ slips' \subseteq slips \cup gone \cup {k}
         /\ k \in usable' \cup slips' /\ \A i \in gone : i = k \/ i \notin usable' \ slips'
<1> DEFINE k == Len(pairs) + 1
           new == IF rec.chain = 0 THEN [rec EXCEPT !.chain = k] ELSE rec
<1>1. pairs \in Seq(Pair) /\ Len(pairs) \in Nat
  BY DEF StoreInv, Shapes
<1>2. new \in Pair /\ new.gen = rec.gen /\ new.user = rec.user /\ new.chain = IF rec.chain = 0 THEN k ELSE rec.chain
  BY <1>1 DEF Pair
<1>3. /\ pairs' = Append(pairs, new)
      /\ \E failed \in SUBSET (gone \cup {k}) :
           /\ usable' = (usable \ (gone \ failed)) \cup ({k} \ failed)
           /\ slips' = slips \cup failed
  BY DEF Grant
<1> HIDE DEF new
<1>4. /\ k \in Nat /\ k # 0 /\ k \notin DOMAIN pairs
      /\ pairs' \in Seq(Pair) /\ Len(pairs') = k /\ DOMAIN pairs' = DOMAIN pairs \cup {k}
      /\ pairs'[k] = new /\ \A i \in DOMAIN pairs : pairs'[i] = pairs[i]
  BY <1>1, <1>2, <1>3
<1>5. /\ usable \ gone \subseteq usable' /\ usable' \subseteq usable \cup {k}
      /\ slips \subseteq slips' /\ slips' \subseteq slips \cup gone \cup {k}
      /\ k \in usable' \cup slips' /\ \A i \in gone : i = k \/ i \notin usable' \ slips'
  BY <1>3
<1> QED
  BY <1>2, <1>4, <1>5

\* An attempt, a sign-in that takes note of pair k.
TryGranted(new, try, k) ==
  new = try \/ (try.at # "idle" /\ new = [try EXCEPT !.at = "granted", !.got = k])
LoginGranted(new, entry, k) ==
  new = entry \/ (entry.at # "idle" /\ new = [entry EXCEPT !.at = "granted", !.pair = k])

\* What is noted names a pair that is known then.
LEMMA TryGrantNames ==
  ASSUME NEW known, NEW known1, known \subseteq known1, NEW k \in known1, k # 0,
         NEW try \in Try, NEW new, TryNames(try, known), TryGranted(new, try, k)
  PROVE  TryNames(new, known1)
<1>1. CASE new = try
  BY <1>1 DEF TryNames
<1>2. CASE try.at # "idle" /\ new = [try EXCEPT !.at = "granted", !.got = k]
  <2>1. new.at = "granted" /\ new.got = k /\ new.pair = try.pair /\ new.ours = try.ours
    BY <1>2 DEF Try
  <2> QED
    BY <1>2, <2>1 DEF TryNames
<1> QED
  BY <1>1, <1>2 DEF TryGranted

\* The same of a sign-in.
LEMMA LoginGrantNames ==
  ASSUME NEW known, NEW known1, known \subseteq known1, NEW k \in known1, k # 0, NEW now,
         NEW entry \in Entry, NEW new, LoginNames(entry, known, now), LoginGranted(new, entry, k)
  PROVE  LoginNames(new, known1, now)
<1>1. CASE new = entry
  BY <1>1 DEF LoginNames
<1>2. CASE entry.at # "idle" /\ new = [entry EXCEPT !.at = "granted", !.pair = k]
  <2>1. new.at = "granted" /\ new.pair = k /\ new.who = entry.who /\ new.gen = entry.gen
    BY <1>2 DEF Entry
  <2> QED
    BY <1>2, <2>1 DEF LoginNames
<1> QED
  BY <1>1, <1>2 DEF LoginGranted

\* A new pair was owed by one of the things that may make one.
LEMMA PairPaid ==
  ASSUME Paid, UNCHANGED <<req, clicks>>, Len(pairs) \in Nat, Len(pairs') = Len(pairs) + 1,
         \/ \E x \in Exchanging : Exchanging' \subseteq Exchanging \ {x} /\ Entering' = Entering
         \/ \E x \in Entering : Entering' \subseteq Entering \ {x} /\ Exchanging' = Exchanging
  PROVE  Paid'
<1>1. /\ Asking' = Asking /\ IsFiniteSet(Asking) /\ IsFiniteSet(Exchanging) /\ IsFiniteSet(Entering)
      /\ Len(pairs) + Cardinality(Asking) + Cardinality(Exchanging) + Cardinality(Entering) <= clicks
      /\ clicks \in 0..MaxClicks
  BY DEF Asking, Paid
<1>2. /\ IsFiniteSet(Exchanging') /\ IsFiniteSet(Entering')
      /\ Cardinality(Exchanging') + Cardinality(Entering') + 1 <= Cardinality(Exchanging) + Cardinality(Entering)
      /\ Cardinality(Exchanging') \in Nat /\ Cardinality(Entering') \in Nat
      /\ Cardinality(Exchanging) \in Nat /\ Cardinality(Entering) \in Nat
  <2>1. ASSUME NEW x \in Exchanging, Exchanging' \subseteq Exchanging \ {x}, Entering' = Entering
        PROVE  <1>2!:
    <3>1. /\ IsFiniteSet(Exchanging') /\ Cardinality(Exchanging') + 1 <= Cardinality(Exchanging)
          /\ Cardinality(Exchanging') \in Nat /\ Cardinality(Exchanging) \in Nat
      BY <1>1, <2>1, LosesOne
    <3>2. Cardinality(Entering) \in Nat /\ Cardinality(Entering') = Cardinality(Entering) /\ IsFiniteSet(Entering')
      BY <1>1, <2>1, FS_CardinalityType
    <3> QED
      BY <3>1, <3>2
  <2>2. ASSUME NEW x \in Entering, Entering' \subseteq Entering \ {x}, Exchanging' = Exchanging
        PROVE  <1>2!:
    <3>1. /\ IsFiniteSet(Entering') /\ Cardinality(Entering') + 1 <= Cardinality(Entering)
          /\ Cardinality(Entering') \in Nat /\ Cardinality(Entering) \in Nat
      BY <1>1, <2>2, LosesOne
    <3>2. Cardinality(Exchanging) \in Nat /\ Cardinality(Exchanging') = Cardinality(Exchanging) /\ IsFiniteSet(Exchanging')
      BY <1>1, <2>2, FS_CardinalityType
    <3> QED
      BY <3>1, <3>2
  <2> QED
    BY <2>1, <2>2
<1>3. Cardinality(Asking) \in Nat /\ clicks \in Nat
  BY <1>1, SessionAssumption, FS_CardinalityType
<1>4. (Len(pairs) + 1) + Cardinality(Asking) + Cardinality(Exchanging') + Cardinality(Entering') <= clicks
  BY <1>1, <1>2, <1>3, Count
<1> QED
  BY <1>1, <1>2, <1>4 DEF Paid

\* A new pair that is made from what is known of another or of a sign-in, while
\* an attempt or a sign-in takes note of it.
LEMMA GrantStores ==
  ASSUME StoreInv, NEW rec \in Pair, NEW gone, Grant(rec, gone), gone \subseteq DOMAIN pairs,
         rec.chain <= Len(pairs), rec.gen <= gen[rec.user],
         UNCHANGED <<old, excused, ended, byes, gen, mem, disk, cur, req, clicks>>,
         tries' \in [Tabs -> [Slots -> Try]],
         \A t \in Tabs : \A a \in Slots : TryGranted(tries'[t][a], tries[t][a], Len(pairs) + 1),
         login' \in [Tabs -> Entry],
         \A t \in Tabs : LoginGranted(login'[t], login[t], Len(pairs) + 1),
         \/ \E x \in Exchanging : Exchanging' \subseteq Exchanging \ {x} /\ Entering' = Entering
         \/ \E x \in Entering : Entering' \subseteq Entering \ {x} /\ Exchanging' = Exchanging
  PROVE  StoreInv'
<1> DEFINE k == Len(pairs) + 1
<1>1. /\ k \in Nat /\ k # 0 /\ k \notin DOMAIN pairs
      /\ pairs' \in Seq(Pair) /\ Len(pairs') = k /\ DOMAIN pairs' = DOMAIN pairs \cup {k}
      /\ \A i \in DOMAIN pairs : pairs'[i] = pairs[i]
      /\ pairs'[k].user = rec.user /\ pairs'[k].gen = rec.gen
      /\ pairs'[k].chain = IF rec.chain = 0 THEN k ELSE rec.chain
      /\ usable' \subseteq usable \cup {k} /\ slips' \subseteq slips \cup gone \cup {k}
  BY PairAdded
<1>2. Len(pairs) \in Nat /\ k = Len(pairs) + 1 /\ old \in Nat /\ old <= Len(pairs) /\ rec.chain \in Nat
  BY Types DEF Pair
<1> HIDE DEF k
<1>3. Shapes'
  BY <1>1 DEF StoreInv, Shapes
<1>4. Tables'
  <2>1. pairs'[k].chain \in 1..k
    BY <1>1, <1>2
  <2>2. pairs'[k].gen <= gen[pairs'[k].user]
    BY <1>1
  <2>3. old <= k
    BY <1>2
  <2> QED
    BY <1>1, <2>1, <2>2, <2>3 DEF StoreInv, Tables
<1>5. Known \subseteq Known' /\ k \in Known'
  BY <1>1 DEF Known
<1>6. /\ \A t \in Tabs : \A a \in Slots :
           /\ TryNames(tries'[t][a], Known')
           /\ tries[t][a].at # "idle" => tries'[t][a].at # "idle"
           /\ tries'[t][a].ours = tries[t][a].ours
      /\ \A t \in Tabs : LoginNames(login'[t], Known', gen)
  <2>1. ASSUME NEW t \in Tabs, NEW a \in Slots
        PROVE  /\ TryNames(tries'[t][a], Known')
               /\ tries[t][a].at # "idle" => tries'[t][a].at # "idle"
               /\ tries'[t][a].ours = tries[t][a].ours
    <3>1. TryNames(tries[t][a], Known) /\ tries[t][a] \in Try /\ TryGranted(tries'[t][a], tries[t][a], k)
      BY DEF StoreInv, Names, Shapes, k
    <3> DEFINE w == tries[t][a]
               v == tries'[t][a]
    <3>2. w \in Try /\ TryNames(w, Known) /\ TryGranted(v, w, k)
      BY <3>1
    <3> HIDE DEF v, w
    <3>3. TryNames(v, Known')
      BY <1>1, <1>5, <3>2, TryGrantNames
    <3>4. (w.at # "idle" => v.at # "idle") /\ v.ours = w.ours
      BY <3>2 DEF TryGranted, Try
    <3> QED
      BY <3>3, <3>4 DEF v, w
  <2>2. ASSUME NEW t \in Tabs
        PROVE  LoginNames(login'[t], Known', gen)
    <3>1. LoginNames(login[t], Known, gen) /\ login[t] \in Entry /\ LoginGranted(login'[t], login[t], k)
      BY DEF StoreInv, Names, Shapes, k
    <3> QED
      BY <1>1, <1>5, <3>1, LoginGrantNames
  <2> QED
    BY <2>1, <2>2
<1>7. Names' /\ Shared'
  <2>1. Names'
    BY <1>5, <1>6 DEF StoreInv, Names
  <2>2. \A t \in Tabs : \A a : Ours(tries[t], a) => Ours(tries'[t], a)
    BY <1>6 DEF Ours
  <2> QED
    BY <2>1, <2>2 DEF StoreInv, Shared
<1>8. Paid'
  BY <1>1, <1>2, PairPaid DEF StoreInv
<1> QED
  BY <1>3, <1>4, <1>7, <1>8 DEF StoreInv

\* The server exchanges a refresh token.
LEMMA RefreshStores ==
  ASSUME StoreInv, NEW t \in Tabs, NEW a \in Slots, Refresh(t, a)
  PROVE  StoreInv'
<1> DEFINE new == [tries[t][a] EXCEPT !.at = "granted", !.got = Len(pairs) + 1]
           rec == pairs[tries[t][a].pair]
<1>1. /\ tries \in [Tabs -> [Slots -> Try]] /\ tries[t][a] \in Try /\ pairs \in Seq(Pair) /\ Len(pairs) + 1 \in Nat
      /\ tries[t][a].at = "read" /\ tries[t][a].pair \in DOMAIN pairs
  BY DEF StoreInv, Shapes, Names, TryNames, Known, Refresh
<1>2. rec \in Pair /\ rec.chain <= Len(pairs) /\ rec.gen <= gen[rec.user]
  BY <1>1, Types
<1>3. new \in Try /\ new.at = "granted"
  BY <1>1 DEF Try
<1>4. /\ tries' = [tries EXCEPT ![t][a] = new] /\ Grant(rec, {tries[t][a].pair})
      /\ UNCHANGED <<old, excused, ended, byes, gen, mem, disk, cur, req, clicks, login>>
  BY DEF Refresh, TryBecomes, resetVars, dialogVars
<1> HIDE DEF new, rec
<1>5. /\ tries' \in [Tabs -> [Slots -> Try]]
      /\ \A x \in Tabs : \A b \in Slots : tries'[x][b] = IF x = t /\ b = a THEN new ELSE tries[x][b]
  BY <1>1, <1>3, <1>4
<1>6. <<t, a>> \in Exchanging /\ Exchanging' \subseteq Exchanging \ {<<t, a>>} /\ Entering' = Entering
  BY <1>1, <1>3, <1>4, <1>5 DEF Exchanging, Entering
<1>7. /\ login' \in [Tabs -> Entry] /\ \A x \in Tabs : LoginGranted(login'[x], login[x], Len(pairs) + 1)
      /\ \A x \in Tabs : \A b \in Slots :
           TryGranted(tries'[x][b], tries[x][b], Len(pairs) + 1)
  <2>1. login' \in [Tabs -> Entry] /\ \A x \in Tabs : login'[x] = login[x]
    BY <1>4 DEF StoreInv, Shapes
  <2> QED
    BY <1>1, <1>5, <2>1 DEF new, TryGranted, LoginGranted
<1> QED
  BY <1>1, <1>2, <1>4, <1>5, <1>6, <1>7, GrantStores

\* A step of the browser: the server's pairs stay, and what tabs keep and wait
\* for is of the form it was.
LEMMA TabStores ==
  ASSUME StoreInv, UNCHANGED <<pairs, gen, old, excused, slips>>, usable' \subseteq usable,
         ended' \cup byes' \subseteq DOMAIN pairs,
         mem' \in [Tabs -> Nat], disk' \in Known, \A t \in Tabs : mem'[t] \in Known,
         cur' \in [Tabs -> Nat], tries' \in [Tabs -> [Slots -> Try]],
         \A t \in Tabs : \A a \in Slots : TryNames(tries'[t][a], Known),
         req' \in [Tabs -> [Requests -> Request]],
         \A t \in Tabs : \A r \in Requests : req'[t][r].pair \in Known,
         login' \in [Tabs -> Entry], \A t \in Tabs : LoginNames(login'[t], Known, gen),
         Shared', Paid'
  PROVE  StoreInv'
<1>1. Known' = Known /\ disk' \in Nat
  BY Types DEF Known
<1>2. Shapes' /\ Tables' /\ Names'
  BY <1>1 DEF StoreInv, Shapes, Tables, Names
<1> QED
  BY <1>2 DEF StoreInv

\* An attempt that changes its state and nothing else.
LEMMA AttemptStores ==
  ASSUME StoreInv, NEW t \in Tabs, NEW a \in Slots, NEW s \in {"read", "denied", "failed"},
         tries[t][a].at # "idle", tries[t][a].at \in {"sent", "read"} \/ s \notin {"sent", "read"},
         tries' = [tries EXCEPT ![t][a] = [tries[t][a] EXCEPT !.at = s]],
         usable' \subseteq usable,
         UNCHANGED <<pairs, gen, old, excused, slips, ended, mem, disk, cur, req, byes, login, clicks>>
  PROVE  StoreInv'
<1> DEFINE new == [tries[t][a] EXCEPT !.at = s]
<1>1. /\ new \in Try /\ new.at = s /\ new.pair = tries[t][a].pair /\ new.ours = tries[t][a].ours
      /\ tries \in [Tabs -> [Slots -> Try]] /\ tries' = [tries EXCEPT ![t][a] = new]
  BY Types DEF Try
<1> HIDE DEF new
<1>2. /\ tries' \in [Tabs -> [Slots -> Try]]
      /\ \A x \in Tabs : \A b \in Slots : tries'[x][b] = IF x = t /\ b = a THEN new ELSE tries[x][b]
  BY <1>1
<1>3. \A x \in Tabs : \A b \in Slots : TryNames(tries'[x][b], Known)
  <2>1. \A x \in Tabs : \A b \in Slots : TryNames(tries[x][b], Known)
    BY DEF StoreInv, Names
  <2> QED
    BY <1>1, <1>2, <2>1 DEF TryNames
<1>4. Shared'
  <2>1. \A x \in Tabs : \A b : Ours(tries[x], b) => Ours(tries'[x], b)
    BY <1>1, <1>2 DEF Ours
  <2> QED
    BY <2>1 DEF StoreInv, Shared
<1>5. Paid'
  <2>1. Exchanging' \subseteq Exchanging
    BY <1>1, <1>2 DEF Exchanging
  <2>2. Asking' = Asking /\ Entering' = Entering /\ Len(pairs') = Len(pairs) /\ Paid
    BY DEF Asking, Entering, StoreInv
  <2> QED
    BY <2>1, <2>2, Types, NothingBegun
<1> QED
  BY <1>2, <1>3, <1>4, <1>5, Types, TabStores DEF StoreInv, Tables, Names

\* What a request that waited becomes.
LEMMA ResumedRequest ==
  ASSUME NEW call \in Request, NEW a, NEW granted \in BOOLEAN, NEW k \in Nat
  PROVE  LET new == Resumed(call, a, granted, k) IN
         /\ (new \in Request /\ ~ AsksFor(new)) \/ new = call
         /\ new.at = "wait" => new = call /\ call.slot # a
         /\ new.at = "idle" => new.pair = 0 \/ new = call
         /\ new.at # "idle" => /\ call.at # "idle" /\ new.who = call.who
                               /\ new.pair = call.pair \/ (granted /\ new.pair = k)
<1>1. CASE call.at # "wait" \/ call.slot # a
  BY <1>1 DEF Resumed
<1>2. CASE call.at = "wait" /\ call.slot = a /\ granted
  BY <1>2 DEF Resumed, Sent, Request, AsksFor
<1>3. CASE call.at = "wait" /\ call.slot = a /\ ~ granted /\ call.last
  BY <1>3 DEF Resumed, Sent, Request, AsksFor
<1>4. CASE call.at = "wait" /\ call.slot = a /\ ~ granted /\ ~ call.last
  BY <1>4 DEF Resumed, NoCall, Request, AsksFor
<1> QED
  BY <1>1, <1>2, <1>3, <1>4

\* The answer to a refresh is handled.
LEMMA RefreshedStores ==
  ASSUME StoreInv, NEW t \in Tabs, NEW a \in Slots, Refreshed(t, a)
  PROVE  StoreInv'
<1> DEFINE k == IF tries[t][a].at = "granted" THEN tries[t][a].got ELSE 0
<1>1. /\ tries \in [Tabs -> [Slots -> Try]] /\ tries[t][a] \in Try /\ mem \in [Tabs -> Nat]
      /\ cur \in [Tabs -> Nat] /\ req \in [Tabs -> [Requests -> Request]]
      /\ login \in [Tabs -> Entry] /\ Len(pairs) \in Nat
      /\ NoTry \in Try /\ NoTry.at = "idle"
  BY Types DEF NoTry, Try
<1>2. /\ tries' = [tries EXCEPT ![t][a] = NoTry]
      /\ UNCHANGED <<serverVars, byes, dialogVars, clicks>>
      /\ tries[t][a].at # "idle" /\ tries[t][a].at \notin {"sent", "read"}
  BY DEF Refreshed, TryBecomes
<1>3. k \in Known /\ k \in Nat
  <2>1. TryNames(tries[t][a], Known)
    BY DEF StoreInv, Names
  <2> QED
    BY <1>1, <2>1 DEF TryNames, Known, Try
<1>4. /\ tries' \in [Tabs -> [Slots -> Try]]
      /\ \A x \in Tabs : \A b \in Slots : tries'[x][b] = IF x = t /\ b = a THEN NoTry ELSE tries[x][b]
  BY <1>1, <1>2
<1>5. \A x \in Tabs : \A b \in Slots : TryNames(tries'[x][b], Known)
  <2>1. \A x \in Tabs : \A b \in Slots : TryNames(tries[x][b], Known)
    BY DEF StoreInv, Names
  <2> QED
    BY <1>1, <1>4, <2>1 DEF TryNames
<1>6. Exchanging' \subseteq Exchanging /\ Entering' = Entering /\ Len(pairs') = Len(pairs)
  BY <1>1, <1>2, <1>4 DEF Exchanging, Entering, serverVars, tokenVars, resetVars, dialogVars
<1>7. CASE ~ tries[t][a].ours
  <2>1. UNCHANGED <<mem, disk, cur, req>>
    BY <1>7 DEF Refreshed
  <2>2. \A x \in Tabs : \A b : Ours(tries[x], b) => Ours(tries'[x], b)
    BY <1>4, <1>7 DEF Ours
  <2>3. Shared'
    BY <2>1, <2>2 DEF StoreInv, Shared
  <2>4. Paid'
    <3>1. Asking' = Asking
      BY <2>1 DEF Asking
    <3> QED
      BY <1>1, <1>2, <1>6, <3>1, NothingBegun DEF StoreInv
  <2> QED
    BY <1>2, <1>4, <1>5, <2>1, <2>3, <2>4, Types, TabStores DEF StoreInv, Tables, Names, serverVars, tokenVars, resetVars, dialogVars
<1>8. CASE tries[t][a].ours
  <2> DEFINE row == [r \in Requests |-> Resumed(req[t][r], a, k # 0, k)]
  <2>1. /\ Keep(t, k) /\ cur' = [cur EXCEPT ![t] = 0]
        /\ req' = [req EXCEPT ![t] = row]
    BY <1>8 DEF Refreshed
  <2>2. \A r \in Requests :
          /\ row[r] \in Request
          /\ AsksFor(row[r]) => AsksFor(req[t][r])
          /\ row[r].at = "wait" => req[t][r].at = "wait" /\ row[r].slot = req[t][r].slot /\ req[t][r].slot # a
          /\ row[r].pair \in Known
    <3> SUFFICES ASSUME NEW r \in Requests
                 PROVE  LET new == Resumed(req[t][r], a, k # 0, k) IN
                        /\ new \in Request
                        /\ AsksFor(new) => AsksFor(req[t][r])
                        /\ new.at = "wait" => req[t][r].at = "wait" /\ new.slot = req[t][r].slot /\ req[t][r].slot # a
                        /\ new.pair \in Known
      OBVIOUS
    <3> DEFINE call == req[t][r]
               granted == k # 0
               new == Resumed(call, a, granted, k)
    <3>1. call \in Request /\ call.pair \in Known /\ 0 \in Known /\ granted \in BOOLEAN
      BY Types DEF StoreInv, Names, Known
    <3> HIDE DEF call, k, granted
    <3>2. /\ (new \in Request /\ ~ AsksFor(new)) \/ new = call
          /\ new.at = "wait" => new = call /\ call.slot # a
          /\ new.at = "idle" => new.pair = 0 \/ new = call
          /\ new.at # "idle" => new.pair = call.pair \/ new.pair = k
      BY <1>3, <3>1, ResumedRequest
    <3> HIDE DEF new
    <3>3. new \in Request /\ (AsksFor(new) => AsksFor(call)) /\ new.pair \in Known
          /\ (new.at = "wait" => call.at = "wait" /\ new.slot = call.slot /\ call.slot # a)
      BY <1>3, <3>1, <3>2
    <3> QED
      BY <3>3 DEF new, call, granted
  <2> HIDE DEF k, row
  <2>3. /\ req' \in [Tabs -> [Requests -> Request]]
        /\ \A x \in Tabs : \A r \in Requests : req'[x][r] = IF x = t THEN row[r] ELSE req[x][r]
    <3>1. row \in [Requests -> Request]
      BY <2>2 DEF row
    <3> QED
      BY <1>1, <2>1, <3>1
  <2>4. \A x \in Tabs : \A r \in Requests : req'[x][r].pair \in Known
    BY <2>2, <2>3 DEF StoreInv, Names
  <2>5. /\ cur' \in [Tabs -> Nat] /\ cur'[t] = 0 /\ \A x \in Tabs : x # t => cur'[x] = cur[x]
        /\ mem' \in [Tabs -> Nat] /\ disk' = k /\ \A x \in Tabs : mem'[x] \in {mem[x], k}
    BY <1>1, <1>3, <2>1 DEF Keep
  <2>6. Shared'
    <3>1. \A x \in Tabs : \A b : Ours(tries[x], b) /\ (x # t \/ b # a) => Ours(tries'[x], b)
      BY <1>4 DEF Ours
    <3>2. \A x \in Tabs : cur'[x] # 0 => Ours(tries'[x], cur'[x])
      BY <2>5, <3>1 DEF StoreInv, Shared
    <3>3. \A x \in Tabs : \A r \in Requests : req'[x][r].at = "wait" => Ours(tries'[x], req'[x][r].slot)
      <4> SUFFICES ASSUME NEW x \in Tabs, NEW r \in Requests, req'[x][r].at = "wait"
                   PROVE  Ours(tries'[x], req'[x][r].slot)
        OBVIOUS
      <4>1. req[x][r].at = "wait" /\ req'[x][r].slot = req[x][r].slot /\ (x = t => req[x][r].slot # a)
        BY <2>2, <2>3
      <4>2. Ours(tries[x], req[x][r].slot)
        BY <4>1 DEF StoreInv, Shared
      <4> QED
        BY <3>1, <4>1, <4>2
    <3> QED
      BY <3>2, <3>3 DEF Shared
  <2>7. Paid'
    <3>1. Asking' \subseteq Asking
      BY <2>2, <2>3 DEF Asking
    <3> QED
      BY <1>1, <1>2, <1>6, <3>1, NothingBegun DEF StoreInv
  <2>8. disk' \in Known /\ \A x \in Tabs : mem'[x] \in Known
    BY <1>3, <2>5 DEF StoreInv, Names
  <2> QED
    BY <1>1, <1>2, <1>4, <1>5, <2>3, <2>4, <2>5, <2>6, <2>7, <2>8, TabStores
       DEF StoreInv, Tables, Names, serverVars, tokenVars, resetVars, dialogVars
<1> QED
  BY <1>7, <1>8

\* The sign-in of a tab becomes another record, which makes no new pair.
LEMMA EntryStores ==
  ASSUME StoreInv, NEW t \in Tabs, NEW new \in Entry, LoginNames(new, Known, gen),
         new.at \in {"sent", "read"} => login[t].at \in {"sent", "read"} \/ (clicks < MaxClicks /\ clicks' = clicks + 1),
         clicks' = clicks \/ (clicks < MaxClicks /\ clicks' = clicks + 1),
         login' = [login EXCEPT ![t] = new],
         mem' \in [Tabs -> Nat], disk' \in Known, \A x \in Tabs : mem'[x] \in Known,
         UNCHANGED <<serverVars, cur, tries, req, byes>>
  PROVE  StoreInv'
<1>1. login' \in [Tabs -> Entry] /\ \A x \in Tabs : login'[x] = IF x = t THEN new ELSE login[x]
  BY Types
<1>2. \A x \in Tabs : LoginNames(login'[x], Known, gen)
  BY <1>1 DEF StoreInv, Names
<1>3. Shared'
  BY DEF StoreInv, Shared
<1>4. Paid'
  <2>1. /\ Asking' = Asking /\ Exchanging' = Exchanging /\ Entering' \subseteq Entering \cup {t} /\ Paid
        /\ (new.at \notin {"sent", "read"} \/ login[t].at \in {"sent", "read"}) => Entering' \subseteq Entering
        /\ UNCHANGED pairs
    BY <1>1 DEF Asking, Exchanging, Entering, StoreInv, serverVars, tokenVars, resetVars
  <2>2. CASE new.at \notin {"sent", "read"} \/ login[t].at \in {"sent", "read"}
    BY <2>1, <2>2, Types, NothingBegun
  <2>3. CASE clicks < MaxClicks /\ clicks' = clicks + 1
    BY <2>1, <2>3, Types, OneBegun
  <2> QED
    BY <2>2, <2>3
<1> QED
  BY <1>1, <1>2, <1>3, <1>4, Types, TabStores DEF StoreInv, Tables, Names, serverVars, tokenVars, resetVars

\* A sign-in, from the form to the store.
LEMMA LoginStores ==
  ASSUME StoreInv, NEW t \in Tabs,
         LoginRead(t) \/ Login(t) \/ LoggedIn(t) \/ LoginLost(t) \/ \E u \in Users : SubmitLogin(t, u)
  PROVE  StoreInv'
<1>1. /\ login[t] \in Entry /\ login \in [Tabs -> Entry] /\ NoLogin \in Entry /\ LoginNames(NoLogin, Known, gen)
      /\ LoginNames(login[t], Known, gen) /\ NoLogin.at = "idle" /\ gen \in [Users -> Nat]
      /\ mem \in [Tabs -> Nat] /\ disk \in Known /\ \A x \in Tabs : mem[x] \in Known
  BY Types DEF StoreInv, Names, NoLogin, Entry, LoginNames
<1>2. CASE LoginRead(t)
  <2> DEFINE new == IF login[t].gen = gen[login[t].who] THEN [login[t] EXCEPT !.at = "read"] ELSE NoLogin
  <2>1. new \in Entry /\ LoginNames(new, Known, gen)
    BY <1>1, <1>2 DEF LoginRead, Entry, LoginNames
  <2>2. /\ login' = [login EXCEPT ![t] = new] /\ login[t].at = "sent"
        /\ UNCHANGED <<serverVars, cur, tries, req, byes, mem, disk, clicks>>
    BY <1>2 DEF LoginRead
  <2> HIDE DEF new
  <2> QED
    BY <1>1, <2>1, <2>2, EntryStores
<1>3. CASE LoginLost(t)
  BY <1>1, <1>3, EntryStores DEF LoginLost
<1>4. CASE \E u \in Users : SubmitLogin(t, u)
  <2>1. PICK u \in Users : SubmitLogin(t, u)
    BY <1>4
  <2> DEFINE new == [at |-> "sent", who |-> u, gen |-> gen[u], pair |-> 0]
  <2>2. new \in Entry /\ LoginNames(new, Known, gen)
    <3>1. gen[u] \in Nat
      BY <1>1
    <3> QED
      BY <3>1 DEF Entry, LoginNames
  <2>3. /\ login' = [login EXCEPT ![t] = new] /\ clicks < MaxClicks /\ clicks' = clicks + 1
        /\ UNCHANGED <<serverVars, cur, tries, req, byes, mem, disk>>
    BY <2>1 DEF SubmitLogin, Click
  <2> HIDE DEF new
  <2> QED
    BY <1>1, <2>2, <2>3, EntryStores
<1>5. CASE LoggedIn(t)
  <2>1. login[t].pair \in Known /\ login[t].pair \in Nat
    BY <1>1, <1>5 DEF LoggedIn, LoginNames, Entry
  <2>2. /\ Keep(t, login[t].pair) /\ login' = [login EXCEPT ![t] = NoLogin]
        /\ UNCHANGED <<serverVars, cur, tries, req, byes, clicks>>
    BY <1>5 DEF LoggedIn
  <2>3. mem' \in [Tabs -> Nat] /\ disk' \in Known /\ \A x \in Tabs : mem'[x] \in Known
    BY <1>1, <2>1, <2>2 DEF Keep
  <2> QED
    BY <1>1, <2>2, <2>3, EntryStores
<1>6. CASE Login(t)
  <2> DEFINE rec == [user |-> login[t].who, chain |-> 0, gen |-> login[t].gen]
             new == [login[t] EXCEPT !.at = "granted", !.pair = Len(pairs) + 1]
  <2>1. /\ Grant(rec, {}) /\ login[t].at = "read"
        /\ UNCHANGED <<old, excused, ended, byes, gen, mem, disk, cur, req, clicks, tries>>
    BY <1>6 DEF Login, resetVars
  <2>2. rec \in Pair /\ rec.chain <= Len(pairs) /\ rec.gen <= gen[rec.user] /\ Len(pairs) + 1 \in Nat
    BY <1>1, <2>1, Types DEF LoginNames, Pair, Entry
  <2>3. new \in Entry /\ new.at = "granted"
    BY <1>1, <2>2 DEF Entry
  <2>4. login' = [login EXCEPT ![t] = new]
    BY <1>1, <1>6 DEF Login, Entry
  <2> HIDE DEF new, rec
  <2>5. login' \in [Tabs -> Entry] /\ \A x \in Tabs : login'[x] = IF x = t THEN new ELSE login[x]
    BY <1>1, <2>3, <2>4
  <2>6. \A x \in Tabs : LoginGranted(login'[x], login[x], Len(pairs) + 1)
    BY <2>1, <2>5 DEF LoginGranted, new
  <2>7. t \in Entering /\ Entering' \subseteq Entering \ {t} /\ Exchanging' = Exchanging
    BY <2>1, <2>3, <2>5 DEF Entering, Exchanging
  <2>8. tries' \in [Tabs -> [Slots -> Try]] /\ \A x \in Tabs : \A a \in Slots : TryGranted(tries'[x][a], tries[x][a], Len(pairs) + 1)
    BY <2>1, Types DEF TryGranted
  <2> QED
    BY <2>1, <2>2, <2>5, <2>6, <2>7, <2>8, GrantStores
<1> QED
  BY <1>2, <1>3, <1>4, <1>5, <1>6

\* The user signs out.
LEMMA LogoutStores ==
  ASSUME StoreInv, NEW t \in Tabs, HandleLogout(t)
  PROVE  StoreInv'
<1>1. /\ mem[t] # 0 /\ Keep(t, 0) /\ cur' = [cur EXCEPT ![t] = 0]
      /\ byes' = byes \cup {mem[t]} /\ ended' = ended \cup {pairs[mem[t]].chain}
      /\ clicks < MaxClicks /\ clicks' = clicks + 1
      /\ UNCHANGED <<pairs, old, usable, excused, slips, gen, tries, req, login>>
  BY DEF HandleLogout, Click, tokenVars, resetVars, dialogVars
<1>2. mem[t] \in DOMAIN pairs /\ pairs[mem[t]].chain \in DOMAIN pairs
  <2>1. mem[t] \in DOMAIN pairs
    BY <1>1 DEF StoreInv, Names, Known
  <2>2. pairs[mem[t]].chain \in 1..mem[t] /\ DOMAIN pairs = 1..Len(pairs) /\ Len(pairs) \in Nat
    BY <2>1, Types
  <2> QED
    BY <2>1, <2>2
<1>3. ended' \cup byes' \subseteq DOMAIN pairs
  BY <1>1, <1>2 DEF StoreInv, Tables
<1>4. /\ mem' \in [Tabs -> Nat] /\ disk' \in Known /\ \A x \in Tabs : mem'[x] \in Known
      /\ cur' \in [Tabs -> Nat] /\ \A x \in Tabs : cur'[x] \in {0, cur[x]}
  BY <1>1, Types DEF Keep, Known, StoreInv, Names
<1>5. Shared'
  BY <1>1, <1>4 DEF StoreInv, Shared
<1>6. Paid'
  <2>1. Asking' = Asking /\ Exchanging' = Exchanging /\ Entering' = Entering
    BY <1>1 DEF Asking, Exchanging, Entering
  <2> QED
    BY <1>1, <2>1, Types, NothingBegun DEF StoreInv
<1> QED
  BY <1>1, <1>3, <1>4, <1>5, <1>6, Types, TabStores DEF StoreInv, Names

\* The page is loaded.
LEMMA LoadStores ==
  ASSUME StoreInv, NEW t \in Tabs, NEW d, NEW l, Load(t, d, l)
  PROVE  StoreInv'
<1> DEFINE left == [a \in Slots |-> [tries[t][a] EXCEPT !.ours = FALSE]]
           none == [r \in Requests |-> NoCall]
<1>1. /\ mem' = [mem EXCEPT ![t] = disk] /\ disk' = disk
      /\ req' = [req EXCEPT ![t] = none] /\ login' = [login EXCEPT ![t] = NoLogin]
      /\ clicks < MaxClicks /\ clicks' = clicks + 1
      /\ UNCHANGED <<pairs, old, usable, excused, slips, ended, gen, byes>>
  BY DEF Load, Click, serverVars, tokenVars, resetVars
<1>2. \E row, p :
        /\ cur' = [cur EXCEPT ![t] = p] /\ tries' = [tries EXCEPT ![t] = row]
        /\ \/ p = 0 /\ row = left
           \/ /\ p \in Slots /\ tries[t][p].at = "idle" /\ disk # 0
              /\ row = [left EXCEPT ![p] = Asked(disk)]
  BY DEF Load
<1>3. /\ disk \in Known /\ disk \in Nat /\ Asked(disk) \in Try /\ Asked(disk).at = "sent" /\ Asked(disk).ours
      /\ disk # 0 => TryNames(Asked(disk), Known)
  BY Types DEF StoreInv, Names, Asked, Try, TryNames
<1>4. /\ left \in [Slots -> Try]
      /\ \A a \in Slots : left[a].at = tries[t][a].at /\ TryNames(left[a], Known)
  <2> SUFFICES ASSUME NEW a \in Slots
               PROVE  /\ [tries[t][a] EXCEPT !.ours = FALSE] \in Try
                      /\ [tries[t][a] EXCEPT !.ours = FALSE].at = tries[t][a].at
                      /\ TryNames([tries[t][a] EXCEPT !.ours = FALSE], Known)
    OBVIOUS
  <2>1. tries[t][a] \in Try /\ TryNames(tries[t][a], Known)
    BY Types DEF StoreInv, Names
  <2> QED
    BY <2>1 DEF Try, TryNames
<1>5. none \in [Requests -> Request] /\ \A r \in Requests : none[r].at = "idle" /\ none[r].pair = 0
  BY DEF NoCall, Request
<1> HIDE DEF left, none
<1>6. PICK row, p :
        /\ cur' = [cur EXCEPT ![t] = p] /\ tries' = [tries EXCEPT ![t] = row]
        /\ row \in [Slots -> Try] /\ p \in Slots \cup {0}
        /\ \A a \in Slots : a # p => row[a].at = tries[t][a].at
        /\ p # 0 => Ours(row, p)
        /\ \A a \in Slots : TryNames(row[a], Known)
  <2>1. PICK row, p :
          /\ cur' = [cur EXCEPT ![t] = p] /\ tries' = [tries EXCEPT ![t] = row]
          /\ \/ p = 0 /\ row = left
             \/ /\ p \in Slots /\ tries[t][p].at = "idle" /\ disk # 0
                /\ row = [left EXCEPT ![p] = Asked(disk)]
    BY <1>2
  <2>2. CASE p = 0 /\ row = left
    BY <1>4, <2>1, <2>2
  <2>3. CASE p \in Slots /\ disk # 0 /\ row = [left EXCEPT ![p] = Asked(disk)]
    <3>1. /\ row \in [Slots -> Try] /\ \A a \in Slots : row[a] = IF a = p THEN Asked(disk) ELSE left[a]
      BY <1>3, <1>4, <2>3
    <3>2. Ours(row, p)
      BY <1>3, <2>3, <3>1 DEF Ours
    <3>3. \A a \in Slots : TryNames(row[a], Known) /\ (a # p => row[a].at = tries[t][a].at)
      BY <1>3, <1>4, <2>3, <3>1
    <3> QED
      BY <2>1, <2>3, <3>1, <3>2, <3>3
  <2> QED
    BY <2>1, <2>2, <2>3
<1>7. /\ mem' \in [Tabs -> Nat] /\ \A x \in Tabs : mem'[x] \in Known
      /\ cur' \in [Tabs -> Nat] /\ \A x \in Tabs : cur'[x] = IF x = t THEN p ELSE cur[x]
      /\ tries' \in [Tabs -> [Slots -> Try]] /\ \A x \in Tabs : tries'[x] = IF x = t THEN row ELSE tries[x]
      /\ req' \in [Tabs -> [Requests -> Request]] /\ \A x \in Tabs : req'[x] = IF x = t THEN none ELSE req[x]
  <2>1. p \in Nat
    BY <1>6 DEF Slots
  <2> QED
    BY <1>1, <1>3, <1>5, <1>6, <2>1, Types DEF StoreInv, Names
<1>8. /\ login' \in [Tabs -> Entry] /\ \A x \in Tabs : login'[x] = IF x = t THEN NoLogin ELSE login[x]
      /\ NoLogin.at = "idle"
  BY <1>1, Types DEF NoLogin, Entry
<1>9. /\ \A x \in Tabs : \A a \in Slots : TryNames(tries'[x][a], Known)
      /\ \A x \in Tabs : \A r \in Requests : req'[x][r].pair \in Known
      /\ \A x \in Tabs : LoginNames(login'[x], Known, gen)
  <2>1. 0 \in Known /\ LoginNames(NoLogin, Known, gen)
    BY <1>8 DEF Known, LoginNames
  <2>2. \A x \in Tabs : \A a \in Slots : TryNames(tries'[x][a], Known)
    BY <1>6, <1>7 DEF StoreInv, Names
  <2>3. \A x \in Tabs : \A r \in Requests : req'[x][r].pair \in Known
    BY <1>5, <1>7, <2>1 DEF StoreInv, Names
  <2>4. \A x \in Tabs : LoginNames(login'[x], Known, gen)
    BY <1>8, <2>1 DEF StoreInv, Names
  <2> QED
    BY <2>2, <2>3, <2>4
<1>10. Shared'
  BY <1>5, <1>6, <1>7 DEF StoreInv, Shared
<1>11. Paid'
  <2>1. Asking' \subseteq Asking /\ Entering' \subseteq Entering /\ UNCHANGED pairs /\ Paid
    BY <1>1, <1>5, <1>7, <1>8 DEF Asking, Entering, AsksFor, StoreInv
  <2>2. Exchanging' \subseteq Exchanging \cup {<<t, p>>}
    BY <1>6, <1>7 DEF Exchanging
  <2> QED
    BY <1>1, <2>1, <2>2, Types, OneBegun
<1>12. ended' \cup byes' \subseteq DOMAIN pairs
  BY <1>1 DEF StoreInv, Tables
<1> QED
  BY <1>1, <1>3, <1>7, <1>8, <1>9, <1>10, <1>11, <1>12, TabStores

-----------------------------------------------------------------------------

\* Every step keeps the invariant.
LEMMA StoreStep ==
  ASSUME StoreInv, [Next]_vars
  PROVE  StoreInv'
<1>1. ASSUME NEW t \in Tabs, NEW r \in Requests, Served(t, r) \/ CallLost(t, r) \/ Call(t, r) \/ CallAI(t, r)
      PROVE  StoreInv'
  BY <1>1, RequestMoves, RequestStores
<1>2. ASSUME NEW t \in Tabs, NEW a \in Slots, RefreshRead(t, a) \/ RefreshLost(t, a) \/ RefreshBroken(t, a)
      PROVE  StoreInv'
  <2>1. PICK s \in {"read", "denied", "failed"} :
          /\ tries[t][a].at # "idle"
          /\ tries[t][a].at \in {"sent", "read"} \/ s \notin {"sent", "read"}
          /\ tries' = [tries EXCEPT ![t][a] = [tries[t][a] EXCEPT !.at = s]]
          /\ usable' \subseteq usable
          /\ UNCHANGED <<pairs, gen, old, excused, slips, ended, mem, disk, cur, req, byes, login, clicks>>
    BY <1>2 DEF RefreshRead, RefreshLost, RefreshBroken, TryBecomes, serverVars, tokenVars, resetVars, dialogVars
  <2> QED
    BY <2>1, AttemptStores
<1>3. ASSUME NEW t \in Tabs,
             \/ \E d \in {"none", "login", "forgot"} : OpenDialog(t, d)
             \/ ValidateResetToken(t) \/ SubmitReset(t) \/ ResetDone(t) \/ ResetAnswered(t) \/ ResetLost(t)
             \/ \E u \in Users : ForgotPassword(t, u)
      PROVE  StoreInv'
  <2>1. /\ UNCHANGED <<pairs, gen, old, usable, excused, slips, ended, byes, mem, disk, cur, tries, req, login>>
        /\ clicks' = clicks \/ (clicks < MaxClicks /\ clicks' = clicks + 1)
    BY <1>3 DEF OpenDialog, ValidateResetToken, SubmitReset, ResetDone, ResetAnswered, ResetLost,
                ForgotPassword, Click, serverVars, tokenVars, resetVars
  <2> QED
    BY <2>1, IdleStores
<1>4. ASSUME NEW t \in Tabs, Reload(t) \/ \E l \in DOMAIN links : OpenLink(t, l)
      PROVE  StoreInv'
  <2>1. \E d, l : Load(t, d, l)
    BY <1>4 DEF Reload, OpenLink
  <2> QED
    BY <2>1, LoadStores
<1>5. CASE UNCHANGED vars
  BY <1>5, IdleStores DEF vars
<1>6. ASSUME NEW t \in Tabs, Answers(t) \/ Losses(t) \/ Clicks(t)
      PROVE  StoreInv'
  <2>1. CASE Answers(t)
    BY <1>1, <1>2, <1>3, <2>1, RefreshStores, RefreshedStores, LoginStores DEF Answers
  <2>2. CASE Losses(t)
    BY <1>1, <1>2, <1>3, <2>2, LoginStores DEF Losses
  <2>3. CASE Clicks(t)
    BY <1>1, <1>3, <1>4, <2>3, LoginStores, LogoutStores DEF Clicks
  <2> QED
    BY <1>6, <2>1, <2>2, <2>3
<1>7. CASE \/ Expire
           \/ \E k \in usable : ExpireRefresh(k)
           \/ \E k \in byes : Logout(k) \/ LogoutLost(k)
           \/ \E j \in DOMAIN jobs : ResetPassword(j)
  BY <1>7, ExpiryStores
<1> QED
  BY <1>5, <1>6, <1>7 DEF Next

\* At first nothing is made, kept or under way.
LEMMA StoreInit == Init => StoreInv
<1> SUFFICES ASSUME Init
             PROVE  StoreInv
  OBVIOUS
<1>1. Shapes
  BY DEF Init, Shapes, NoTry, Try, NoLogin, Entry, NoCall, Request
<1>2. Tables /\ Names /\ Shared
  BY DEF Init, Tables, Names, Known, Shared, TryNames, LoginNames, NoTry, NoLogin, NoCall
<1>3. Paid
  <2>1. Asking = {} /\ Exchanging = {} /\ Entering = {}
    BY DEF Init, Asking, Exchanging, Entering, AsksFor, NoTry, NoLogin, NoCall
  <2>2. Len(pairs) = 0 /\ clicks = 0
    BY DEF Init
  <2> QED
    BY <2>1, <2>2, FS_EmptySet, SessionAssumption DEF Paid
<1> QED
  BY <1>1, <1>2, <1>3 DEF StoreInv

\* The invariant gives the types.
LEMMA StoreTypes == SessInv /\ StoreInv => SessTypeOK
<1> SUFFICES ASSUME SessInv, StoreInv
             PROVE  SessTypeOK
  OBVIOUS
<1>1. \A k \in DOMAIN pairs : /\ pairs[k].user \in Users /\ pairs[k].chain \in 1..k
                              /\ pairs[k].gen \in 0..gen[pairs[k].user]
  <2> SUFFICES ASSUME NEW k \in DOMAIN pairs
               PROVE  pairs[k].user \in Users /\ pairs[k].chain \in 1..k /\ pairs[k].gen \in 0..gen[pairs[k].user]
    OBVIOUS
  <2>1. pairs[k] \in Pair /\ pairs[k].user \in Users /\ pairs[k].chain \in 1..k /\ pairs[k].gen <= gen[pairs[k].user]
    BY Types
  <2>2. pairs[k].gen \in Nat /\ gen[pairs[k].user] \in Nat
    BY <2>1, Types DEF Pair
  <2> QED
    BY <2>1, <2>2
<1>2. old \in 0..Len(pairs)
  BY Types
<1>3. Len(pairs) <= MaxClicks
  <2>1. Cardinality(Asking) \in Nat /\ Cardinality(Exchanging) \in Nat /\ Cardinality(Entering) \in Nat /\ Paid
    BY FS_CardinalityType DEF StoreInv, Paid
  <2> QED
    BY <2>1, Types, SessionAssumption DEF Paid
<1>4. usable \cup excused \cup slips \cup ended \cup byes \subseteq DOMAIN pairs
  BY DEF StoreInv, Tables
<1>5. disk \in {0} \cup DOMAIN pairs /\ \A t \in Tabs : mem[t] \in {0} \cup DOMAIN pairs
  BY DEF StoreInv, Names, Known
<1>6. \A t \in Tabs :
        /\ cur[t] # 0 => tries[t][cur[t]].at # "idle" /\ tries[t][cur[t]].ours
        /\ reset[t].at = "sent" => reset[t].job \in DOMAIN jobs
        /\ \A r \in Requests : req[t][r].at = "wait" => tries[t][req[t][r].slot].at # "idle"
  BY DEF StoreInv, Shared, Ours, SessInv, Typing, Linked
<1> QED
  BY <1>1, <1>2, <1>3, <1>4, <1>5, <1>6 DEF SessTypeOK

\* Stores and requests name pairs the server has made, who waits for a refresh
\* waits for one that is under way, and every pair was paid for by a click,
\* however many tabs there are and whether or not users wait for answers.
THEOREM TypesHold == Spec => []SessTypeOK
<1>1. StoreInv /\ [Next]_vars => StoreInv'
  BY StoreStep
<1>2. SessInv /\ [Next]_vars => SessInv'
  BY Inductive
<1> QED
  BY <1>1, <1>2, Initially, StoreInit, StoreTypes, PTL DEF Spec

-----------------------------------------------------------------------------
(* A session lives until there is a reason for its end, and then ends wholly.*)
(*                                                                           *)
(* With one tab and a user who waits for answers, at most one refresh is     *)
(* under way, it presents what the tab holds, and nobody signs in meanwhile  *)
(* (Serial).  The server refuses what the tab holds only for a reason, except*)
(* while an exchange of it is on its way back (Alive); of the pairs that     *)
(* stem from one sign-in at most the last is usable, so that signing out ends*)
(* them all (Last); and they all belong to one user, for whom the tab's      *)
(* requests are (Owned).                                                     *)

OneTab == \A s, t \in Tabs : s = t

\* A row that could not be written is a reason, too.
Valid(k) == k \in usable \cup excused \cup slips

\* Two pairs that stem from one sign-in.
Kin(k, l) == pairs[k].chain = pairs[l].chain

\* Of its sign-in only k is good, but for pairs that should have been revoked.
Lone(k) == \A u \in usable \ slips : Kin(u, k) => u = k

\* An exchange is on its way back, or was lost.
Exchanged(t) == \E a \in Slots : tries[t][a].at \in {"granted", "failed"}

Serial(t) ==
  /\ mem[t] = disk
  /\ \A a \in Slots : tries[t][a].at # "idle" =>
       /\ cur[t] = a /\ tries[t][a].ours /\ tries[t][a].pair = mem[t]
       /\ login[t].at = "idle"
  /\ login[t].at # "idle" => \A r \in Requests : req[t][r].at = "idle"

Alive(t) ==
  /\ mem[t] # 0 => Valid(mem[t]) \/ Exchanged(t)
  /\ \A a \in Slots : tries[t][a].at = "denied" => tries[t][a].pair \in excused \cup slips
  /\ \A a \in Slots : tries[t][a].at = "granted" => Valid(tries[t][a].got)
  /\ login[t].at = "granted" => Valid(login[t].pair)

Last(t) ==
  /\ mem[t] # 0 /\ ~ Exchanged(t) => Lone(mem[t])
  /\ \A a \in Slots : tries[t][a].at = "granted" =>
       /\ pairs[tries[t][a].got].chain = pairs[mem[t]].chain
       /\ Lone(tries[t][a].got)
  /\ login[t].at = "granted" => Lone(login[t].pair)
  /\ mem[t] # 0 => pairs[mem[t]].chain \notin ended
  /\ login[t].at = "granted" => pairs[login[t].pair].chain \notin ended

Owned(t) ==
  /\ \A a \in Slots : tries[t][a].at = "granted" =>
       pairs[tries[t][a].got].user = pairs[mem[t]].user
  /\ \A r \in Requests : req[t][r].at # "idle" =>
       /\ req[t][r].pair # 0 => pairs[req[t][r].pair].user = req[t][r].who
       /\ mem[t] # 0 => pairs[mem[t]].user = req[t][r].who

Over == \A k \in usable : pairs[k].chain \in ended => k \in byes \cup excused \cup slips

Life(t) == Serial(t) /\ Alive(t) /\ Last(t) /\ Owned(t)

LifeInv == StoreInv /\ Over /\ \A t \in Tabs : Life(t)

\* What a tab holds is known, and so are the pairs that are good.
LEMMA Held ==
  ASSUME StoreInv, NEW t \in Tabs
  PROVE  /\ mem[t] # 0 => mem[t] \in DOMAIN pairs
         /\ usable \subseteq DOMAIN pairs /\ ended \subseteq DOMAIN pairs
         /\ \A a \in Slots : tries[t][a].at = "granted" => tries[t][a].got \in DOMAIN pairs
         /\ \A a \in Slots : tries[t][a].at # "idle" => tries[t][a].pair \in DOMAIN pairs /\ tries[t][a].pair # 0
         /\ login[t].at = "granted" => login[t].pair \in DOMAIN pairs
         /\ \A r \in Requests : req[t][r].pair # 0 => req[t][r].pair \in DOMAIN pairs
         /\ cur[t] # 0 => cur[t] \in Slots /\ tries[t][cur[t]].at # "idle"
         /\ 0 \notin DOMAIN pairs
<1>1. DOMAIN pairs = 1..Len(pairs) /\ Len(pairs) \in Nat
  BY Types
<1> QED
  BY <1>1 DEF StoreInv, Names, Known, Tables, TryNames, LoginNames, Shared, Ours

\* Nothing that the invariant speaks of changes, but that pairs are refused.
LEMMA RefusedLife ==
  ASSUME LifeInv, StoreInv', UNCHANGED <<pairs, slips, ended, mem, disk, cur, tries, req, login>>,
         usable' \subseteq usable, excused \subseteq excused', usable \subseteq usable' \cup excused',
         byes \subseteq byes' \cup excused'
  PROVE  LifeInv'
<1>1. Over'
  BY DEF LifeInv, Over
<1>2. ASSUME NEW t \in Tabs
      PROVE  Life(t)'
  <2>1. Serial(t)' /\ Alive(t)'
    BY DEF LifeInv, Life, Serial, Alive, Valid, Exchanged
  <2>2. Last(t)' /\ Owned(t)'
    BY DEF LifeInv, Life, Last, Lone, Kin, Exchanged, Owned
  <2> QED
    BY <2>1, <2>2 DEF Life
<1> QED
  BY <1>1, <1>2 DEF LifeInv

\* While the user may begin something, nothing is under way.
LEMMA QuietLife ==
  ASSUME Quiet, NEW t \in Tabs
  PROVE  /\ login[t].at = "idle" /\ \A a \in Slots : tries[t][a].at = "idle"
         /\ \A r \in Requests : req[t][r].at = "idle"
BY DEF Quiet, Awaiting

\* Requests, and the refreshes they begin.
LEMMA RequestLife ==
  ASSUME LifeInv, OneTab, StoreInv', NEW t \in Tabs, NEW r \in Requests, NEW call \in Request,
         NEW p \in Slots \cup {0}, RequestMove(t, r, call, p), login[t].at = "idle"
  PROVE  LifeInv'
<1>1. /\ UNCHANGED <<pairs, usable, excused, slips, ended, byes, mem, disk, login>>
      /\ req' = [req EXCEPT ![t][r] = call]
      /\ RefreshTokens(t, p) \/ (p = 0 /\ UNCHANGED <<cur, tries>>)
  BY DEF RequestMove, serverVars, tokenVars, resetVars
<1>2. StoreInv /\ Life(t) /\ Over
  BY DEF LifeInv
<1>3. \A q \in Requests : req'[t][q] = IF q = r THEN call ELSE req[t][q]
  BY <1>1, <1>2, Types
<1>4. \/ UNCHANGED <<cur, tries>>
      \/ /\ p \in Slots /\ cur[t] = 0 /\ mem[t] # 0 /\ tries[t][p].at = "idle"
         /\ Asked(mem[t]) \in Try
         /\ cur' = [cur EXCEPT ![t] = p]
         /\ tries' = [tries EXCEPT ![t][p] = Asked(mem[t])]
  BY <1>1, <1>2, RefreshBegun
<1>5. Owned(t)'
  <2>1. \A q \in Requests : req'[t][q].at # "idle" =>
          /\ req'[t][q].pair # 0 => pairs[req'[t][q].pair].user = req'[t][q].who
          /\ mem[t] # 0 => pairs[mem[t]].user = req'[t][q].who
    <3>1. call.at # "idle" =>
            /\ call.pair # 0 => pairs[call.pair].user = call.who
            /\ mem[t] # 0 => pairs[mem[t]].user = call.who
      BY <1>2 DEF RequestMove, Life, Serial, Owned
    <3> QED
      BY <1>2, <1>3, <3>1 DEF Life, Owned
  <2>2. \A a \in Slots : tries'[t][a].at = "granted" => tries'[t][a] = tries[t][a]
    BY <1>2, <1>4, Types DEF Asked
  <2> QED
    BY <1>1, <1>2, <2>1, <2>2 DEF Life, Owned
<1>6. Serial(t)' /\ Alive(t)' /\ Last(t)'
  <2>1. CASE UNCHANGED <<cur, tries>>
    BY <1>1, <1>2, <2>1 DEF Life, Serial, Alive, Valid, Last, Lone, Kin, Exchanged
  <2>2. CASE /\ p \in Slots /\ cur[t] = 0 /\ mem[t] # 0
             /\ cur' = [cur EXCEPT ![t] = p]
             /\ tries' = [tries EXCEPT ![t][p] = Asked(mem[t])]
    <3>1. \A a \in Slots : tries[t][a].at = "idle"
      BY <1>2, <2>2 DEF Life, Serial, Slots
    <3>2. /\ cur'[t] = p
          /\ \A a \in Slots : tries'[t][a] = IF a = p THEN Asked(mem[t]) ELSE tries[t][a]
      BY <1>2, <2>2, Types
    <3>3. /\ Asked(mem[t]).at = "sent" /\ Asked(mem[t]).ours /\ Asked(mem[t]).pair = mem[t]
      BY DEF Asked
    <3>4. Serial(t)'
      BY <1>1, <1>2, <3>1, <3>2, <3>3 DEF Life, Serial
    <3>5. Exchanged(t)' = Exchanged(t)
      BY <3>1, <3>2, <3>3 DEF Exchanged
    <3>6. \A a \in Slots : tries'[t][a].at \in {"idle", "sent"}
      BY <3>1, <3>2, <3>3
    <3>7. Alive(t)' /\ Last(t)'
      BY <1>1, <1>2, <3>5, <3>6 DEF Life, Alive, Valid, Last, Lone, Kin
    <3> QED
      BY <3>4, <3>7
  <2> QED
    BY <1>4, <2>1, <2>2
<1>7. Over'
  BY <1>1, <1>2 DEF Over
<1> QED
  BY <1>5, <1>6, <1>7 DEF LifeInv, Life, OneTab

\* The server looks a refresh token up, or an attempt is lost.
LEMMA AttemptLife ==
  ASSUME LifeInv, OneTab, StoreInv', NEW t \in Tabs, NEW a \in Slots,
         RefreshRead(t, a) \/ RefreshLost(t, a) \/ RefreshBroken(t, a)
  PROVE  LifeInv'
<1>1. PICK s \in {"read", "denied", "failed"} :
        /\ tries' = [tries EXCEPT ![t][a] = [tries[t][a] EXCEPT !.at = s]]
        /\ tries[t][a].at \in {"sent", "read", "granted"} /\ usable' \subseteq usable
        /\ s # "failed" => tries[t][a].at = "sent" /\ usable' = usable
        /\ s = "denied" => tries[t][a].pair \notin usable
        /\ UNCHANGED <<pairs, excused, slips, ended, byes, mem, disk, cur, req, login>>
  BY DEF RefreshRead, RefreshLost, RefreshBroken, TryBecomes, serverVars, tokenVars, resetVars, dialogVars
<1>2. /\ StoreInv /\ Life(t) /\ Over
      /\ UNCHANGED <<pairs, excused, slips, ended, byes, mem, disk, cur, req, login>> /\ usable' \subseteq usable
  BY <1>1 DEF LifeInv
<1>3. \A b \in Slots : /\ b # a => tries'[t][b] = tries[t][b]
                       /\ b = a => /\ tries'[t][b].at = s /\ tries'[t][b].pair = tries[t][b].pair
                                   /\ tries'[t][b].ours = tries[t][b].ours
  <2> DEFINE new == [tries[t][a] EXCEPT !.at = s]
  <2>1. new.at = s /\ new.pair = tries[t][a].pair /\ new.ours = tries[t][a].ours
    BY <1>2, Types DEF Try
  <2>2. tries' = [tries EXCEPT ![t][a] = new]
    BY <1>1
  <2> HIDE DEF new
  <2> QED
    BY <1>2, <2>1, <2>2, Types
<1>4. \A b \in Slots : b # a => tries[t][b].at = "idle"
  BY <1>1, <1>2 DEF Life, Serial
<1>5. Serial(t)'
  BY <1>1, <1>2, <1>3, <1>4 DEF Life, Serial
<1>6. tries[t][a].pair = mem[t] /\ mem[t] # 0
  BY <1>1, <1>2, Held DEF Life, Serial
<1>7. tries[t][a].at = "sent" => ~ Exchanged(t) /\ Valid(mem[t])
  BY <1>2, <1>4, <1>6 DEF Life, Exchanged, Alive
<1>8. Alive(t)'
  <2>1. login[t].at = "idle"
    BY <1>1, <1>2 DEF Life, Serial
  <2>2. \A b \in Slots : tries'[t][b].at = IF b = a THEN s ELSE "idle"
    BY <1>3, <1>4
  <2>3. s # "failed" => mem[t] \in usable \cup excused \cup slips /\ usable' = usable
    BY <1>1, <1>7 DEF Valid
  <2>4. s = "denied" => tries'[t][a].pair \in excused \cup slips
    BY <1>1, <1>3, <1>6, <2>3
  <2>5. s = "failed" => Exchanged(t)'
    BY <2>2 DEF Exchanged
  <2> QED
    BY <1>1, <2>1, <2>2, <2>3, <2>4, <2>5 DEF Alive, Valid
<1>9. Exchanged(t) => Exchanged(t)'
  BY <1>1, <1>3, <1>4 DEF Exchanged
<1>10. Last(t)' /\ Owned(t)'
  <2>1. \A b \in Slots : tries'[t][b].at # "granted"
    BY <1>1, <1>3, <1>4
  <2> QED
    BY <1>2, <1>9, <2>1 DEF Life, Last, Lone, Kin, Owned
<1>11. Over'
  BY <1>2 DEF Over
<1> QED
  BY <1>5, <1>8, <1>10, <1>11 DEF LifeInv, Life, OneTab

\* The server exchanges a refresh token: it revokes the pair the tab holds and
\* makes the next one of the same sign-in.
LEMMA RefreshLife ==
  ASSUME LifeInv, OneTab, StoreInv', NEW t \in Tabs, NEW a \in Slots, Refresh(t, a)
  PROVE  LifeInv'
<1>0. PICK k, m : k = Len(pairs) + 1 /\ m = mem[t]
  OBVIOUS
<1> DEFINE new == [tries[t][a] EXCEPT !.at = "granted", !.got = k]
<1>1. StoreInv /\ Life(t) /\ Over
  BY DEF LifeInv
<1>2. /\ tries[t][a].at = "read" /\ tries[t][a].pair = m /\ tries[t][a].ours /\ cur[t] = a
      /\ m \in DOMAIN pairs /\ m # 0 /\ login[t].at = "idle" /\ mem[t] = disk
  BY <1>0, <1>1, Held DEF Refresh, Life, Serial
<1>3. /\ Grant(pairs[m], {m}) /\ tries' = [tries EXCEPT ![t][a] = new]
      /\ UNCHANGED <<excused, ended, byes, mem, disk, cur, req, login>>
  BY <1>0, <1>2 DEF Refresh, TryBecomes, resetVars, dialogVars
<1>4. pairs[m] \in Pair /\ pairs[m].chain # 0 /\ k \in Nat
  BY <1>0, <1>1, <1>2, Types
<1>5. new.at = "granted" /\ new.got = k /\ new.pair = m /\ new.ours
  BY <1>1, <1>2, <1>4, Types DEF Try
<1>6. /\ k \notin DOMAIN pairs /\ DOMAIN pairs' = DOMAIN pairs \cup {k}
      /\ \A i \in DOMAIN pairs : pairs'[i] = pairs[i]
      /\ pairs'[k].user = pairs[m].user /\ pairs'[k].chain = pairs[m].chain
      /\ usable' \subseteq usable \cup {k} /\ slips \subseteq slips'
      /\ m \notin usable' \ slips' /\ k \in usable' \cup slips'
  BY <1>0, <1>1, <1>2, <1>3, <1>4, PairAdded
<1> HIDE DEF new
<1>7. \A b \in Slots : tries'[t][b] = IF b = a THEN new ELSE tries[t][b]
  BY <1>1, <1>3, Types
<1>8. \A b \in Slots : b # a => tries[t][b].at = "idle"
  BY <1>1, <1>2 DEF Life, Serial
<1>9. Exchanged(t)' /\ ~ Exchanged(t)
  <2>1. Exchanged(t)'
    BY <1>5, <1>7 DEF Exchanged
  <2>2. ~ Exchanged(t)
    BY <1>2, <1>8 DEF Exchanged
  <2> QED
    BY <2>1, <2>2
<1>10. \A u \in usable \ slips : Kin(u, m) => u = m
  BY <1>0, <1>1, <1>2, <1>9 DEF Life, Last, Lone
<1>11. mem[t] = m /\ mem'[t] = m
  BY <1>0, <1>3
<1>12. Serial(t)' /\ Alive(t)'
  <2>1. Serial(t)'
    BY <1>1, <1>2, <1>3, <1>5, <1>7, <1>8, <1>11 DEF Life, Serial
  <2>2. Alive(t)'
    BY <1>1, <1>2, <1>3, <1>5, <1>6, <1>7, <1>8, <1>9 DEF Life, Alive, Valid
  <2> QED
    BY <2>1, <2>2
<1>13. usable \subseteq DOMAIN pairs
  BY <1>1, Held
<1>14. Last(t)'
  <2>1. \A u \in usable' \ slips' : pairs'[u].chain = pairs'[k].chain => u = k
    <3> SUFFICES ASSUME NEW u \in usable' \ slips', u # k, pairs'[u].chain = pairs'[k].chain
                 PROVE  FALSE
      OBVIOUS
    <3>1. u \in usable \ slips /\ u # m /\ pairs[u].chain = pairs[m].chain
      BY <1>6, <1>13
    <3> QED
      BY <1>10, <3>1 DEF Kin
  <2>2. pairs'[m].chain \notin ended
    BY <1>1, <1>2, <1>6, <1>11 DEF Life, Last
  <2>3. \A b \in Slots : tries'[t][b].at = "granted" => b = a /\ tries'[t][b].got = k
    BY <1>5, <1>7, <1>8
  <2>4. pairs'[k].chain = pairs'[m].chain
    BY <1>2, <1>6
  <2> QED
    BY <1>2, <1>3, <1>9, <1>11, <2>1, <2>2, <2>3, <2>4 DEF Last, Lone, Kin
<1>15. Owned(t)'
  <2>1. \A b \in Slots : tries'[t][b].at = "granted" => tries'[t][b].got = k
    BY <1>5, <1>7, <1>8
  <2>2. \A r \in Requests : req[t][r].pair # 0 => req[t][r].pair \in DOMAIN pairs
    BY <1>1, Held
  <2> QED
    BY <1>1, <1>2, <1>3, <1>6, <1>11, <2>1, <2>2 DEF Life, Owned
<1>16. Over'
  <2>1. pairs'[k].chain \notin ended
    BY <1>1, <1>2, <1>6, <1>11 DEF Life, Last
  <2> QED
    BY <1>1, <1>3, <1>6, <1>13, <2>1 DEF Over
<1> QED
  BY <1>12, <1>14, <1>15, <1>16 DEF LifeInv, Life, OneTab

\* The answer to a refresh is handled: the tab keeps the new pair, or is signed
\* out.
LEMMA RefreshedLife ==
  ASSUME LifeInv, OneTab, StoreInv', NEW t \in Tabs, NEW a \in Slots, Refreshed(t, a)
  PROVE  LifeInv'
<1> DEFINE k == IF tries[t][a].at = "granted" THEN tries[t][a].got ELSE 0
           granted == k # 0
           row == [r \in Requests |-> Resumed(req[t][r], a, granted, k)]
<1>1. StoreInv /\ Life(t) /\ Over
  BY DEF LifeInv
<1>2. /\ tries[t][a].at \in {"granted", "denied", "failed"} /\ tries[t][a].ours /\ tries[t][a].pair = mem[t]
      /\ tries[t][a].pair # 0 /\ login[t].at = "idle"
  BY <1>1, Held DEF Refreshed, Life, Serial
<1>3. /\ tries' = [tries EXCEPT ![t][a] = NoTry] /\ Keep(t, k)
      /\ req' = [req EXCEPT ![t] = row]
      /\ UNCHANGED <<pairs, usable, excused, slips, ended, byes, login>>
  BY <1>2 DEF Refreshed, TryBecomes, serverVars, tokenVars, resetVars, dialogVars
<1>4. /\ mem'[t] = k /\ disk' = k
      /\ \A b \in Slots : tries'[t][b].at = "idle"
  <2>1. mem'[t] = k /\ disk' = k
    BY <1>1, <1>3, Types DEF Keep
  <2>2. \A b \in Slots : b # a => tries[t][b].at = "idle"
    BY <1>1, <1>2 DEF Life, Serial
  <2>3. NoTry.at = "idle" /\ \A b \in Slots : tries'[t][b] = IF b = a THEN NoTry ELSE tries[t][b]
    BY <1>1, <1>3, Types DEF NoTry
  <2> QED
    BY <2>1, <2>2, <2>3
<1>5. Serial(t)'
  BY <1>2, <1>3, <1>4 DEF Serial
<1>6. k \in Nat /\ (k # 0 => k \in DOMAIN pairs /\ tries[t][a].at = "granted" /\ k = tries[t][a].got)
  BY <1>1, Types, Held
<1>7. ~ Exchanged(t)'
  BY <1>4 DEF Exchanged
<1>8. k # 0 => /\ Valid(k) /\ pairs[k].chain = pairs[mem[t]].chain /\ pairs[mem[t]].chain \notin ended
               /\ Lone(k)
               /\ pairs[k].user = pairs[mem[t]].user
  BY <1>1, <1>2, <1>6 DEF Life, Alive, Last, Owned
<1>9. \A r \in Requests : row[r].at # "idle" =>
        /\ req[t][r].at # "idle" /\ row[r].who = req[t][r].who
        /\ row[r].pair = req[t][r].pair \/ (k # 0 /\ row[r].pair = k)
  <2> SUFFICES ASSUME NEW r \in Requests, row[r].at # "idle"
               PROVE  /\ req[t][r].at # "idle" /\ row[r].who = req[t][r].who
                      /\ row[r].pair = req[t][r].pair \/ (k # 0 /\ row[r].pair = k)
    OBVIOUS
  <2> DEFINE call == req[t][r]
             new == Resumed(call, a, granted, k)
  <2>1. call \in Request /\ granted \in BOOLEAN /\ row[r] = new
    BY <1>1, Types
  <2> HIDE DEF call, k, granted
  <2>2. new.at # "idle" => /\ call.at # "idle" /\ new.who = call.who
                           /\ new.pair = call.pair \/ (granted /\ new.pair = k)
    BY <1>6, <2>1, ResumedRequest
  <2> HIDE DEF new, row
  <2> QED
    BY <2>1, <2>2 DEF call, granted
<1> HIDE DEF k, row
<1>10. \A r \in Requests : req'[t][r] = row[r]
  BY <1>1, <1>3, Types DEF row
<1>11. Alive(t)' /\ Last(t)'
  BY <1>2, <1>3, <1>4, <1>7, <1>8 DEF Alive, Valid, Last, Lone, Kin
<1>12. Owned(t)'
  <2> SUFFICES ASSUME NEW r \in Requests, row[r].at # "idle"
               PROVE  /\ row[r].pair # 0 => pairs[row[r].pair].user = row[r].who
                      /\ k # 0 => pairs[k].user = row[r].who
    BY <1>3, <1>4, <1>10 DEF Owned
  <2>1. /\ req[t][r].pair # 0 => pairs[req[t][r].pair].user = row[r].who
        /\ pairs[mem[t]].user = row[r].who
    BY <1>1, <1>2, <1>9 DEF Life, Owned
  <2> QED
    BY <1>8, <1>9, <2>1
<1>13. Over'
  BY <1>1, <1>3 DEF Over
<1> QED
  BY <1>5, <1>11, <1>12, <1>13 DEF LifeInv, Life, OneTab

\* A sign-in, from the form to the store: its pair is the only one that stems
\* from it.
LEMMA LoginLife ==
  ASSUME LifeInv, OneTab, StoreInv', NEW t \in Tabs,
         LoginRead(t) \/ Login(t) \/ LoggedIn(t) \/ LoginLost(t)
  PROVE  LifeInv'
<1>1. StoreInv /\ Life(t) /\ Over /\ login[t].at # "idle"
  BY DEF LifeInv, LoginRead, Login, LoggedIn, LoginLost
<1>2. /\ \A a \in Slots : tries[t][a].at = "idle"
      /\ \A r \in Requests : req[t][r].at = "idle"
      /\ ~ Exchanged(t) /\ mem[t] = disk
  <2>1. /\ \A a \in Slots : tries[t][a].at = "idle"
        /\ \A r \in Requests : req[t][r].at = "idle"
        /\ mem[t] = disk
    BY <1>1 DEF Life, Serial
  <2> QED
    BY <2>1 DEF Exchanged
<1>3. UNCHANGED <<cur, tries, req, byes, excused, ended>> /\ NoLogin.at = "idle"
  BY DEF LoginRead, Login, LoggedIn, LoginLost, serverVars, tokenVars, resetVars, NoLogin
<1>4. Exchanged(t)' = Exchanged(t)
  BY <1>3 DEF Exchanged
<1>5. CASE LoginRead(t) \/ LoginLost(t)
  <2>1. login'[t].at \in {"idle", "read"} /\ UNCHANGED <<pairs, usable, slips, mem, disk>>
    BY <1>1, <1>3, <1>5, Types DEF LoginRead, LoginLost, serverVars, tokenVars, resetVars, Entry
  <2>2. Serial(t)' /\ Over'
    BY <1>1, <1>2, <1>3, <2>1 DEF Serial, Over
  <2>3. Alive(t)' /\ Owned(t)'
    BY <1>1, <1>2, <1>3, <1>4, <2>1 DEF Life, Alive, Valid, Owned
  <2>4. Last(t)'
    BY <1>1, <1>2, <1>3, <1>4, <2>1 DEF Life, Last, Lone, Kin
  <2> QED
    BY <2>2, <2>3, <2>4 DEF LifeInv, Life, OneTab
<1>6. CASE LoggedIn(t)
  <2>0. PICK k : k = login[t].pair
    OBVIOUS
  <2>1. /\ login'[t] = NoLogin /\ mem'[t] = k /\ disk' = k
        /\ UNCHANGED <<pairs, usable, slips>>
    BY <1>1, <1>6, <2>0, Types DEF LoggedIn, Keep, serverVars, tokenVars, resetVars
  <2>2. /\ Valid(k) /\ pairs[k].chain \notin ended
        /\ Lone(k)
    BY <1>1, <1>6, <2>0 DEF LoggedIn, Life, Alive, Last
  <2>3. Serial(t)' /\ Alive(t)' /\ Last(t)' /\ Owned(t)' /\ Over'
    BY <1>1, <1>2, <1>3, <1>4, <2>1, <2>2 DEF Serial, Alive, Valid, Last, Lone, Kin, Owned, Over
  <2> QED
    BY <2>3 DEF LifeInv, Life, OneTab
<1>7. CASE Login(t)
  <2>0. PICK k : k = Len(pairs) + 1
    OBVIOUS
  <2> DEFINE rec == [user |-> login[t].who, chain |-> 0, gen |-> login[t].gen]
  <2>1. /\ Grant(rec, {}) /\ UNCHANGED <<mem, disk>>
        /\ login'[t].at = "granted" /\ login'[t].pair = k
    BY <1>1, <1>7, <2>0, Types DEF Login, Entry
  <2>2. rec \in Pair /\ rec.chain = 0
    BY <1>1, Types DEF Pair, Entry, StoreInv, Names, LoginNames
  <2>3. /\ k \in Nat /\ k \notin DOMAIN pairs /\ DOMAIN pairs' = DOMAIN pairs \cup {k}
        /\ \A i \in DOMAIN pairs : pairs'[i] = pairs[i]
        /\ pairs'[k].chain = k
        /\ usable \subseteq usable' /\ usable' \subseteq usable \cup {k}
        /\ k \in usable' \cup slips' /\ slips \subseteq slips' /\ slips' \subseteq slips \cup {k}
    <3> HIDE DEF rec
    <3>1. PICK none : none = {}
      OBVIOUS
    <3>2. /\ k \in Nat /\ k # 0 /\ k \notin DOMAIN pairs
          /\ pairs' \in Seq(Pair) /\ Len(pairs') = k /\ DOMAIN pairs' = DOMAIN pairs \cup {k}
          /\ \A i \in DOMAIN pairs : pairs'[i] = pairs[i]
          /\ pairs'[k].user = rec.user /\ pairs'[k].gen = rec.gen
          /\ pairs'[k].chain = IF rec.chain = 0 THEN k ELSE rec.chain
          /\ usable \ none \subseteq usable' /\ usable' \subseteq usable \cup {k}
          /\ slips \subseteq slips' /\ slips' \subseteq slips \cup none \cup {k}
          /\ k \in usable' \cup slips' /\ \A i \in none : i = k \/ i \notin usable' \ slips'
      <4>1. Grant(rec, none)
        BY <2>1, <3>1
      <4> QED
        BY <1>1, <2>0, <2>2, <4>1, PairAdded
    <3> QED
      BY <2>2, <3>1, <3>2
  <2>4. /\ usable \subseteq DOMAIN pairs /\ ended \subseteq DOMAIN pairs
        /\ mem[t] # 0 => mem[t] \in DOMAIN pairs
        /\ \A r \in Requests : req[t][r].pair # 0 => req[t][r].pair \in DOMAIN pairs
    BY <1>1, Held
  <2>5. \A i \in DOMAIN pairs : pairs[i].chain # k
    <3>1. \A i \in DOMAIN pairs : pairs[i].chain <= Len(pairs) /\ pairs[i].chain \in Nat /\ Len(pairs) \in Nat
      BY <1>1, Types DEF Pair
    <3> QED
      BY <2>0, <3>1
  <2> HIDE DEF rec
  <2>6. \A u \in usable' : pairs'[u].chain = pairs'[k].chain => u = k
    BY <2>3, <2>4, <2>5
  <2>7. mem[t] # 0 => \A u \in usable' \ slips' : pairs'[u].chain = pairs'[mem[t]].chain => u = mem[t]
    <3> SUFFICES ASSUME mem[t] # 0, NEW u \in usable' \ slips', pairs'[u].chain = pairs'[mem[t]].chain
                 PROVE  u = mem[t]
      OBVIOUS
    <3>1. u # k
      BY <2>3, <2>4, <2>5
    <3> QED
      BY <1>1, <1>2, <2>3, <2>4, <3>1 DEF Life, Last, Lone, Kin
  <2>8. Serial(t)' /\ Alive(t)'
    BY <1>1, <1>2, <1>3, <1>4, <2>1, <2>3 DEF Life, Serial, Alive, Valid
  <2>9. Last(t)'
    <3>1. pairs'[k].chain \notin ended
      BY <2>3, <2>4
    <3>2. mem[t] # 0 => pairs'[mem[t]].chain \notin ended
      BY <1>1, <2>3, <2>4 DEF Life, Last
    <3> QED
      BY <1>2, <1>3, <2>1, <2>6, <2>7, <3>1, <3>2 DEF Last, Lone, Kin
  <2>10. Owned(t)' /\ Over'
    BY <1>1, <1>2, <1>3, <2>1, <2>3, <2>4 DEF Owned, Over
  <2> QED
    BY <2>8, <2>9, <2>10 DEF LifeInv, Life, OneTab
<1> QED
  BY <1>5, <1>6, <1>7

\* A sign-in, a sign-out or a reload begins while nothing is under way.
LEMMA ClickLife ==
  ASSUME LifeInv, OneTab, Patient, StoreInv', NEW t \in Tabs,
         \/ \E u \in Users : SubmitLogin(t, u)
         \/ HandleLogout(t)
         \/ \E d, l : Load(t, d, l)
  PROVE  LifeInv'
<1>1. StoreInv /\ Life(t) /\ Over /\ Quiet
  BY DEF LifeInv, SubmitLogin, HandleLogout, Load
<1>2. /\ \A a \in Slots : tries[t][a].at = "idle"
      /\ \A r \in Requests : req[t][r].at = "idle"
      /\ login[t].at = "idle" /\ ~ Exchanged(t) /\ mem[t] = disk
  BY <1>1, QuietLife DEF Life, Serial, Exchanged
<1>3. CASE \E u \in Users : SubmitLogin(t, u)
  <2>1. /\ login'[t].at = "sent"
        /\ UNCHANGED <<pairs, usable, excused, slips, ended, byes, mem, disk, cur, tries, req>>
    BY <1>1, <1>3, Types DEF SubmitLogin, serverVars, tokenVars, resetVars
  <2>2. Serial(t)' /\ Over' /\ ~ Exchanged(t)'
    BY <1>1, <1>2, <2>1 DEF Serial, Over, Exchanged
  <2>3. Alive(t)' /\ Owned(t)'
    BY <1>1, <1>2, <2>1 DEF Life, Alive, Valid, Owned
  <2>4. Last(t)'
    BY <1>1, <1>2, <2>1 DEF Life, Last, Lone, Kin
  <2> QED
    BY <2>2, <2>3, <2>4 DEF LifeInv, Life, OneTab
<1>4. CASE HandleLogout(t)
  <2>0. PICK m : m = mem[t]
    OBVIOUS
  <2>1. /\ m # 0 /\ mem'[t] = 0 /\ disk' = 0
        /\ byes' = byes \cup {m} /\ ended' = ended \cup {pairs[m].chain}
        /\ UNCHANGED <<pairs, usable, excused, slips, tries, req, login>>
    BY <1>1, <1>4, <2>0, Types DEF HandleLogout, Keep, tokenVars, resetVars, dialogVars
  <2>2. \A u \in usable \ slips : Kin(u, m) => u = m
    BY <1>1, <1>2, <2>0, <2>1 DEF Life, Last, Lone
  <2>3. Over'
    BY <1>1, <2>1, <2>2 DEF Over, Kin
  <2>4. Serial(t)' /\ Alive(t)' /\ Last(t)' /\ Owned(t)'
    BY <1>2, <2>1 DEF Serial, Alive, Last, Owned
  <2> QED
    BY <2>3, <2>4 DEF LifeInv, Life, OneTab
<1>5. CASE \E d, l : Load(t, d, l)
  <2> DEFINE left == [a \in Slots |-> [tries[t][a] EXCEPT !.ours = FALSE]]
  <2>1. /\ mem'[t] = disk /\ disk' = disk /\ req'[t] = [r \in Requests |-> NoCall] /\ login'[t] = NoLogin
        /\ UNCHANGED <<pairs, usable, excused, slips, ended, byes>>
    BY <1>1, <1>5, Types DEF Load, serverVars, tokenVars, resetVars
  <2>2. NoCall.at = "idle" /\ NoLogin.at = "idle" /\ Asked(disk).at = "sent" /\ Asked(disk).ours /\ Asked(disk).pair = disk
    BY DEF NoCall, NoLogin, Asked
  <2>3. \E p : cur'[t] = p /\ (tries'[t] = left \/ (p \in Slots /\ tries'[t] = [left EXCEPT ![p] = Asked(disk)]))
    <3>1. PICK p \in Slots \cup {0} :
            /\ cur' = [cur EXCEPT ![t] = p]
            /\ \/ tries' = [tries EXCEPT ![t] = left]
               \/ p \in Slots /\ tries' = [tries EXCEPT ![t] = [left EXCEPT ![p] = Asked(disk)]]
      BY <1>5 DEF Load
    <3> HIDE DEF left
    <3> QED
      BY <1>1, <3>1, Types
  <2>4. \A a \in Slots : left[a].at = "idle"
    <3> SUFFICES ASSUME NEW a \in Slots
                 PROVE  [tries[t][a] EXCEPT !.ours = FALSE].at = "idle"
      OBVIOUS
    <3> QED
      BY <1>1, <1>2, Types DEF Try
  <2>5. left = [a \in Slots |-> left[a]]
    OBVIOUS
  <2> HIDE DEF left
  <2>6. \A a \in Slots : tries'[t][a].at # "idle" => cur'[t] = a /\ tries'[t][a] = Asked(disk)
    BY <2>3, <2>4, <2>5
  <2>7. \A a \in Slots : tries'[t][a].at \in {"idle", "sent"}
    BY <2>2, <2>6
  <2>8. Serial(t)'
    BY <1>2, <2>1, <2>2, <2>6 DEF Serial
  <2>9. ~ Exchanged(t)'
    BY <2>7 DEF Exchanged
  <2>10. Alive(t)' /\ Last(t)' /\ Owned(t)' /\ Over'
    BY <1>1, <1>2, <2>1, <2>2, <2>7, <2>9 DEF Life, Alive, Valid, Last, Lone, Kin, Owned, Over
  <2> QED
    BY <2>8, <2>10 DEF LifeInv, Life, OneTab
<1> QED
  BY <1>3, <1>4, <1>5

\* Every step keeps the invariant.
LEMMA LifeStep ==
  ASSUME LifeInv, OneTab, Patient, [Next]_vars
  PROVE  LifeInv'
<1>1. StoreInv /\ StoreInv'
  BY StoreStep DEF LifeInv
<1>2. ASSUME NEW t \in Tabs, NEW r \in Requests, Served(t, r) \/ CallLost(t, r) \/ Call(t, r) \/ CallAI(t, r)
      PROVE  LifeInv'
  <2>1. login[t].at = "idle"
    <3>1. CASE Served(t, r) \/ CallLost(t, r)
      BY <3>1 DEF Served, CallLost, LifeInv, Life, Serial
    <3>2. CASE Call(t, r) \/ CallAI(t, r)
      BY <3>2 DEF Call, CallAI, MayCall, Awaiting
    <3> QED
      BY <1>2, <3>1, <3>2
  <2>2. PICK call \in Request, p \in Slots \cup {0} : RequestMove(t, r, call, p)
    BY <1>1, <1>2, RequestMoves
  <2> QED
    BY <1>1, <2>1, <2>2, RequestLife
<1>3. ASSUME NEW t \in Tabs,
             \/ \E d \in {"none", "login", "forgot"} : OpenDialog(t, d)
             \/ ValidateResetToken(t) \/ SubmitReset(t) \/ ResetDone(t) \/ ResetAnswered(t) \/ ResetLost(t)
             \/ \E u \in Users : ForgotPassword(t, u)
      PROVE  LifeInv'
  <2>1. UNCHANGED <<pairs, usable, excused, slips, ended, byes, mem, disk, cur, tries, req, login>>
    BY <1>3 DEF OpenDialog, ValidateResetToken, SubmitReset, ResetDone, ResetAnswered, ResetLost,
                ForgotPassword, serverVars, tokenVars, resetVars
  <2> QED
    BY <1>1, <2>1, RefusedLife
<1>4. ASSUME NEW j \in DOMAIN jobs, ResetPassword(j)
      PROVE  LifeInv'
  <2>1. \E hers :
          /\ usable' = usable \ hers /\ excused' = excused \cup hers
          /\ UNCHANGED <<pairs, slips, ended, byes, mem, disk, cur, tries, req, login>>
    <3>1. CASE ResetRead(j) \/ ChangePassword(j) \/ SpendLink(j)
      <4>1. UNCHANGED <<pairs, usable, excused, slips, ended, byes, mem, disk, cur, tries, req, login>>
        BY <3>1 DEF ResetRead, ChangePassword, SpendLink, tokenVars, dialogVars
      <4>2. usable' = usable \ {} /\ excused' = excused \cup {}
        BY <4>1
      <4> QED
        BY <4>1, <4>2
    <3>2. CASE RevokeTokens(j)
      <4> DEFINE hers == Revoked(links[jobs[j].link].user)
      <4>1. UNCHANGED <<pairs, slips, ended, byes, mem, disk, cur, tries, req, login>>
        BY <3>2 DEF RevokeTokens, dialogVars
      <4>2. \/ usable' = usable \ {} /\ excused' = excused \cup {}
            \/ usable' = usable \ hers /\ excused' = excused \cup hers
        BY <3>2 DEF RevokeTokens
      <4> HIDE DEF hers
      <4> QED
        BY <4>1, <4>2
    <3> QED
      BY <1>4, <3>1, <3>2 DEF ResetPassword
  <2> QED
    BY <1>1, <2>1, RefusedLife
<1>5. ASSUME NEW t \in Tabs, Reload(t) \/ \E l \in DOMAIN links : OpenLink(t, l)
      PROVE  LifeInv'
  <2>1. \E d, l : Load(t, d, l)
    BY <1>5 DEF Reload, OpenLink
  <2> QED
    BY <1>1, <2>1, ClickLife
<1>6. CASE UNCHANGED vars
  BY <1>1, <1>6, RefusedLife DEF vars
<1>7. ASSUME NEW t \in Tabs, Answers(t) \/ Losses(t) \/ Clicks(t)
      PROVE  LifeInv'
  <2>1. CASE Answers(t)
    BY <1>1, <1>2, <1>3, <2>1, AttemptLife, RefreshLife, RefreshedLife, LoginLife DEF Answers
  <2>2. CASE Losses(t)
    BY <1>1, <1>2, <1>3, <2>2, AttemptLife, LoginLife DEF Losses
  <2>3. CASE Clicks(t)
    BY <1>1, <1>2, <1>3, <1>5, <2>3, ClickLife DEF Clicks
  <2> QED
    BY <1>7, <2>1, <2>2, <2>3
<1>8. CASE \/ Expire
           \/ \E k \in usable : ExpireRefresh(k)
           \/ \E k \in byes : Logout(k) \/ LogoutLost(k)
  <2>1. /\ UNCHANGED <<pairs, slips, ended, mem, disk, cur, tries, req, login>>
        /\ \E k : /\ usable' = usable \/ usable' = usable \ {k}
                  /\ excused' = excused \cup {k} \/ (excused' = excused /\ usable' = usable /\ byes' = byes)
                  /\ byes' = byes \/ byes' = byes \ {k}
    BY <1>8 DEF Expire, ExpireRefresh, Logout, LogoutLost, resetVars, dialogVars
  <2> QED
    BY <1>1, <2>1, RefusedLife
<1> QED
  BY <1>4, <1>6, <1>7, <1>8 DEF Next

\* At first nobody is signed in.
LEMMA LifeInit == Init => LifeInv
<1> SUFFICES ASSUME Init
             PROVE  LifeInv
  OBVIOUS
<1>1. StoreInv /\ Over
  BY StoreInit DEF Init, Over
<1>2. ASSUME NEW t \in Tabs
      PROVE  Life(t)
  <2>1. /\ mem[t] = 0 /\ disk = 0 /\ login[t].at = "idle"
        /\ \A a \in Slots : tries[t][a].at = "idle"
        /\ \A r \in Requests : req[t][r].at = "idle"
    BY DEF Init, NoTry, NoLogin, NoCall
  <2> QED
    BY <2>1 DEF Life, Serial, Alive, Last, Owned
<1> QED
  BY <1>1, <1>2 DEF LifeInv

\* What the invariant says of a session that goes on, is used, and is over.
LEMMA LifeMeans ==
  ASSUME LifeInv
  PROVE  SessionSurvives /\ RequestsKeepTheirUser /\ LoggedOutIsOver
<1>1. SessionSurvives
  <2> SUFFICES ASSUME NEW t \in Tabs
               PROVE  /\ mem[t] \in usable \cup excused \cup slips \cup {0} \cup {tries[t][a].pair : a \in Slots}
                      /\ \A a \in Slots : tries[t][a].at = "denied" => tries[t][a].pair \in excused \cup slips
    BY DEF SessionSurvives
  <2>1. ASSUME Exchanged(t)
        PROVE  mem[t] \in {tries[t][a].pair : a \in Slots}
    <3>1. PICK a \in Slots : tries[t][a].at # "idle"
      BY <2>1 DEF Exchanged
    <3>2. tries[t][a].pair = mem[t]
      BY <3>1 DEF LifeInv, Life, Serial
    <3> QED
      BY <3>2
  <2> QED
    BY <2>1 DEF LifeInv, Life, Alive, Valid
<1>2. RequestsKeepTheirUser
  <2> SUFFICES ASSUME NEW t \in Tabs, NEW r \in Requests, req[t][r].at = "sent", req[t][r].pair \in live
               PROVE  pairs[req[t][r].pair].user = req[t][r].who
    BY DEF RequestsKeepTheirUser
  <2>1. req[t][r].pair # 0
    BY Types DEF LifeInv, live
  <2> QED
    BY <2>1 DEF LifeInv, Life, Owned
<1>3. LoggedOutIsOver
  BY DEF LoggedOutIsOver, LifeInv, Life, Last, Over
<1> QED
  BY <1>1, <1>2, <1>3

\* With one tab and a user who waits for answers, a session ends for a reason
\* only: however refreshes, requests, losses and reloads interleave, what the
\* tab holds is good or is being exchanged, and the server turns it down only
\* for a reason the user could know of, or because the row of a token could not
\* be written.
THEOREM SessionLasts ==
  ASSUME Patient, OneTab
  PROVE  Spec => []SessionSurvives
<1>1. LifeInv /\ [Next]_vars => LifeInv'
  BY LifeStep
<1> QED
  BY <1>1, LifeInit, LifeMeans, PTL DEF Spec

\* Under the same assumptions the token of a request is one of the user whom
\* the tab showed when the request was made, also after a refresh.
THEOREM RequestsStayHers ==
  ASSUME Patient, OneTab
  PROVE  Spec => []RequestsKeepTheirUser
<1>1. LifeInv /\ [Next]_vars => LifeInv'
  BY LifeStep
<1> QED
  BY <1>1, LifeInit, LifeMeans, PTL DEF Spec

\* Under the same assumptions a session the user has signed out of is over:
\* the tab does not hold it any more, and no pair that stems from it is usable
\* once the server has heard of the sign-out, but one it failed to revoke.
THEOREM SignOutIsFinal ==
  ASSUME Patient, OneTab
  PROVE  Spec => []LoggedOutIsOver
<1>1. LifeInv /\ [Next]_vars => LifeInv'
  BY LifeStep
<1> QED
  BY <1>1, LifeInit, LifeMeans, PTL DEF Spec

=============================================================================
