------------------------------ MODULE Session ------------------------------
(***************************************************************************)
(* Sessions: the tokens the server makes, rotates and revokes              *)
(* (auth_handlers.go), the browser that keeps a pair of them in memory and *)
(* in local storage (useAuthStore.ts), refreshes it when a request is      *)
(* answered 401 (tokenRefreshService.ts, api.ts, fileService.ts,           *)
(* aiService.ts), and the dialogs that sign in and reset a password        *)
(* (App.tsx and the three modals).                                         *)
(*                                                                         *)
(* A pair of tokens is a number; 0 stands for no pair.  The JWT is `live'  *)
(* until it expires; the refresh token is `usable' while its row exists    *)
(* and is neither revoked nor expired.                                     *)
(***************************************************************************)
EXTENDS Integers, Sequences, FiniteSets

CONSTANTS
  Users,       \* accounts
  Tabs,        \* browser tabs: one store each, one local storage for all
  Requests,    \* how many requests a tab may have under way, as a set
  Patient,     \* TRUE: nobody signs in or out, reloads or resets a password
               \* while an answer is awaited
  MaxLinks,    \* bound on the reset links mailed
  MaxFaults,   \* bound on the statements the database fails
  MaxClicks    \* bound on what users do; every click makes at most one pair

ASSUME SessionAssumption ==
  /\ Patient \in BOOLEAN
  /\ MaxLinks \in Nat /\ MaxFaults \in Nat /\ MaxClicks \in Nat

VARIABLES
  pairs,    \* every pair ever made: its user, the sign-in it stems from and
            \* how often the password had been reset at that sign-in
  old,      \* how many pairs have an access token that has expired
  usable,   \* pairs whose refresh token the server accepts
  excused,  \* pairs the server refuses for a reason the user could know of
  ended,    \* sign-ins the user has ended by signing out
  gen,      \* resets of each user's password
  slips,    \* pairs whose row the database failed to save or to revoke
  links,    \* reset tokens: user, whether spent, how often obeyed, and whether
            \* two handlers held it at once or spending it failed (slip)
  jobs,     \* the server's handlers of ResetPassword
  loose,    \* users whose last reset failed to revoke or was overtaken by a
            \* sign-in or a refresh that had begun before
  mem,      \* the pair in each tab's store
  disk,     \* the pair in local storage
  cur,      \* the refresh each tab's service would share, 0 when none
  tries,    \* the refreshes under way in each tab
  req,      \* the requests of each tab
  login,    \* the sign-in request of each tab
  byes,     \* sign-out requests on their way, by the pair they carry
  dialog,   \* the dialog each tab shows
  mailed,   \* the success flag of each tab's ForgotPasswordModal
  reset,    \* the state of each tab's ResetPasswordModal
  faults,   \* statements that have failed
  clicks    \* what users did so far

tokenVars == <<pairs, old, usable, excused, slips, faults>>
resetVars == <<gen, links, jobs, loose>>
serverVars == <<tokenVars, resetVars, ended>>
dialogVars == <<login, dialog, mailed, reset>>
vars == <<pairs, old, usable, excused, slips, ended, gen, links, jobs, loose, mem, disk, cur,
          tries, req, login, byes, dialog, mailed, reset, faults, clicks>>

\* All access tokens live equally long, so they expire in the order they were
\* made in.
live == old + 1 .. Len(pairs)

Slots == {1, 2}                       \* refreshes of one tab at a time
Pairs == 1 .. MaxClicks
NoTry == [at |-> "idle", pair |-> 0, got |-> 0, ours |-> FALSE]
NoCall == [at |-> "idle", who |-> 0, pair |-> 0, last |-> FALSE, slot |-> 0]
NoLogin == [at |-> "idle", who |-> 0, gen |-> 0, pair |-> 0]
NoReset == [at |-> "idle", link |-> 0, job |-> 0]

Init ==
  /\ pairs = << >> /\ old = 0 /\ usable = {} /\ excused = {} /\ ended = {}
  /\ gen = [u \in Users |-> 0]
  /\ links = << >> /\ jobs = << >> /\ loose = {} /\ slips = {} /\ faults = 0
  /\ mem = [t \in Tabs |-> 0]
  /\ disk = 0
  /\ cur = [t \in Tabs |-> 0]
  /\ tries = [t \in Tabs |-> [a \in Slots |-> NoTry]]
  /\ req = [t \in Tabs |-> [r \in Requests |-> NoCall]]
  /\ login = [t \in Tabs |-> NoLogin]
  /\ byes = {}
  /\ dialog = [t \in Tabs |-> "none"]
  /\ mailed = [t \in Tabs |-> FALSE]
  /\ reset = [t \in Tabs |-> NoReset]
  /\ clicks = 0

---------------------------------------------------------------------------
(* What the operations have in common.                                     *)

Awaiting(t) ==
  \/ login[t].at # "idle"
  \/ reset[t].at = "sent"

Quiet ==
  \A t \in Tabs : /\ ~ Awaiting(t)
                  /\ \A a \in Slots : tries[t][a].at = "idle"
                  /\ \A r \in Requests : req[t][r].at = "idle"

Click == clicks < MaxClicks /\ clicks' = clicks + 1

\* Mutant: signing out leaves local storage alone.
KeepMem(t, k) ==
  mem' = [mem EXCEPT ![t] = k] /\ disk' = IF k = 0 THEN disk ELSE k

\* Mutant: local storage is only written while it is empty.
KeepFirst(t, k) ==
  mem' = [mem EXCEPT ![t] = k] /\ disk' = IF disk = 0 THEN k ELSE disk

\* setAuth and clearAuth: the store, and local storage behind it
Keep(t, k) == mem' = [mem EXCEPT ![t] = k] /\ disk' = k

Fault(failed) ==
  IF failed THEN faults < MaxFaults /\ faults' = faults + 1 ELSE UNCHANGED faults

\* A new pair, in place of those that are revoked.  Each row is written by a
\* statement whose error is ignored.
Grant(rec, revoked) ==
  LET k == Len(pairs) + 1 IN
  /\ pairs' = Append(pairs, IF rec.chain = 0 THEN [rec EXCEPT !.chain = k] ELSE rec)
  /\ \E failed \in SUBSET (revoked \cup {k}) :
       /\ usable' = (usable \ (revoked \ failed)) \cup ({k} \ failed)
       /\ slips' = slips \cup failed
       /\ Fault(failed # {})

\* Mutant: a refresh does not know the page that asked for it.
AskedOnly(k) == [at |-> "sent", pair |-> k, got |-> 0, ours |-> FALSE]

Asked(k) == [at |-> "sent", pair |-> k, got |-> 0, ours |-> TRUE]

\* Mutant: every caller starts a refresh of its own.
RefreshTokensEach(t, p) ==
  IF mem[t] = 0 THEN p = 0 /\ UNCHANGED <<cur, tries>>
  ELSE /\ p # 0 /\ tries[t][p].at = "idle"
       /\ cur' = [cur EXCEPT ![t] = p]
       /\ tries' = [tries EXCEPT ![t][p] = Asked(mem[t])]

\* p is the promise refreshTokens returns, 0 when it answers false at once.
RefreshTokens(t, p) ==
  IF cur[t] # 0 THEN p = cur[t] /\ UNCHANGED <<cur, tries>>
  ELSE IF mem[t] = 0 THEN p = 0 /\ UNCHANGED <<cur, tries>>
  ELSE /\ p # 0 /\ tries[t][p].at = "idle"
       /\ cur' = [cur EXCEPT ![t] = p]
       /\ tries' = [tries EXCEPT ![t][p] = Asked(mem[t])]

\* A token counts as expired half a minute early.
IsTokenExpired(k, early) == k = 0 \/ k \notin live \/ early

Sent(who, k, last) ==
  [at |-> "sent", who |-> who, pair |-> k, last |-> last, slot |-> 0]

---------------------------------------------------------------------------
(* Requests of a signed-in tab.                                            *)

MayCall(t, r) ==
  /\ mem[t] # 0 /\ Click
  /\ req[t][r].at = "idle"
  /\ Patient => \A x \in Tabs : ~ Awaiting(x)

\* A request of ApiService or FileService: it carries the token of local
\* storage and is retried once after a 401.
Call(t, r) ==
  /\ MayCall(t, r)
  /\ req' = [req EXCEPT ![t][r] = Sent(pairs[mem[t]].user, disk, FALSE)]
  /\ UNCHANGED <<serverVars, mem, disk, cur, tries, byes, dialogVars>>

\* A request of the assistant refreshes first and is not retried.
CallAI(t, r) ==
  LET call == Sent(pairs[mem[t]].user, disk, TRUE) IN
  /\ MayCall(t, r)
  /\ \E early \in BOOLEAN, p \in Slots \cup {0} :
       IF disk # 0 /\ IsTokenExpired(mem[t], early)
       THEN /\ RefreshTokens(t, p)
            /\ req' = [req EXCEPT ![t][r] =
                 IF p = 0 THEN call ELSE [call EXCEPT !.at = "wait", !.slot = p]]
       ELSE /\ p = 0
            /\ req' = [req EXCEPT ![t][r] = call]
            /\ UNCHANGED <<cur, tries>>
  /\ UNCHANGED <<serverVars, mem, disk, byes, dialogVars>>

\* The answer: done, or 401, which ends a retry and otherwise asks for a
\* refresh.
Served(t, r) ==
  LET call == req[t][r]
      Becomes(c) == req' = [req EXCEPT ![t][r] = c] IN
  /\ call.at = "sent"
  /\ \/ /\ call.pair \in live
        /\ Becomes(NoCall)
        /\ UNCHANGED <<cur, tries>>
     \/ /\ call.pair \notin live /\ call.last
        /\ Becomes(NoCall)
        /\ UNCHANGED <<cur, tries>>
     \/ /\ call.pair \notin live /\ ~ call.last
        /\ \E p \in Slots \cup {0} :
             /\ RefreshTokens(t, p)
             /\ Becomes(IF p = 0 THEN NoCall ELSE [call EXCEPT !.at = "wait", !.slot = p])
  /\ UNCHANGED <<serverVars, mem, disk, byes, dialogVars, clicks>>

CallLost(t, r) ==
  /\ req[t][r].at = "sent"
  /\ req' = [req EXCEPT ![t][r] = NoCall]
  /\ UNCHANGED <<serverVars, mem, disk, cur, tries, byes, dialogVars, clicks>>

---------------------------------------------------------------------------
(* A refresh: the server looks the token up, then revokes it and saves its *)
(* successor; the tab keeps what it is given.                              *)

TryBecomes(t, a, rec) == tries' = [tries EXCEPT ![t][a] = rec]

RefreshRead(t, a) ==
  /\ tries[t][a].at = "sent"
  /\ TryBecomes(t, a, [tries[t][a] EXCEPT !.at =
       IF tries[t][a].pair \in usable THEN "read" ELSE "denied"])
  /\ UNCHANGED <<serverVars, mem, disk, cur, req, byes, dialogVars, clicks>>

Refresh(t, a) ==
  /\ tries[t][a].at = "read"
  /\ Grant(pairs[tries[t][a].pair], {tries[t][a].pair})
  /\ TryBecomes(t, a, [tries[t][a] EXCEPT !.at = "granted", !.got = Len(pairs) + 1])
  /\ UNCHANGED <<old, excused, ended, resetVars, mem, disk, cur, req, byes, dialogVars, clicks>>

\* The token is revoked, and then its user cannot be read.
RefreshBroken(t, a) ==
  /\ tries[t][a].at = "read"
  /\ Fault(TRUE)
  /\ usable' = usable \ {tries[t][a].pair}
  /\ TryBecomes(t, a, [tries[t][a] EXCEPT !.at = "failed"])
  /\ UNCHANGED <<pairs, old, excused, slips, ended, resetVars, mem, disk, cur, req, byes,
                 dialogVars, clicks>>

\* The network or the rate limiter fails it, before or after the server acts.
RefreshLost(t, a) ==
  /\ tries[t][a].at \in {"sent", "granted"}
  /\ TryBecomes(t, a, [tries[t][a] EXCEPT !.at = "failed"])
  /\ UNCHANGED <<serverVars, mem, disk, cur, req, byes, dialogVars, clicks>>

\* Mutant: a refresh that fails does not release who waits for it.
ResumedIfGranted(call, a, granted, k) ==
  IF call.at # "wait" \/ call.slot # a \/ ~ granted THEN call
  ELSE Sent(call.who, k, TRUE)

\* What a request that waited does next.
Resumed(call, a, granted, k) ==
  IF call.at # "wait" \/ call.slot # a THEN call
  ELSE IF granted THEN Sent(call.who, k, TRUE)
  ELSE IF call.last THEN Sent(call.who, call.pair, TRUE)
  ELSE NoCall

\* setAuth or clearAuth, whatever the store holds by now; the service's
\* fields are reset, and all who waited go on.
Refreshed(t, a) ==
  LET try == tries[t][a]
      k == IF try.at = "granted" THEN try.got ELSE 0 IN
  /\ try.at \in {"granted", "denied", "failed"}
  /\ TryBecomes(t, a, NoTry)
  /\ IF try.ours
     THEN /\ Keep(t, k)
          /\ cur' = [cur EXCEPT ![t] = 0]
          /\ req' = [req EXCEPT ![t] =
               [r \in Requests |-> Resumed(req[t][r], a, k # 0, k)]]
     ELSE UNCHANGED <<mem, disk, cur, req>>
  /\ UNCHANGED <<serverVars, byes, dialogVars, clicks>>

---------------------------------------------------------------------------
(* Signing in and out.                                                     *)

OpenDialog(t, d) ==
  /\ Patient => Quiet
  /\ \/ d = "login" /\ dialog[t] = "none" /\ mem[t] = 0
     \/ d = "forgot" /\ dialog[t] = "login"
     \/ d = "login" /\ dialog[t] = "forgot"
     \/ d = "none" /\ dialog[t] # "none"
  /\ dialog' = [dialog EXCEPT ![t] = d]
  /\ mailed' = [mailed EXCEPT ![t] = @ /\ ~ (dialog[t] = "forgot" /\ d = "none")]
  /\ reset' = IF dialog[t] = "reset" /\ reset[t].at # "sent"
              THEN [reset EXCEPT ![t] = NoReset] ELSE reset
  /\ UNCHANGED <<serverVars, mem, disk, cur, tries, req, login, byes, clicks>>

\* The form is disabled while it waits.  The user types the password of now.
SubmitLogin(t, u) ==
  /\ Click
  /\ dialog[t] = "login" /\ login[t].at = "idle"
  /\ Patient => Quiet
  /\ login' = [login EXCEPT ![t] = [at |-> "sent", who |-> u, gen |-> gen[u], pair |-> 0]]
  /\ UNCHANGED <<serverVars, mem, disk, cur, tries, req, byes, dialog, mailed, reset>>

\* The server compares the password; registering is a sign-in to a new account.
LoginRead(t) ==
  /\ login[t].at = "sent"
  /\ login' = [login EXCEPT ![t] =
       IF @.gen = gen[@.who] THEN [@ EXCEPT !.at = "read"] ELSE NoLogin]
  /\ UNCHANGED <<serverVars, mem, disk, cur, tries, req, byes, dialog, mailed, reset, clicks>>

Login(t) ==
  /\ login[t].at = "read"
  /\ Grant([user |-> login[t].who, chain |-> 0, gen |-> login[t].gen], {})
  /\ login' = [login EXCEPT ![t].at = "granted", ![t].pair = Len(pairs) + 1]
  /\ UNCHANGED <<old, excused, ended, resetVars, mem, disk, cur, tries, req, byes, dialog, mailed,
                 reset, clicks>>

LoginLost(t) ==
  /\ login[t].at = "sent"
  /\ login' = [login EXCEPT ![t] = NoLogin]
  /\ UNCHANGED <<serverVars, mem, disk, cur, tries, req, byes, dialog, mailed, reset, clicks>>

LoggedIn(t) ==
  /\ login[t].at = "granted"
  /\ Keep(t, login[t].pair)
  /\ login' = [login EXCEPT ![t] = NoLogin]
  /\ dialog' = [dialog EXCEPT ![t] = IF @ = "login" THEN "none" ELSE @]
  /\ UNCHANGED <<serverVars, cur, tries, req, byes, mailed, reset, clicks>>

\* handleLogout: the store is cleared and the service stopped before the
\* server is told.
HandleLogout(t) ==
  /\ Click
  /\ mem[t] # 0
  /\ Patient => Quiet
  /\ Keep(t, 0)
  /\ cur' = [cur EXCEPT ![t] = 0]
  /\ byes' = byes \cup {mem[t]}
  /\ ended' = ended \cup {pairs[mem[t]].chain}
  /\ UNCHANGED <<tokenVars, resetVars, tries, req, dialogVars>>

Logout(k) ==
  /\ byes' = byes \ {k}
  /\ usable' = usable \ {k}
  /\ excused' = excused \cup {k}
  /\ UNCHANGED <<pairs, old, slips, faults, ended, resetVars, mem, disk, cur, tries, req,
                 dialogVars, clicks>>

\* It is lost, or its statement fails, which the handler ignores.
LogoutLost(k) ==
  /\ byes' = byes \ {k}
  /\ excused' = excused \cup {k}
  /\ UNCHANGED <<pairs, old, usable, slips, faults, ended, resetVars, mem, disk, cur, tries, req,
                 dialogVars, clicks>>

\* The page is loaded: the store is read from local storage, requests are
\* forgotten and the service starts, refreshing an expired token.  A link of
\* a mail opens the dialog that resets the password.
Load(t, d, link) ==
  LET left == [a \in Slots |-> [tries[t][a] EXCEPT !.ours = FALSE]] IN
  /\ Click
  /\ Patient => Quiet
  /\ mem' = [mem EXCEPT ![t] = disk]
  /\ req' = [req EXCEPT ![t] = [r \in Requests |-> NoCall]]
  /\ login' = [login EXCEPT ![t] = NoLogin]
  /\ dialog' = [dialog EXCEPT ![t] = d]
  /\ mailed' = [mailed EXCEPT ![t] = FALSE]
  /\ reset' = [reset EXCEPT ![t] =
       [at |-> IF link = 0 THEN "idle" ELSE "validating", link |-> link, job |-> 0]]
  /\ \E early \in BOOLEAN, p \in Slots :
       IF disk # 0 /\ IsTokenExpired(disk, early)
       THEN /\ tries[t][p].at = "idle"
            /\ cur' = [cur EXCEPT ![t] = p]
            /\ tries' = [tries EXCEPT ![t] = [left EXCEPT ![p] = Asked(disk)]]
       ELSE /\ cur' = [cur EXCEPT ![t] = 0]
            /\ tries' = [tries EXCEPT ![t] = left]
  /\ UNCHANGED <<serverVars, disk, byes>>

Reload(t) == Load(t, "none", 0)
OpenLink(t, l) == Load(t, "reset", l)

---------------------------------------------------------------------------
(* Resetting a password.                                                   *)

\* The older links of the user are spent; the answer is always a success,
\* unless the network loses it.
ForgotPassword(t, u) ==
  /\ Click
  /\ dialog[t] = "forgot" /\ ~ mailed[t] /\ Len(links) < MaxLinks
  /\ links' = Append([l \in DOMAIN links |->
                        [links[l] EXCEPT !.spent = @ \/ links[l].user = u]],
                     [user |-> u, spent |-> FALSE, uses |-> 0, slip |-> FALSE])
  /\ \E told \in BOOLEAN : mailed' = [mailed EXCEPT ![t] = told]
  /\ UNCHANGED <<tokenVars, ended, gen, jobs, loose, mem, disk, cur, tries, req, byes, login,
                 dialog, reset>>

ValidateResetToken(t) ==
  /\ reset[t].at = "validating"
  /\ reset' = [reset EXCEPT ![t].at =
       IF links[reset[t].link].spent THEN "invalid" ELSE "form"]
  /\ UNCHANGED <<serverVars, mem, disk, cur, tries, req, byes, login, dialog, mailed, clicks>>

SubmitReset(t) ==
  /\ Click
  /\ dialog[t] = "reset" /\ reset[t].at = "form"
  /\ Patient => Quiet
  /\ jobs' = Append(jobs, [link |-> reset[t].link, at |-> "sent"])
  /\ reset' = [reset EXCEPT ![t] = [@ EXCEPT !.at = "sent", !.job = Len(jobs) + 1]]
  /\ UNCHANGED <<tokenVars, ended, gen, links, loose, mem, disk, cur, tries, req, byes, login, dialog,
                 mailed>>

\* Handlers that have read link l and not yet spent it.
Holding(l) == {j \in DOMAIN jobs : jobs[j].link = l /\ jobs[j].at \in {"read", "changed"}}

JobBecomes(j, at) == jobs' = [jobs EXCEPT ![j].at = at]

ResetRead(j) ==
  LET l == jobs[j].link IN
  /\ jobs[j].at = "sent"
  /\ JobBecomes(j, IF links[l].spent THEN "refused" ELSE "read")
  /\ links' = [links EXCEPT ![l].slip = @ \/ (~ links[l].spent /\ Holding(l) # {})]
  /\ UNCHANGED <<tokenVars, ended, gen, loose, mem, disk, cur, tries, req, byes, dialogVars, clicks>>

\* UpdateUserPassword
ChangePassword(j) ==
  LET l == jobs[j].link IN
  /\ jobs[j].at = "read"
  /\ \/ /\ JobBecomes(j, "changed")
        /\ gen' = [gen EXCEPT ![links[l].user] = @ + 1]
        /\ links' = [links EXCEPT ![l].uses = @ + 1]
        /\ UNCHANGED faults
     \/ /\ JobBecomes(j, "refused")
        /\ Fault(TRUE)
        /\ UNCHANGED <<gen, links>>
  /\ UNCHANGED <<pairs, old, usable, excused, slips, ended, loose, mem, disk, cur, tries, req, byes,
                 dialogVars, clicks>>

\* UsePasswordResetToken; that it fails is only logged.
SpendLink(j) ==
  LET l == jobs[j].link
      link == links[l] IN
  /\ jobs[j].at = "changed"
  /\ JobBecomes(j, "used")
  /\ \E failed \in BOOLEAN :
       /\ links' = [links EXCEPT ![l] =
            [link EXCEPT !.spent = link.spent \/ ~ failed, !.slip = link.slip \/ failed]]
       /\ Fault(failed)
  /\ UNCHANGED <<pairs, old, usable, excused, slips, ended, gen, loose, mem, disk, cur, tries, req,
                 byes, dialogVars, clicks>>

\* Mutant: revoking does nothing, and nobody hears of it.
RevokedNone(u) == {}

\* The pairs RevokeAllUserTokens revokes.
Revoked(u) == {k \in DOMAIN pairs : pairs[k].user = u}

\* A refresh of u's, or a sign-in with an old password, has passed its check
\* and will make a pair.
Overtaken(u) ==
  \E t \in Tabs :
    \/ \E a \in Slots : tries[t][a].at = "read" /\ pairs[tries[t][a].pair].user = u
    \/ login[t].at = "read" /\ login[t].who = u /\ login[t].gen # gen[u]

\* RevokeAllUserTokens; that it fails is only logged.
RevokeTokens(j) ==
  LET u == links[jobs[j].link].user IN
  /\ jobs[j].at = "used"
  /\ JobBecomes(j, "done")
  /\ \E failed \in BOOLEAN :
       /\ usable' = IF failed THEN usable ELSE usable \ Revoked(u)
       /\ excused' = IF failed THEN excused ELSE excused \cup Revoked(u)
       /\ loose' = IF failed \/ Overtaken(u) THEN loose \cup {u} ELSE loose \ {u}
       /\ Fault(failed)
  /\ UNCHANGED <<pairs, old, slips, ended, gen, links, mem, disk, cur, tries, req, byes, dialogVars,
                 clicks>>

ResetAnswered(t) ==
  /\ reset[t].at = "sent"
  /\ jobs[reset[t].job].at \in {"refused", "done"}
  /\ reset' = [reset EXCEPT ![t].at = IF jobs[reset[t].job].at = "done" THEN "ok" ELSE "form"]
  /\ UNCHANGED <<serverVars, mem, disk, cur, tries, req, byes, login, dialog, mailed, clicks>>

\* The connection breaks; the handler, if it was reached, goes on.
ResetLost(t) ==
  /\ reset[t].at = "sent"
  /\ reset' = [reset EXCEPT ![t].at = "form"]
  /\ UNCHANGED <<serverVars, mem, disk, cur, tries, req, byes, login, dialog, mailed, clicks>>

\* The button of the last page leads to the sign-in dialog.
ResetDone(t) ==
  /\ dialog[t] = "reset" /\ reset[t].at = "ok"
  /\ dialog' = [dialog EXCEPT ![t] = "login"]
  /\ reset' = [reset EXCEPT ![t] = NoReset]
  /\ UNCHANGED <<serverVars, mem, disk, cur, tries, req, byes, login, mailed, clicks>>

---------------------------------------------------------------------------
(* Time.                                                                   *)

Expire ==
  /\ old < Len(pairs)
  /\ old' = old + 1
  /\ UNCHANGED <<pairs, usable, excused, slips, faults, ended, resetVars, mem, disk, cur, tries, req,
                 byes, dialogVars, clicks>>

\* A refresh token outlives the access token of its pair.
ExpireRefresh(k) ==
  /\ k \notin live /\ \E t \in Tabs : mem[t] = k
  /\ usable' = usable \ {k}
  /\ excused' = excused \cup {k}
  /\ UNCHANGED <<pairs, old, slips, faults, ended, resetVars, mem, disk, cur, tries, req, byes,
                 dialogVars, clicks>>

---------------------------------------------------------------------------
Answers(t) ==
  \/ \E r \in Requests : Served(t, r)
  \/ \E a \in Slots : RefreshRead(t, a) \/ Refresh(t, a) \/ Refreshed(t, a)
  \/ LoginRead(t) \/ Login(t) \/ LoggedIn(t)
  \/ ValidateResetToken(t) \/ ResetAnswered(t)

Losses(t) ==
  \/ \E r \in Requests : CallLost(t, r)
  \/ \E a \in Slots : RefreshLost(t, a) \/ RefreshBroken(t, a)
  \/ LoginLost(t) \/ ResetLost(t)

Clicks(t) ==
  \/ \E r \in Requests : Call(t, r) \/ CallAI(t, r)
  \/ \E d \in {"none", "login", "forgot"} : OpenDialog(t, d)
  \/ \E u \in Users : SubmitLogin(t, u) \/ ForgotPassword(t, u)
  \/ HandleLogout(t) \/ Reload(t) \/ SubmitReset(t) \/ ResetDone(t)
  \/ \E l \in DOMAIN links : OpenLink(t, l)

\* The handler of ResetPassword, a statement at a time.
ResetPassword(j) == ResetRead(j) \/ ChangePassword(j) \/ SpendLink(j) \/ RevokeTokens(j)

Next ==
  \/ \E t \in Tabs : Answers(t) \/ Losses(t) \/ Clicks(t)
  \/ \E k \in byes : Logout(k) \/ LogoutLost(k)
  \/ \E j \in DOMAIN jobs : ResetPassword(j)
  \/ Expire
  \/ \E k \in usable : ExpireRefresh(k)

\* Whoever is asked answers, and an answer is handled.
Spec ==
  /\ Init /\ [][Next]_vars
  /\ \A t \in Tabs : \A a \in Slots :
       WF_vars(RefreshRead(t, a) \/ Refresh(t, a) \/ RefreshBroken(t, a) \/ Refreshed(t, a))
  /\ \A t \in Tabs : \A r \in Requests : WF_vars(Served(t, r))

---------------------------------------------------------------------------
(* Properties.                                                             *)

\* Types: stores and requests name pairs the server has made, and an attempt
\* the service shares is one of this page's that is under way.
SessTypeOK ==
  /\ \A k \in DOMAIN pairs : /\ pairs[k].user \in Users
                             /\ pairs[k].chain \in 1 .. k
                             /\ pairs[k].gen \in 0 .. gen[pairs[k].user]
  /\ old \in 0 .. Len(pairs)
  /\ usable \cup excused \cup slips \cup ended \cup byes \subseteq DOMAIN pairs
  /\ Len(pairs) <= MaxClicks
  /\ disk \in {0} \cup DOMAIN pairs
  /\ \A t \in Tabs :
       /\ mem[t] \in {0} \cup DOMAIN pairs
       /\ cur[t] # 0 => tries[t][cur[t]].at # "idle" /\ tries[t][cur[t]].ours
       /\ reset[t].at = "sent" => reset[t].job \in DOMAIN jobs
       /\ \A r \in Requests :
            req[t][r].at = "wait" => tries[t][req[t][r].slot].at # "idle"

\* A session ends for a reason: the refresh token a tab holds is good until
\* the user signs out, resets the password or stays away too long, or it is
\* just being exchanged; and one that has been exchanged is never offered
\* again.  Only a token whose row could not be saved is refused without one.
\* The shared promise of tokenRefreshService.ts is there for this.
SessionSurvives ==
  \A t \in Tabs :
    /\ mem[t] \in usable \cup excused \cup slips \cup {0} \cup {tries[t][a].pair : a \in Slots}
    /\ \A a \in Slots : tries[t][a].at = "denied" => tries[t][a].pair \in excused \cup slips

\* A request is done in the name of the user the tab showed when it was made,
\* however many refreshes, sign-ins and sign-outs came between (api.ts:52-61,
\* fileService.ts:60-74).
RequestsKeepTheirUser ==
  \A t \in Tabs : \A r \in Requests :
    req[t][r].at = "sent" /\ req[t][r].pair \in live
      => pairs[req[t][r].pair].user = req[t][r].who

\* After signing out nothing of the session is left: no tab is signed in by
\* it, and the server accepts no refresh token of it once it has heard of
\* the sign-out (App.tsx:151-172, auth_handlers.go:289-305), but one that
\* was exchanged and not revoked because the database failed.
LoggedOutIsOver ==
  /\ \A t \in Tabs : mem[t] # 0 => pairs[mem[t]].chain \notin ended
  /\ \A k \in usable : pairs[k].chain \in ended => k \in byes \cup excused \cup slips

\* The password of u has been changed and her tokens are still to be revoked.
Revoking(u) ==
  \E j \in DOMAIN jobs : links[jobs[j].link].user = u /\ jobs[j].at \in {"changed", "used"}

\* Resetting a password ends every session: a refresh token that still works
\* stems from a sign-in with the password of now (auth_handlers.go:596-610),
\* but for what the code lets pass: a token of a user whose tokens are about
\* to be revoked, could not be, or were while a sign-in or a refresh that had
\* passed its check was making one.
ResetEndsSessions ==
  \A k \in usable :
    LET u == pairs[k].user IN pairs[k].gen = gen[u] \/ u \in loose \/ Revoking(u)

\* A reset link changes the password once, also when its answer is lost and
\* the user tries again (auth_handlers.go:573-604), unless the retry reads the
\* link before the first handler has spent it, or spending it fails.
ResetOnce == \A l \in DOMAIN links : links[l].uses <= 1 \/ links[l].slip

\* Both: a link is good for one reset, and the reset for every session.
ResetsHold == ResetEndsSessions /\ ResetOnce

\* Without what the code lets pass: "Revoke all existing refresh tokens"
\* (auth_handlers.go:610) leaves none that stems from an older password.
NoOldSession == \A k \in usable : pairs[k].gen = gen[pairs[k].user] \/ Revoking(pairs[k].user)

\* Every request is settled: whoever waits for a refresh is released whether
\* it succeeds or fails, and a retry is the last (api.ts:50-64).
RequestsSettle ==
  \A t \in Tabs : \A r \in Requests :
    req[t][r].at \in {"sent", "wait"} ~> req[t][r].at = "idle"

\* Who opens the dialog for a forgotten password is asked for an address.
\* It does not hold: going back to the sign-in dialog keeps the success page
\* (ForgotPasswordModal.tsx:88-94), where handleClose would reset it.
ForgotStartsAfresh ==
  [][\A t \in Tabs : dialog[t] # "forgot" /\ dialog'[t] = "forgot" => ~ mailed'[t]]_vars

============================================================================
