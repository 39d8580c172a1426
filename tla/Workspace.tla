------------------------------ MODULE Workspace ------------------------------
(***************************************************************************)
(* The browser workspace (web/app.js).  Its handlers are asynchronous: each*)
(* runs until it awaits an answer of the API, and other handlers run in    *)
(* between, the user's Sign out among them.  A flow is one run of a        *)
(* handler: it sends one request after the other, and goes on from each    *)
(* answer with whatever state it then finds.                               *)
(*                                                                         *)
(* The API answers with data of the account whose key came with the        *)
(* request, with an error, or, when the key is not accepted, with 401.     *)
(* What is shown is abstracted to where it came from: the key it was asked *)
(* for with, and which page or contract it is.  The messages in #status,   *)
(* the user's name and what stands in the forms are left out.              *)
(***************************************************************************)
EXTENDS Naturals

CONSTANTS
  Flows,       \* runs of handlers
  Keys,        \* access keys
  Contracts,
  LastPage,    \* pages of the contract list are 0 .. LastPage
  NoKey,       \* the empty string
  Nobody,      \* no principal: the sign-in form is shown
  Nothing      \* no contract, list or detail

ASSUME WorkspaceAssumption ==
  /\ NoKey \notin Keys
  /\ Nothing \notin Contracts
  /\ LastPage \in Nat
  /\ Nobody \notin [user : Keys, login : Flows]
  /\ Nothing \notin [key : Keys, page : 0 .. LastPage]
  /\ Nothing \notin [key : Keys, contract : Contracts]

\* Every sign-in makes a principal of its own, an object compared by identity.
Principals == [user : Keys, login : Flows] \cup {Nobody}

VARIABLES
  accepted,    \* the keys that the API accepts
  key, principal, selected, offset, generation,       \* the object state
  list,        \* #contract-list
  count,       \* #list-count, the range of the list
  detail,      \* #detail
  asked,       \* the questions and searches made in the panels of the detail
  kind,        \* which handler a flow runs
  step,        \* the request that a flow waits for
  target,      \* the contract that a flow is about
  sent         \* what the handler remembers of when it sent the request

session == <<key, principal, offset>>
shown == <<list, count, detail>>
vars == <<accepted, key, principal, selected, offset, generation, list, count, detail,
          asked, kind, step, target, sent>>

Init ==
  /\ accepted = Keys
  /\ key = NoKey /\ principal = Nobody /\ selected = Nothing
  /\ offset = 0 /\ generation = 0
  /\ list = Nothing /\ count = Nothing /\ detail = Nothing /\ asked = {}
  /\ kind = [f \in Flows |-> "none"]
  /\ step = [f \in Flows |-> "idle"]
  /\ target = [f \in Flows |-> Nothing]
  /\ sent = [f \in Flows |->
       [key |-> NoKey, principal |-> Nobody, page |-> 0, generation |-> 0]]

InFlight(f) == step[f] \in {"me", "act", "list", "detail"}

\* A flow sends its next request, or ends; g and s are the generation and the
\* selection that its handler has left.  loadContracts counts a generation,
\* selectContract selects.
Send(f, next, g, s) ==
  /\ step' = [step EXCEPT ![f] = next]
  /\ generation' = IF next = "list" THEN g + 1 ELSE g
  /\ selected' = IF next = "detail" THEN target'[f] ELSE s
  /\ sent' = [sent EXCEPT ![f] =
       [key |-> key', principal |-> principal', page |-> offset',
        generation |-> IF next = "list" THEN generation' ELSE 0]]

End(f, how, g, s) ==
  /\ step' = [step EXCEPT ![f] = how]
  /\ generation' = g
  /\ selected' = s
  /\ UNCHANGED sent

-----------------------------------------------------------------------------
\* What the user does.

Begin(f, what, c, first) ==
  /\ step[f] = "idle"
  /\ kind' = [kind EXCEPT ![f] = what]
  /\ target' = [target EXCEPT ![f] = c]
  /\ Send(f, first, generation, selected)
  /\ UNCHANGED <<accepted, shown>>

\* Mutant of Connect: the button stays enabled while signing in.
ConnectTwice(f, k) ==
  /\ principal = Nobody
  /\ key' = k
  /\ UNCHANGED <<principal, offset, asked>>
  /\ Begin(f, "connect", Nothing, "me")

\* The button of the form is disabled until the handler ends.
Connect(f, k) ==
  /\ principal = Nobody
  /\ \A g \in Flows : ~ (kind[g] = "connect" /\ InFlight(g))
  /\ key' = k
  /\ UNCHANGED <<principal, offset, asked>>
  /\ Begin(f, "connect", Nothing, "me")

Open(f, c) ==
  /\ principal # Nobody /\ list # Nothing
  /\ UNCHANGED <<session, asked>>
  /\ Begin(f, "open", c, "detail")

\* The buttons of the contract shown.
Review(f) ==
  /\ principal # Nobody /\ detail # Nothing
  /\ UNCHANGED <<session, asked>>
  /\ \E what \in {"review", "recover"} : Begin(f, what, detail.contract, "act")

\* Each panel has a button, disabled until the handler ends, and a place for one
\* answer, which is emptied.
Panels == {"ask", "search"}

Ask(f, panel) ==
  /\ principal # Nobody /\ detail # Nothing
  /\ \A g \in asked : kind[g] = panel => ~ InFlight(g)
  /\ asked' = {g \in asked : kind[g] # panel} \cup {f}
  /\ UNCHANGED session
  /\ Begin(f, panel, detail.contract, "act")

Refresh(f) ==
  /\ principal # Nobody /\ detail # Nothing
  /\ UNCHANGED <<session, asked>>
  /\ Begin(f, "refresh", detail.contract, "list")

Upload(f, c) ==
  /\ principal # Nobody
  /\ UNCHANGED <<session, asked>>
  /\ Begin(f, "upload", c, "act")

\* A filter begins at the first page again.
Turn(f) ==
  /\ principal # Nobody
  /\ \/ offset' = 0
     \/ offset > 0 /\ offset' = offset - 1
     \/ offset < LastPage /\ offset' = offset + 1
  /\ UNCHANGED <<key, principal, asked>>
  /\ Begin(f, "turn", Nothing, "list")

\* signOut empties the list and the detail, and leaves the range of the list as it is.
Cleared ==
  /\ key' = NoKey /\ principal' = Nobody /\ offset' = 0
  /\ list' = Nothing /\ detail' = Nothing /\ asked' = {}
  /\ UNCHANGED count

SignOut ==
  /\ principal # Nobody
  /\ Cleared
  /\ selected' = Nothing
  /\ generation' = generation + 1
  /\ UNCHANGED <<accepted, kind, step, target, sent>>

-----------------------------------------------------------------------------
\* What the API answers.

\* The handler of Run contract review loads list and contract after an error, too.
Catches(f) == kind[f] = "review" /\ step[f] = "act"

Unauthorized(f) ==
  /\ InFlight(f)
  /\ sent[f].key \notin accepted
  /\ Cleared
  /\ UNCHANGED <<accepted, kind, target>>
  /\ IF Catches(f) THEN Send(f, "list", generation + 1, Nothing)
                   ELSE End(f, "failed", generation + 1, Nothing)

Fails(f) ==
  /\ InFlight(f)
  /\ UNCHANGED <<accepted, kind, target, session, shown, asked>>
  /\ IF Catches(f) THEN Send(f, "list", generation, selected)
                   ELSE End(f, "failed", generation, selected)

Answered(f, what) ==
  /\ step[f] = what
  /\ sent[f].key \in accepted
  /\ UNCHANGED <<accepted, kind, target>>

SignedIn(f) ==
  /\ Answered(f, "me")
  /\ principal' = [user |-> sent[f].key, login |-> f]
  /\ detail' = Nothing /\ asked' = {}
  /\ UNCHANGED <<key, offset, list, count>>
  /\ Send(f, "list", generation, selected)

\* The answer to a question is shown in the panel that it was asked in, which is
\* not on the page any more if the detail was rendered again.
Acted(f) ==
  /\ Answered(f, "act")
  /\ offset' = IF kind[f] = "upload" THEN 0 ELSE offset
  /\ UNCHANGED <<key, principal, shown, asked>>
  /\ IF kind[f] \in Panels THEN End(f, "done", generation, selected)
                           ELSE Send(f, "list", generation, selected)

\* Mutant of IsLatest: the answer that arrives last is shown.
IsLatestToArrive(f) == principal # Nobody

IsLatest(f) == sent[f].generation = generation /\ principal # Nobody

\* A list that comes too late is not shown, but the flow goes on.  The range is that
\* of the offset as it is now.
Listed(f) ==
  /\ Answered(f, "list")
  /\ IF IsLatest(f)
     THEN /\ list' = [key |-> sent[f].key, page |-> sent[f].page]
          /\ count' = [key |-> sent[f].key, page |-> offset]
     ELSE UNCHANGED <<list, count>>
  /\ UNCHANGED <<session, detail, asked>>
  /\ IF kind[f] \in {"connect", "turn"} THEN End(f, "done", generation, selected)
                                        ELSE Send(f, "detail", generation, selected)

IsSelectedByAnyone(f) == selected = target[f]               \* mutant of IsSelected
IsSelectedOrNot(f) == principal = sent[f].principal         \* mutant of IsSelected

IsSelected(f) == selected = target[f] /\ principal = sent[f].principal

Detailed(f) ==
  /\ Answered(f, "detail")
  /\ IF IsSelected(f)
     THEN detail' = [key |-> sent[f].key, contract |-> target[f]] /\ asked' = {}
     ELSE UNCHANGED <<detail, asked>>
  /\ UNCHANGED <<session, list, count>>
  /\ End(f, "done", generation, selected)

\* An operator removes an account and restarts the API.
Revoke ==
  /\ \E k \in accepted : accepted' = accepted \ {k}
  /\ UNCHANGED <<session, selected, generation, shown, asked, kind, step, target, sent>>

-----------------------------------------------------------------------------
Next ==
  \/ \E f \in Flows :
       \/ \E k \in Keys : Connect(f, k)
       \/ \E c \in Contracts : Open(f, c) \/ Upload(f, c)
       \/ \E panel \in Panels : Ask(f, panel)
       \/ Review(f) \/ Refresh(f) \/ Turn(f)
       \/ Unauthorized(f) \/ Fails(f)
       \/ SignedIn(f) \/ Acted(f) \/ Listed(f) \/ Detailed(f)
  \/ SignOut \/ Revoke

Spec == Init /\ [][Next]_vars

-----------------------------------------------------------------------------
\* Properties.

(* Every variable keeps its type.                                          *)
TypeOK ==
  /\ accepted \subseteq Keys
  /\ key \in Keys \cup {NoKey}
  /\ principal \in Principals
  /\ selected \in Contracts \cup {Nothing}
  /\ offset \in 0 .. LastPage
  /\ generation \in Nat
  /\ list \in [key : Keys, page : 0 .. LastPage] \cup {Nothing}
  /\ count \in [key : Keys, page : 0 .. LastPage] \cup {Nothing}
  /\ detail \in [key : Keys, contract : Contracts] \cup {Nothing}
  /\ asked \subseteq Flows
  /\ kind \in [Flows -> {"none", "connect", "open", "review", "recover", "refresh",
                         "upload", "turn"} \cup Panels]
  /\ step \in [Flows -> {"idle", "me", "act", "list", "detail", "done", "failed"}]
  /\ target \in [Flows -> Contracts \cup {Nothing}]
  /\ sent \in [Flows -> [key : Keys \cup {NoKey}, principal : Principals,
                         page : 0 .. LastPage, generation : Nat]]

\* What the panels show.
Answers == {f \in asked : step[f] = "done"}

(* The contracts that whoever is signed in sees, in the list, in the detail*)
(* and in the panels, were fetched with the own key, though requests of    *)
(* earlier sessions are still being answered and their handlers still go on*)
(* (the checks in loadContracts and selectContract), and the range shown   *)
(* with a list is of that list.  Where no list is shown yet, the range may *)
(* still be an earlier user's: signOut leaves it.                          *)
OwnContractsOnly ==
  principal # Nobody =>
    /\ list # Nothing => list.key = principal.user /\ count = list
    /\ detail # Nothing => detail.key = principal.user
    /\ \A f \in Answers : sent[f].key = principal.user

(* The list shows the page that the offset says, unless the latest request *)
(* for the list is not answered yet, or failed.                            *)
ListFollowsOffset ==
  principal # Nobody =>
    \/ list # Nothing /\ list.page = offset
    \/ \E f \in Flows :
         /\ sent[f].generation = generation
         /\ step[f] \in {"list", "failed"}

(* The detail is that of the contract selected, unless that one's request  *)
(* is not answered yet, failed, or was sent while nobody was signed in (by *)
(* a handler of an earlier session that was still going on).               *)
Awaited(f) ==
  \/ step[f] \in {"detail", "failed"} /\ sent[f].principal = principal
  \/ step[f] \in {"detail", "failed", "done"} /\ sent[f].principal = Nobody

SelectionIsShown ==
  selected # Nothing =>
    \/ principal # Nobody /\ detail # Nothing /\ detail.contract = selected
    \/ \E f \in Flows : target[f] = selected /\ Awaited(f)

(* A handler that asks for a contract has one to ask for.                  *)
Targets ==
  \A f \in Flows :
    /\ step[f] # "idle" => kind[f] # "none"
    /\ kind[f] \notin {"none", "connect", "turn"} => target[f] \in Contracts
    /\ step[f] = "detail" => kind[f] \notin {"connect", "turn"}

(* The answers that the panels show, or await, are about the contract that *)
(* is shown with them, and each panel has the latest one.                  *)
AnswersBelong ==
  \A f \in asked :
    /\ detail # Nothing /\ target[f] = detail.contract
    /\ kind[f] \in Panels /\ step[f] \in {"act", "done", "failed"}
    /\ \A g \in asked : kind[f] = kind[g] => f = g

(* Why these survive every step: the key in use is the principal's or was  *)
(* cleared, only one handler signs in, nobody has yet been signed in by a  *)
(* handler that is still at it, and an answer that may still be shown was  *)
(* asked for with the principal's key, and for the page at the offset.     *)
KeyIsOwn == principal # Nobody => key \in {principal.user, NoKey}

OneSignIn ==
  /\ \A f \in Flows : step[f] = "me" =>
       kind[f] = "connect" /\ principal = Nobody /\ key \in {sent[f].key, NoKey}
  /\ \A f, g \in Flows :
       step[f] = "me" /\ InFlight(g) /\ kind[g] = "connect" => f = g

FreshLogin ==
  \A f \in Flows : step[f] \in {"idle", "me"} =>
    /\ principal # Nobody => principal.login # f
    /\ \A g \in Flows : sent[g].principal # Nobody => sent[g].principal.login # f

LateAnswersAreOwn ==
  \A f \in Flows :
    /\ sent[f].generation <= generation
    /\ step[f] = "list" /\ IsLatest(f) => sent[f].key \in {principal.user, NoKey}
    /\ step[f] = "detail" /\ principal # Nobody /\ sent[f].principal = principal =>
         sent[f].key \in {principal.user, NoKey}
    /\ step[f] = "act" /\ f \in asked /\ principal # Nobody =>
         sent[f].key \in {principal.user, NoKey}

SignedOut == principal = Nobody => list = Nothing

LatestPage ==
  \A f \in Flows : step[f] = "list" /\ IsLatest(f) => sent[f].page = offset

WorkspaceInv ==
  /\ TypeOK /\ Targets
  /\ KeyIsOwn /\ OneSignIn /\ FreshLogin /\ LateAnswersAreOwn
  /\ SignedOut /\ OwnContractsOnly
  /\ LatestPage /\ ListFollowsOffset
  /\ SelectionIsShown /\ AnswersBelong
=============================================================================
