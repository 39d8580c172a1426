--------------------------- MODULE WorkspaceProofs ---------------------------
(***************************************************************************)
(* WorkspaceInv is an invariant of the browser workspace, for any number of*)
(* handlers, accounts and contracts.                                       *)
(***************************************************************************)
EXTENDS Workspace, TLAPS

(* What Begin and the answers have in common: nothing but the flow's own   *)
(* record changes.                                                         *)
LEMMA SendTypes ==
  ASSUME NEW f \in Flows, NEW next \in {"me", "act", "list", "detail"},
         NEW g \in Nat, NEW s \in Contracts \cup {Nothing},
         TypeOK, Send(f, next, g, s),
         key' \in Keys \cup {NoKey}, principal' \in Principals, offset' \in 0 .. LastPage,
         target' \in [Flows -> Contracts \cup {Nothing}]
  PROVE  /\ step' \in [Flows -> {"idle", "me", "act", "list", "detail", "done", "failed"}]
         /\ generation' \in Nat
         /\ selected' \in Contracts \cup {Nothing}
         /\ sent' \in [Flows -> [key : Keys \cup {NoKey}, principal : Principals,
                                 page : 0 .. LastPage, generation : Nat]]
<1>1. generation' \in Nat /\ selected' \in Contracts \cup {Nothing}
  <2>1. target'[f] \in Contracts \cup {Nothing}
    OBVIOUS
  <2> QED
    BY <2>1 DEF Send
<1>2. [key |-> key', principal |-> principal', page |-> offset',
       generation |-> IF next = "list" THEN generation' ELSE 0] \in
         [key : Keys \cup {NoKey}, principal : Principals,
          page : 0 .. LastPage, generation : Nat]
  BY <1>1
<1> QED
  BY <1>1, <1>2 DEF TypeOK, Send

(* What the other flows, and the generation, are after a request is sent.  *)
LEMMA SendFacts ==
  ASSUME NEW f \in Flows, NEW next, NEW g, NEW s, TypeOK, Send(f, next, g, s)
  PROVE  /\ generation' = IF next = "list" THEN g + 1 ELSE g
         /\ selected' = IF next = "detail" THEN target'[f] ELSE s
         /\ step'[f] = next
         /\ sent'[f].key = key' /\ sent'[f].principal = principal'
         /\ sent'[f].page = offset'
         /\ sent'[f].generation = IF next = "list" THEN generation' ELSE 0
         /\ \A h \in Flows \ {f} : sent'[h] = sent[h] /\ step'[h] = step[h]
BY DEF TypeOK, Send

(* The end of a handler leaves the other flows alone.                      *)
LEMMA EndFacts ==
  ASSUME NEW f \in Flows, NEW how \in {"done", "failed"},
         NEW g \in Nat, NEW s \in Contracts \cup {Nothing},
         TypeOK, End(f, how, g, s)
  PROVE  /\ step' \in [Flows -> {"idle", "me", "act", "list", "detail", "done", "failed"}]
         /\ generation' = g /\ selected' = s
         /\ sent' = sent
         /\ step'[f] = how
         /\ \A h \in Flows \ {f} : step'[h] = step[h]
BY DEF TypeOK, End

(* Every step of the page keeps the type invariant.                        *)
LEMMA TypeStep == TypeOK /\ Targets /\ [Next]_vars => TypeOK'
<1> SUFFICES ASSUME TypeOK, Targets, [Next]_vars PROVE TypeOK'
  OBVIOUS
<1> USE WorkspaceAssumption
<1>1. CASE UNCHANGED vars
  BY <1>1 DEF TypeOK, vars
<1>2. ASSUME NEW f \in Flows, NEW k \in Keys, Connect(f, k) PROVE TypeOK'
  BY <1>2, SendTypes DEF TypeOK, Connect, Begin, shown
<1>3. ASSUME NEW f \in Flows, NEW c \in Contracts, Open(f, c) PROVE TypeOK'
  BY <1>3, SendTypes DEF TypeOK, Open, Begin, session, shown
<1>4. ASSUME NEW f \in Flows, NEW c \in Contracts, Upload(f, c) PROVE TypeOK'
  BY <1>4, SendTypes DEF TypeOK, Upload, Begin, session, shown
<1>5. ASSUME NEW f \in Flows, Review(f) PROVE TypeOK'
  <2>1. detail.contract \in Contracts
    BY <1>5 DEF Review, TypeOK
  <2>2. PICK what \in {"review", "recover"} : Begin(f, what, detail.contract, "act")
    BY <1>5 DEF Review
  <2>3. UNCHANGED <<session, asked>>
    BY <1>5 DEF Review
  <2> QED
    BY <2>1, <2>2, <2>3, SendTypes DEF TypeOK, Begin, session, shown
<1>6. ASSUME NEW f \in Flows, Refresh(f) PROVE TypeOK'
  BY <1>6, SendTypes DEF TypeOK, Refresh, Begin, session, shown
<1>7. ASSUME NEW f \in Flows, Turn(f) PROVE TypeOK'
  <2>1. offset' \in 0 .. LastPage
    BY <1>7 DEF TypeOK, Turn
  <2> QED
    BY <1>7, <2>1, SendTypes DEF TypeOK, Turn, Begin, shown
<1>8. CASE SignOut
  BY <1>8 DEF TypeOK, SignOut, Cleared, Principals
<1>9. CASE Revoke
  BY <1>9 DEF TypeOK, Revoke, session, shown
<1>10. ASSUME NEW f \in Flows, Unauthorized(f) PROVE TypeOK'
  <2>1. /\ Cleared /\ UNCHANGED <<accepted, kind, target>>
        /\ generation + 1 \in Nat /\ Nobody \in Principals
    BY <1>10 DEF Unauthorized, TypeOK, Principals
  <2>2. CASE Send(f, "list", generation + 1, Nothing)
    BY <2>1, <2>2, SendTypes DEF TypeOK, Cleared
  <2>3. CASE End(f, "failed", generation + 1, Nothing)
    BY <2>1, <2>3, EndFacts DEF TypeOK, Cleared
  <2> QED
    BY <1>10, <2>2, <2>3 DEF Unauthorized
<1>11. ASSUME NEW f \in Flows, Fails(f) PROVE TypeOK'
  <2>1. UNCHANGED <<accepted, kind, target, key, principal, offset, list, count, detail, asked>>
    BY <1>11 DEF Fails, session, shown
  <2>2. CASE Send(f, "list", generation, selected)
    BY <2>1, <2>2, SendTypes DEF TypeOK
  <2>3. CASE End(f, "failed", generation, selected)
    BY <2>1, <2>3, EndFacts DEF TypeOK
  <2> QED
    BY <1>11, <2>2, <2>3 DEF Fails
<1>12. ASSUME NEW f \in Flows, SignedIn(f) PROVE TypeOK'
  <2>1. principal' \in Principals
    BY <1>12 DEF SignedIn, Answered, TypeOK, Principals
  <2> QED
    BY <1>12, <2>1, SendTypes DEF TypeOK, SignedIn, Answered
<1>13. ASSUME NEW f \in Flows, Acted(f) PROVE TypeOK'
  <2>1. UNCHANGED <<accepted, kind, target, key, principal, list, count, detail, asked>>
        /\ offset' \in 0 .. LastPage
    BY <1>13 DEF Acted, Answered, shown, TypeOK
  <2>2. CASE End(f, "done", generation, selected)
    BY <2>1, <2>2, EndFacts DEF TypeOK
  <2>3. CASE Send(f, "list", generation, selected)
    BY <2>1, <2>3, SendTypes DEF TypeOK
  <2> QED
    BY <1>13, <2>2, <2>3 DEF Acted
<1>14. ASSUME NEW f \in Flows, Listed(f) PROVE TypeOK'
  <2>1. UNCHANGED <<accepted, kind, target, key, principal, offset, detail, asked>>
        /\ list' \in [key : Keys, page : 0 .. LastPage] \cup {Nothing}
        /\ count' \in [key : Keys, page : 0 .. LastPage] \cup {Nothing}
    BY <1>14 DEF Listed, Answered, session, TypeOK
  <2>2. CASE End(f, "done", generation, selected)
    BY <2>1, <2>2, EndFacts DEF TypeOK
  <2>3. CASE Send(f, "detail", generation, selected)
    BY <2>1, <2>3, SendTypes DEF TypeOK
  <2> QED
    BY <1>14, <2>2, <2>3 DEF Listed
<1>15. ASSUME NEW f \in Flows, NEW panel \in Panels, Ask(f, panel) PROVE TypeOK'
  <2>1. detail.contract \in Contracts /\ asked' \subseteq Flows
    BY <1>15 DEF Ask, TypeOK
  <2> QED
    BY <1>15, <2>1, SendTypes DEF TypeOK, Ask, Begin, session, shown
<1>16. ASSUME NEW f \in Flows, Detailed(f) PROVE TypeOK'
  <2>1. UNCHANGED <<accepted, kind, target, key, principal, offset, list, count>>
        /\ detail' \in [key : Keys, contract : Contracts] \cup {Nothing}
        /\ asked' \subseteq Flows
    BY <1>16 DEF Detailed, Answered, session, TypeOK, Targets
  <2> QED
    BY <1>16, <2>1, EndFacts DEF TypeOK, Detailed
<1> QED
  BY <1>1, <1>2, <1>3, <1>4, <1>5, <1>6, <1>7, <1>8, <1>9, <1>10, <1>11, <1>12,
     <1>13, <1>14, <1>15, <1>16 DEF Next

(* A flow keeps its kind and its target once it has begun.                 *)
LEMMA TargetsStep ==
  TypeOK /\ Targets /\ [Next]_vars => Targets'
<1> SUFFICES ASSUME TypeOK, Targets, [Next]_vars PROVE Targets'
  OBVIOUS
<1> USE WorkspaceAssumption
<1>1. CASE UNCHANGED vars
  BY <1>1 DEF TypeOK, Targets, vars
<1>2. CASE SignOut
  BY <1>2 DEF TypeOK, Targets, SignOut, Cleared
<1>3. CASE Revoke
  BY <1>3 DEF TypeOK, Targets, Revoke, session, shown
<1>4. ASSUME NEW f \in Flows, NEW k \in Keys, Connect(f, k) PROVE Targets'
  BY <1>4 DEF TypeOK, Targets, Connect, Begin, Send
<1>5. ASSUME NEW f \in Flows, NEW c \in Contracts, Open(f, c) PROVE Targets'
  BY <1>5 DEF TypeOK, Targets, Open, Begin, Send, session
<1>6. ASSUME NEW f \in Flows, NEW c \in Contracts, Upload(f, c) PROVE Targets'
  BY <1>6 DEF TypeOK, Targets, Upload, Begin, Send, session
<1>7. ASSUME NEW f \in Flows, Review(f) PROVE Targets'
  BY <1>7 DEF TypeOK, Targets, Review, Begin, Send, session
<1>8. ASSUME NEW f \in Flows, Refresh(f) PROVE Targets'
  BY <1>8 DEF TypeOK, Targets, Refresh, Begin, Send, session
<1>9. ASSUME NEW f \in Flows, Turn(f) PROVE Targets'
  BY <1>9 DEF TypeOK, Targets, Turn, Begin, Send
<1>10. ASSUME NEW f \in Flows, Unauthorized(f) PROVE Targets'
  BY <1>10
  DEF TypeOK, Targets, Unauthorized, Cleared, InFlight, Catches, Send, End
<1>11. ASSUME NEW f \in Flows, Fails(f) PROVE Targets'
  BY <1>11 DEF TypeOK, Targets, Fails, InFlight, Catches, Send, End, session
<1>12. ASSUME NEW f \in Flows, SignedIn(f) PROVE Targets'
  BY <1>12 DEF TypeOK, Targets, SignedIn, Answered, Send
<1>13. ASSUME NEW f \in Flows, Acted(f) PROVE Targets'
  BY <1>13 DEF TypeOK, Targets, Acted, Answered, Send, End, Panels
<1>14. ASSUME NEW f \in Flows, Listed(f) PROVE Targets'
  BY <1>14 DEF TypeOK, Targets, Listed, Answered, Send, End, session
<1>15. ASSUME NEW f \in Flows, Detailed(f) PROVE Targets'
  BY <1>15 DEF TypeOK, Targets, Detailed, Answered, End, session
<1>16. ASSUME NEW f \in Flows, NEW panel \in Panels, Ask(f, panel) PROVE Targets'
  BY <1>16 DEF TypeOK, Targets, Ask, Panels, Begin, Send, session
<1> QED
  BY <1>1, <1>2, <1>3, <1>4, <1>5, <1>6, <1>7, <1>8, <1>9,
     <1>10, <1>11, <1>12, <1>13, <1>14, <1>15, <1>16 DEF Next

(* The key changes when a handler begins to sign in, and is cleared.       *)
LEMMA SignInStep ==
  TypeOK /\ Targets /\ KeyIsOwn /\ OneSignIn /\ [Next]_vars => (KeyIsOwn /\ OneSignIn)'
<1> SUFFICES ASSUME TypeOK, Targets, KeyIsOwn, OneSignIn, [Next]_vars
             PROVE  (KeyIsOwn /\ OneSignIn)'
  OBVIOUS
<1> USE WorkspaceAssumption
<1>1. CASE UNCHANGED vars
  BY <1>1 DEF TypeOK, Targets, KeyIsOwn, OneSignIn, InFlight, vars
<1>2. CASE SignOut
  BY <1>2 DEF TypeOK, Targets, KeyIsOwn, OneSignIn, InFlight, SignOut, Cleared
<1>3. CASE Revoke
  BY <1>3
  DEF TypeOK, Targets, KeyIsOwn, OneSignIn, InFlight, Revoke, session, shown
<1>4. ASSUME NEW f \in Flows, NEW k \in Keys, Connect(f, k)
      PROVE  (KeyIsOwn /\ OneSignIn)'
  BY <1>4
  DEF TypeOK, Targets, KeyIsOwn, OneSignIn, InFlight, Connect, Begin, Send
<1>5. ASSUME NEW f \in Flows, NEW c \in Contracts, Open(f, c)
      PROVE  (KeyIsOwn /\ OneSignIn)'
  BY <1>5
  DEF TypeOK, Targets, KeyIsOwn, OneSignIn, InFlight, Open, Begin, Send,
      session
<1>6. ASSUME NEW f \in Flows, NEW c \in Contracts, Upload(f, c)
      PROVE  (KeyIsOwn /\ OneSignIn)'
  BY <1>6
  DEF TypeOK, Targets, KeyIsOwn, OneSignIn, InFlight, Upload, Begin, Send,
      session
<1>7. ASSUME NEW f \in Flows, Review(f) PROVE (KeyIsOwn /\ OneSignIn)'
  BY <1>7
  DEF TypeOK, Targets, KeyIsOwn, OneSignIn, InFlight, Review, Begin, Send,
      session
<1>8. ASSUME NEW f \in Flows, Refresh(f) PROVE (KeyIsOwn /\ OneSignIn)'
  BY <1>8
  DEF TypeOK, Targets, KeyIsOwn, OneSignIn, InFlight, Refresh, Begin, Send,
      session
<1>9. ASSUME NEW f \in Flows, Turn(f) PROVE (KeyIsOwn /\ OneSignIn)'
  BY <1>9 DEF TypeOK, Targets, KeyIsOwn, OneSignIn, InFlight, Turn, Begin, Send
<1>10. ASSUME NEW f \in Flows, Unauthorized(f) PROVE (KeyIsOwn /\ OneSignIn)'
  BY <1>10
  DEF TypeOK, Targets, KeyIsOwn, OneSignIn, InFlight, Unauthorized, Cleared,
      InFlight, Catches, Send, End
<1>11. ASSUME NEW f \in Flows, Fails(f) PROVE (KeyIsOwn /\ OneSignIn)'
  BY <1>11
  DEF TypeOK, Targets, KeyIsOwn, OneSignIn, InFlight, Fails, InFlight,
      Catches, Send, End, session
<1>12. ASSUME NEW f \in Flows, SignedIn(f) PROVE (KeyIsOwn /\ OneSignIn)'
  BY <1>12
  DEF TypeOK, Targets, KeyIsOwn, OneSignIn, InFlight, SignedIn, Answered, Send
<1>13. ASSUME NEW f \in Flows, Acted(f) PROVE (KeyIsOwn /\ OneSignIn)'
  BY <1>13
  DEF TypeOK, Targets, KeyIsOwn, OneSignIn, InFlight, Acted, Answered, Send,
      End
<1>14. ASSUME NEW f \in Flows, Listed(f) PROVE (KeyIsOwn /\ OneSignIn)'
  BY <1>14
  DEF TypeOK, Targets, KeyIsOwn, OneSignIn, InFlight, Listed, Answered, Send,
      End, session
<1>15. ASSUME NEW f \in Flows, Detailed(f) PROVE (KeyIsOwn /\ OneSignIn)'
  BY <1>15
  DEF TypeOK, Targets, KeyIsOwn, OneSignIn, InFlight, Detailed, Answered, End,
      session
<1>16. ASSUME NEW f \in Flows, NEW panel \in Panels, Ask(f, panel)
      PROVE  (KeyIsOwn /\ OneSignIn)'
  BY <1>16
  DEF TypeOK, Targets, KeyIsOwn, OneSignIn, InFlight, Ask, Panels, Begin, Send,
      session
<1> QED
  BY <1>1, <1>2, <1>3, <1>4, <1>5, <1>6, <1>7, <1>8, <1>9,
     <1>10, <1>11, <1>12, <1>13, <1>14, <1>15, <1>16 DEF Next

(* A login is new when its handler signs in.                               *)
LEMMA FreshStep ==
  TypeOK /\ OneSignIn /\ FreshLogin /\ [Next]_vars => FreshLogin'
<1> SUFFICES ASSUME TypeOK, OneSignIn, FreshLogin, [Next]_vars PROVE FreshLogin'
  OBVIOUS
<1> USE WorkspaceAssumption
<1>1. CASE UNCHANGED vars
  BY <1>1 DEF TypeOK, FreshLogin, Principals, vars
<1>2. CASE SignOut
  BY <1>2 DEF TypeOK, FreshLogin, Principals, SignOut, Cleared
<1>3. CASE Revoke
  BY <1>3 DEF TypeOK, FreshLogin, Principals, Revoke, session, shown
<1>4. ASSUME NEW f \in Flows, NEW k \in Keys, Connect(f, k) PROVE FreshLogin'
  BY <1>4 DEF TypeOK, FreshLogin, Principals, Connect, Begin, Send
<1>5. ASSUME NEW f \in Flows, NEW c \in Contracts, Open(f, c) PROVE FreshLogin'
  BY <1>5 DEF TypeOK, FreshLogin, Principals, Open, Begin, Send, session
<1>6. ASSUME NEW f \in Flows, NEW c \in Contracts, Upload(f, c)
      PROVE  FreshLogin'
  BY <1>6 DEF TypeOK, FreshLogin, Principals, Upload, Begin, Send, session
<1>7. ASSUME NEW f \in Flows, Review(f) PROVE FreshLogin'
  BY <1>7 DEF TypeOK, FreshLogin, Principals, Review, Begin, Send, session
<1>8. ASSUME NEW f \in Flows, Refresh(f) PROVE FreshLogin'
  BY <1>8 DEF TypeOK, FreshLogin, Principals, Refresh, Begin, Send, session
<1>9. ASSUME NEW f \in Flows, Turn(f) PROVE FreshLogin'
  BY <1>9 DEF TypeOK, FreshLogin, Principals, Turn, Begin, Send
<1>10. ASSUME NEW f \in Flows, Unauthorized(f) PROVE FreshLogin'
  BY <1>10
  DEF TypeOK, FreshLogin, Principals, Unauthorized, Cleared, InFlight,
      Catches, Send, End
<1>11. ASSUME NEW f \in Flows, Fails(f) PROVE FreshLogin'
  BY <1>11
  DEF TypeOK, FreshLogin, Principals, Fails, InFlight, Catches, Send, End,
      session
<1>12. ASSUME NEW f \in Flows, SignedIn(f) PROVE FreshLogin'
  BY <1>12 DEF TypeOK, FreshLogin, Principals, SignedIn, Answered, Send
<1>13. ASSUME NEW f \in Flows, Acted(f) PROVE FreshLogin'
  BY <1>13 DEF TypeOK, FreshLogin, Principals, Acted, Answered, Send, End
<1>14. ASSUME NEW f \in Flows, Listed(f) PROVE FreshLogin'
  BY <1>14
  DEF TypeOK, FreshLogin, Principals, Listed, Answered, Send, End, session
<1>15. ASSUME NEW f \in Flows, Detailed(f) PROVE FreshLogin'
  BY <1>15 DEF TypeOK, FreshLogin, Principals, Detailed, Answered, End, session
<1>16. ASSUME NEW f \in Flows, NEW panel \in Panels, Ask(f, panel)
      PROVE  FreshLogin'
  BY <1>16 DEF TypeOK, FreshLogin, Principals, Ask, Begin, Send, session
<1> QED
  BY <1>1, <1>2, <1>3, <1>4, <1>5, <1>6, <1>7, <1>8, <1>9,
     <1>10, <1>11, <1>12, <1>13, <1>14, <1>15, <1>16 DEF Next

(***************************************************************************)
(* The contracts rendered were asked for with the key of whoever is signed *)
(* in, and the range rendered with a list is the list's.                   *)
(***************************************************************************)
ShownIsOwn ==
  principal # Nobody =>
    /\ list # Nothing => list.key = principal.user /\ count = list
    /\ detail # Nothing => detail.key = principal.user

AnswersAreOwn ==
  \A f \in Answers : principal # Nobody => sent[f].key = principal.user

ShownInv ==
  TypeOK /\ OneSignIn /\ LateAnswersAreOwn /\ LatestPage /\ SignedOut /\ ShownIsOwn

(* A list that is rendered is the principal's own, and so is its range.    *)
LEMMA OwnList ==
  ASSUME ShownInv, NEW f \in Flows, Listed(f) PROVE (SignedOut /\ ShownIsOwn)'
<1>1. UNCHANGED <<principal, detail>> /\ step[f] = "list" /\ sent[f].key \in Keys
  BY DEF Listed, Answered, session, ShownInv, TypeOK
<1>2. CASE IsLatest(f)
  <2>1. sent[f].key = principal.user /\ principal # Nobody
    BY <1>1, <1>2, WorkspaceAssumption DEF ShownInv, LateAnswersAreOwn, IsLatest
  <2>2. list'.key = sent[f].key /\ count' = list'
    BY <1>1, <1>2 DEF Listed, ShownInv, LatestPage
  <2> QED
    BY <1>1, <2>1, <2>2 DEF ShownInv, SignedOut, ShownIsOwn
<1>3. CASE ~ IsLatest(f)
  BY <1>1, <1>3 DEF Listed, ShownInv, SignedOut, ShownIsOwn
<1> QED
  BY <1>2, <1>3

(* So is a detail.                                                         *)
LEMMA OwnDetail ==
  ASSUME ShownInv, NEW f \in Flows, Detailed(f)
      PROVE  (SignedOut /\ ShownIsOwn)'
<1>1. UNCHANGED <<principal, list, count>> /\ step[f] = "detail" /\ sent[f].key \in Keys
  BY DEF Detailed, Answered, session, ShownInv, TypeOK
<1>2. CASE IsSelected(f)
  <2>1. principal # Nobody => sent[f].key = principal.user
    BY <1>1, <1>2, WorkspaceAssumption
    DEF ShownInv, LateAnswersAreOwn, IsSelected
  <2>2. detail'.key = sent[f].key
    BY <1>2 DEF Detailed
  <2> QED
    BY <1>1, <2>1, <2>2 DEF ShownInv, SignedOut, ShownIsOwn
<1>3. CASE ~ IsSelected(f)
  BY <1>1, <1>3 DEF Detailed, ShownInv, SignedOut, ShownIsOwn
<1> QED
  BY <1>2, <1>3

(* Hence no step shows a session another one's list or detail.             *)
LEMMA ShownStep == ShownInv /\ [Next]_vars => (SignedOut /\ ShownIsOwn)'
<1> SUFFICES ASSUME ShownInv, [Next]_vars PROVE (SignedOut /\ ShownIsOwn)'
  OBVIOUS
<1>1. CASE UNCHANGED <<principal, list, count, detail>>
  BY <1>1 DEF ShownInv, SignedOut, ShownIsOwn
<1>2. CASE Cleared
  BY <1>2 DEF Cleared, SignedOut, ShownIsOwn
<1>3. ASSUME NEW f \in Flows, SignedIn(f) PROVE (SignedOut /\ ShownIsOwn)'
  <2>1. principal = Nobody /\ UNCHANGED <<list, count>> /\ detail' = Nothing
    BY <1>3 DEF SignedIn, Answered, ShownInv, OneSignIn
  <2>2. principal' # Nobody
    BY <1>3, WorkspaceAssumption DEF SignedIn, Answered, ShownInv, TypeOK
  <2> QED
    BY <2>1, <2>2 DEF ShownInv, SignedOut, ShownIsOwn
<1>4. ASSUME NEW f \in Flows, Listed(f) PROVE (SignedOut /\ ShownIsOwn)'
  BY <1>4, OwnList
<1>5. ASSUME NEW f \in Flows, Detailed(f) PROVE (SignedOut /\ ShownIsOwn)'
  BY <1>5, OwnDetail
<1>6. ASSUME NEW f \in Flows,
             \/ \E k \in Keys : Connect(f, k)
             \/ \E c \in Contracts : Open(f, c) \/ Upload(f, c)
             \/ \E panel \in Panels : Ask(f, panel)
             \/ Review(f) \/ Refresh(f) \/ Turn(f) \/ Fails(f) \/ Acted(f)
      PROVE  UNCHANGED <<principal, list, count, detail>>
  BY <1>6 DEF Connect, Open, Upload, Ask, Review, Refresh, Turn, Fails, Acted,
              Begin, session, shown
<1>7. CASE UNCHANGED vars \/ Revoke
  BY <1>1, <1>7 DEF vars, Revoke, session, shown
<1>8. CASE SignOut
  BY <1>2, <1>8 DEF SignOut
<1>9. ASSUME NEW f \in Flows, Unauthorized(f) PROVE Cleared
  BY <1>9 DEF Unauthorized
<1> QED
  BY <1>1, <1>2, <1>3, <1>4, <1>5, <1>6, <1>7, <1>8, <1>9 DEF Next

(***************************************************************************)
(* The steps, as far as the rest of the invariant tells them apart: a flow *)
(* sends its next request within the session, a flow ends, a sign-in       *)
(* begins, it succeeds, the session ends, or none of this.                 *)
(***************************************************************************)
Continues(f) ==
  /\ step[f] \in {"idle", "act", "list"}
  /\ UNCHANGED <<key, principal, detail>>
  /\ asked' \ {f} \subseteq asked
  /\ \A h \in Flows \ {f} : target'[h] = target[h]
  /\ \E next \in {"act", "list", "detail"} :
       Send(f, next, generation, selected) /\ (next # "list" => offset' = offset)
  /\ step[f] = "list" => sent[f].key \in Keys
  /\ list' = IF step[f] = "list" /\ IsLatest(f)
             THEN [key |-> sent[f].key, page |-> sent[f].page] ELSE list

Ends(f) ==
  /\ InFlight(f)
  /\ UNCHANGED <<key, principal, offset, target>>
  /\ asked' \subseteq asked
  /\ \E how \in {"done", "failed"} :
       /\ End(f, how, generation, selected)
       /\ how = "failed" => UNCHANGED shown
       /\ how = "done" => step[f] # "me" /\ sent[f].key \in Keys
       /\ how = "done" /\ step[f] = "list" /\ IsLatest(f) =>
            list' = [key |-> sent[f].key, page |-> sent[f].page]
       /\ ~ (step[f] = "list" /\ IsLatest(f)) => list' = list
       /\ how = "done" /\ step[f] = "detail" /\ IsSelected(f) =>
            detail' = [key |-> sent[f].key, contract |-> target[f]]
       /\ ~ (step[f] = "detail" /\ IsSelected(f)) => detail' = detail

Leaves ==
  /\ Cleared
  /\ selected' = Nothing
  /\ \A h \in Flows : sent'[h] = sent[h] \/ sent'[h].generation = generation'
  /\ generation' \in Nat /\ generation' > generation

Stays ==
  UNCHANGED <<key, principal, selected, offset, generation, list, detail, asked,
              step, target, sent>>

(* Every step is one of these.                                            *)
LEMMA StepCases ==
  ASSUME TypeOK, Targets, [Next]_vars
  PROVE  \/ \E f \in Flows : \/ Continues(f) \/ Ends(f) \/ SignedIn(f)
                             \/ \E k \in Keys : Connect(f, k)
         \/ Leaves \/ Stays
<1>1. CASE UNCHANGED vars
  BY <1>1 DEF vars, Stays
<1>2. CASE Revoke
  BY <1>2 DEF Revoke, session, shown, Stays
<1>3. CASE SignOut
  BY <1>3 DEF SignOut, Leaves, TypeOK
<1>4. ASSUME NEW f \in Flows, NEW c \in Contracts, Open(f, c) \/ Upload(f, c)
      PROVE  Continues(f)
  BY <1>4 DEF Open, Upload, Begin, Continues, session, shown, TypeOK
<1>5. ASSUME NEW f \in Flows, Review(f) PROVE Continues(f)
  BY <1>5 DEF Review, Begin, Continues, session, shown, TypeOK
<1>6. ASSUME NEW f \in Flows, Refresh(f) PROVE Continues(f)
  BY <1>6 DEF Refresh, Begin, Continues, session, shown, TypeOK
<1>7. ASSUME NEW f \in Flows, Turn(f) PROVE Continues(f)
  BY <1>7 DEF Turn, Begin, Continues, shown, TypeOK
<1>8. ASSUME NEW f \in Flows, Unauthorized(f) PROVE Leaves
  <2>1. /\ Cleared /\ generation \in Nat
        /\ Send(f, "list", generation + 1, Nothing) \/ End(f, "failed", generation + 1, Nothing)
    BY <1>8 DEF Unauthorized, TypeOK
  <2>2. CASE Send(f, "list", generation + 1, Nothing)
    BY <2>1, <2>2, SendFacts DEF Leaves
  <2>3. CASE End(f, "failed", generation + 1, Nothing)
    BY <2>1, <2>3 DEF Leaves, End
  <2> QED
    BY <2>1, <2>2, <2>3
<1>9. ASSUME NEW f \in Flows, Fails(f) PROVE Continues(f) \/ Ends(f)
  BY <1>9 DEF Fails, Catches, InFlight, Continues, Ends, session, shown
<1>10. ASSUME NEW f \in Flows, Acted(f) PROVE Continues(f) \/ Ends(f)
  <2>1. /\ step[f] = "act" /\ UNCHANGED <<key, principal, list, detail, asked, target>>
        /\ sent[f].key \in Keys
    BY <1>10 DEF Acted, Answered, shown, TypeOK
  <2>2. CASE kind[f] \in Panels
    <3>1. End(f, "done", generation, selected) /\ offset' = offset
      BY <1>10, <2>2 DEF Acted, Panels
    <3> QED
      BY <2>1, <3>1 DEF Ends, InFlight
  <2>3. CASE kind[f] \notin Panels
    <3>1. Send(f, "list", generation, selected)
      BY <1>10, <2>3 DEF Acted
    <3> QED
      BY <2>1, <3>1 DEF Continues
  <2> QED
    BY <2>2, <2>3
<1>11. ASSUME NEW f \in Flows, Listed(f) PROVE Continues(f) \/ Ends(f)
  BY <1>11 DEF Listed, Answered, InFlight, Continues, Ends, session, TypeOK
<1>12. ASSUME NEW f \in Flows, Detailed(f) PROVE Ends(f)
  BY <1>12 DEF Detailed, Answered, InFlight, Ends, session, TypeOK
<1>13. ASSUME NEW f \in Flows, NEW panel \in Panels, Ask(f, panel) PROVE Continues(f)
  BY <1>13 DEF Ask, Begin, Continues, session, shown, TypeOK
<1> QED
  BY <1>1, <1>2, <1>3, <1>4, <1>5, <1>6, <1>7, <1>8, <1>9, <1>10, <1>11, <1>12, <1>13
  DEF Next

OwnAnswer(h) ==
  /\ sent[h].generation <= generation
  /\ step[h] = "list" /\ IsLatest(h) => sent[h].key \in {principal.user, NoKey}
  /\ step[h] = "detail" /\ principal # Nobody /\ sent[h].principal = principal =>
       sent[h].key \in {principal.user, NoKey}
  /\ step[h] = "act" /\ h \in asked /\ principal # Nobody =>
       sent[h].key \in {principal.user, NoKey}

(* A list or a detail that may still be shown was asked for with the       *)
(* principal's key: later sessions have later generations and principals.  *)
LEMMA LateStep ==
  ASSUME TypeOK, Targets, KeyIsOwn, OneSignIn, FreshLogin, LateAnswersAreOwn,
         [Next]_vars
  PROVE  LateAnswersAreOwn'
<1> USE WorkspaceAssumption
<1> SUFFICES ASSUME NEW h \in Flows PROVE OwnAnswer(h)'
  BY DEF LateAnswersAreOwn, OwnAnswer
<1>0. generation \in Nat /\ sent[h].generation \in Nat
  BY DEF TypeOK
<1>1. ASSUME NEW f \in Flows, Continues(f) PROVE OwnAnswer(h)'
  <2>1. PICK next \in {"act", "list", "detail"} : Send(f, next, generation, selected)
    BY <1>1 DEF Continues
  <2>2. key' = key /\ principal' = principal
    BY <1>1 DEF Continues
  <2>3. CASE h = f
    BY <1>0, <2>1, <2>2, <2>3, SendFacts DEF KeyIsOwn, OwnAnswer, IsLatest
  <2>4. CASE h # f
    <3>1. h \in asked' => h \in asked
      BY <1>1, <2>4 DEF Continues
    <3> QED
      BY <1>0, <2>1, <2>2, <2>4, <3>1, SendFacts DEF LateAnswersAreOwn, OwnAnswer, IsLatest
  <2> QED
    BY <2>3, <2>4
<1>2. ASSUME NEW f \in Flows, Ends(f) PROVE OwnAnswer(h)'
  <2>1. /\ UNCHANGED <<principal, generation, sent>> /\ asked' \subseteq asked
        /\ step'[h] \in {step[h], "done", "failed"}
    BY <1>2 DEF Ends, End, TypeOK
  <2> QED
    BY <2>1 DEF LateAnswersAreOwn, OwnAnswer, IsLatest
<1>3. ASSUME NEW f \in Flows, SignedIn(f) PROVE OwnAnswer(h)'
  <2>1. /\ step[f] = "me" /\ Send(f, "list", generation, selected)
        /\ principal' = [user |-> sent[f].key, login |-> f] /\ key' = key
        /\ asked' = {}
    BY <1>3 DEF SignedIn, Answered
  <2>2. CASE h = f
    BY <1>0, <2>1, <2>2, SendFacts DEF OneSignIn, OwnAnswer
  <2>3. CASE h # f
    <3>1. sent[h].principal # principal'
      <4>1. principal' # Nobody /\ principal'.login = f
        BY <1>3, <2>1 DEF SignedIn, Answered, TypeOK
      <4> QED
        BY <2>1, <4>1 DEF FreshLogin
    <3>2. /\ sent'[h] = sent[h] /\ step'[h] = step[h]
          /\ generation' = generation + 1
      BY <2>1, <2>3, SendFacts
    <3>3. sent'[h].generation < generation'
      BY <1>0, <3>2 DEF LateAnswersAreOwn
    <3> QED
      BY <1>0, <2>1, <3>1, <3>2, <3>3 DEF OwnAnswer, IsLatest
  <2> QED
    BY <2>2, <2>3
<1>4. ASSUME NEW f \in Flows, NEW k \in Keys, Connect(f, k) PROVE OwnAnswer(h)'
  <2>1. Send(f, "me", generation, selected) /\ principal' = Nobody
    BY <1>4 DEF Connect, Begin
  <2>2. sent'[h].generation <= generation'
    BY <1>0, <2>1, SendFacts DEF LateAnswersAreOwn
  <2> QED
    BY <2>1, <2>2 DEF OwnAnswer, IsLatest
<1>5. CASE Leaves
  <2>1. sent'[h] = sent[h] \/ sent'[h].generation = generation'
    BY <1>5 DEF Leaves
  <2>2. generation' > generation /\ generation' \in Nat
    BY <1>5 DEF Leaves
  <2>3. sent'[h].generation <= generation'
    BY <1>0, <2>1, <2>2 DEF LateAnswersAreOwn
  <2> QED
    BY <1>5, <2>3 DEF Leaves, Cleared, OwnAnswer, IsLatest
<1>6. CASE Stays
  <2>1. UNCHANGED <<principal, generation, asked, step, sent>>
    BY <1>6 DEF Stays
  <2> QED
    BY <2>1 DEF LateAnswersAreOwn, OwnAnswer, IsLatest
<1> QED
  BY <1>1, <1>2, <1>3, <1>4, <1>5, <1>6, StepCases

(* The list follows the offset: whoever changes the offset asks for the    *)
(* list, and an answer that is still the latest is for the page at it.     *)
LEMMA PageStep ==
  ASSUME TypeOK, Targets, LateAnswersAreOwn, LatestPage, ListFollowsOffset, [Next]_vars
  PROVE  (LatestPage /\ ListFollowsOffset)'
<1> USE WorkspaceAssumption
<1>0. generation \in Nat /\ \A h \in Flows : sent[h].generation \in Nat
  BY DEF TypeOK
<1>1. ASSUME NEW f \in Flows, NEW g, g = generation, NEW next, Send(f, "list", g, next)
      PROVE  (LatestPage /\ ListFollowsOffset)'
  <2>1. /\ generation' = generation + 1
        /\ step'[f] = "list" /\ sent'[f].generation = generation'
        /\ sent'[f].page = offset'
        /\ \A h \in Flows \ {f} : sent'[h] = sent[h]
    BY <1>1, SendFacts
  <2>2. \A h \in Flows \ {f} : sent'[h].generation # generation'
    BY <1>0, <2>1 DEF LateAnswersAreOwn
  <2>3. LatestPage'
    BY <2>1, <2>2 DEF LatestPage, IsLatest
  <2>4. ListFollowsOffset'
    BY <2>1 DEF ListFollowsOffset
  <2> QED
    BY <2>3, <2>4
<1>2. ASSUME NEW f \in Flows, NEW next \in {"me", "act", "detail"},
             Send(f, next, generation, selected), offset' = offset,
             principal' = principal, step[f] # "failed",
             step[f] = "list" => sent[f].key \in Keys,
             list' = IF step[f] = "list" /\ IsLatest(f)
                     THEN [key |-> sent[f].key, page |-> sent[f].page] ELSE list
      PROVE  (LatestPage /\ ListFollowsOffset)'
  <2>1. /\ generation' = generation /\ step'[f] = next
        /\ \A h \in Flows \ {f} : sent'[h] = sent[h] /\ step'[h] = step[h]
    BY <1>2, SendFacts
  <2>2. LatestPage'
    BY <1>2, <2>1 DEF LatestPage, IsLatest
  <2>3. CASE step[f] = "list" /\ IsLatest(f)
    <3>1. list' # Nothing /\ list'.page = offset'
      BY <1>2, <2>3 DEF LatestPage, TypeOK
    <3> QED
      BY <2>2, <3>1 DEF ListFollowsOffset
  <2>4. CASE ~ (step[f] = "list" /\ IsLatest(f))
    BY <1>2, <2>1, <2>2, <2>4 DEF ListFollowsOffset, IsLatest
  <2> QED
    BY <2>3, <2>4
<1>3. ASSUME NEW f \in Flows, Continues(f) PROVE (LatestPage /\ ListFollowsOffset)'
  <2>1. PICK next \in {"act", "list", "detail"} :
               Send(f, next, generation, selected) /\ (next # "list" => offset' = offset)
    BY <1>3 DEF Continues
  <2> QED
    BY <1>1, <1>2, <1>3, <2>1 DEF Continues
<1>4. ASSUME NEW f \in Flows, Ends(f) PROVE (LatestPage /\ ListFollowsOffset)'
  <2>1. UNCHANGED <<principal, offset, generation, sent>>
    BY <1>4 DEF Ends, End
  <2>2. PICK how \in {"done", "failed"} : End(f, how, generation, selected)
          /\ (how = "failed" => list' = list)
          /\ (how = "done" => sent[f].key \in Keys)
          /\ (how = "done" /\ step[f] = "list" /\ IsLatest(f) =>
                list' = [key |-> sent[f].key, page |-> sent[f].page])
          /\ (~ (step[f] = "list" /\ IsLatest(f)) => list' = list)
    BY <1>4 DEF Ends, shown
  <2>3. step'[f] = how /\ \A h \in Flows \ {f} : step'[h] = step[h]
    BY <2>2 DEF End, TypeOK
  <2>4. LatestPage'
    BY <2>1, <2>3 DEF LatestPage, IsLatest
  <2>5. CASE how = "done" /\ step[f] = "list" /\ IsLatest(f)
    <3>1. list' # Nothing /\ list'.page = offset'
      BY <1>4, <2>1, <2>2, <2>5 DEF LatestPage, TypeOK, Ends
    <3> QED
      BY <2>4, <3>1 DEF ListFollowsOffset
  <2>6. CASE how = "failed"
    BY <2>1, <2>2, <2>3, <2>4, <2>6 DEF ListFollowsOffset
  <2>7. CASE ~ (step[f] = "list" /\ IsLatest(f)) /\ InFlight(f)
    BY <2>1, <2>2, <2>3, <2>4, <2>7 DEF ListFollowsOffset, IsLatest, InFlight
  <2> QED
    BY <1>4, <2>5, <2>6, <2>7 DEF Ends
<1>5. ASSUME NEW f \in Flows, SignedIn(f) PROVE (LatestPage /\ ListFollowsOffset)'
  BY <1>1, <1>5 DEF SignedIn
<1>6. ASSUME NEW f \in Flows, NEW k \in Keys, Connect(f, k)
      PROVE  (LatestPage /\ ListFollowsOffset)'
  BY <1>6 DEF Connect, LatestPage, ListFollowsOffset, IsLatest
<1>7. CASE Leaves
  BY <1>7 DEF Leaves, Cleared, LatestPage, ListFollowsOffset, IsLatest
<1>8. CASE Stays
  <2>1. UNCHANGED <<principal, generation, offset, list, step, sent>>
    BY <1>8 DEF Stays
  <2> QED
    BY <2>1 DEF LatestPage, ListFollowsOffset, IsLatest
<1> QED
  BY <1>3, <1>4, <1>5, <1>6, <1>7, <1>8, StepCases

(* A selection is shown or its answer is still to come: a selection is made*)
(* by whoever asks for the contract.                                       *)
LEMMA SelectionStep ==
  ASSUME TypeOK, Targets, OneSignIn, SelectionIsShown, [Next]_vars
  PROVE  SelectionIsShown'
<1> USE WorkspaceAssumption
<1>1. ASSUME NEW f \in Flows, NEW g \in Flows \ {f}, Awaited(g),
             sent'[g] = sent[g], step'[g] = step[g], target'[g] = target[g],
             principal' = principal \/ principal = Nobody,
             target[g] = selected, selected' = selected
      PROVE  SelectionIsShown'
  BY <1>1 DEF SelectionIsShown, Awaited
<1>2. ASSUME NEW f \in Flows, Continues(f) PROVE SelectionIsShown'
  <2>1. PICK next \in {"act", "list", "detail"} : Send(f, next, generation, selected)
    BY <1>2 DEF Continues
  <2>2. /\ step'[f] = next /\ sent'[f].principal = principal'
        /\ selected' = IF next = "detail" THEN target'[f] ELSE selected
        /\ \A h \in Flows \ {f} : sent'[h] = sent[h] /\ step'[h] = step[h]
    BY <2>1, SendFacts
  <2>3. CASE next = "detail"
    BY <2>2, <2>3 DEF SelectionIsShown, Awaited
  <2>4. CASE next # "detail"
    <3>1. ~ Awaited(f)
      BY <1>2 DEF Continues, Awaited
    <3>2. /\ selected' = selected /\ UNCHANGED <<principal, detail>>
          /\ \A h \in Flows \ {f} : target'[h] = target[h]
      BY <1>2, <2>2, <2>4 DEF Continues
    <3> QED
      BY <1>1, <2>2, <3>1, <3>2 DEF SelectionIsShown
  <2> QED
    BY <2>3, <2>4
<1>3. ASSUME NEW f \in Flows, Ends(f) PROVE SelectionIsShown'
  <2>1. UNCHANGED <<principal, target, selected, sent>>
    BY <1>3 DEF Ends, End
  <2>2. PICK how \in {"done", "failed"} : End(f, how, generation, selected)
          /\ (how = "failed" => detail' = detail)
          /\ (how = "done" => sent[f].key \in Keys)
          /\ (how = "done" /\ step[f] = "detail" /\ IsSelected(f) =>
                detail' = [key |-> sent[f].key, contract |-> target[f]])
          /\ (~ (step[f] = "detail" /\ IsSelected(f)) => detail' = detail)
    BY <1>3 DEF Ends, shown
  <2>3. step'[f] = how /\ \A h \in Flows \ {f} : step'[h] = step[h]
    BY <2>2 DEF End, TypeOK
  <2>4. CASE how = "done" /\ step[f] = "detail" /\ IsSelected(f)
    <3>1. CASE principal = Nobody
      BY <2>1, <2>3, <2>4, <3>1 DEF SelectionIsShown, Awaited, IsSelected
    <3>2. CASE principal # Nobody
      <4>1. detail' # Nothing /\ detail'.contract = selected
        BY <1>3, <2>2, <2>4 DEF IsSelected, TypeOK, Targets, Ends
      <4> QED
        BY <2>1, <3>2, <4>1 DEF SelectionIsShown
    <3> QED
      BY <3>1, <3>2
  <2>5. CASE ~ (how = "done" /\ step[f] = "detail" /\ IsSelected(f))
    <3>1. detail' = detail
      BY <2>2, <2>5
    <3>2. target[f] = selected /\ Awaited(f) => Awaited(f)'
      BY <1>3, <2>1, <2>3, <2>5 DEF Awaited, IsSelected, Ends, InFlight
    <3>3. \A h \in Flows \ {f} : Awaited(h) => Awaited(h)'
      BY <2>1, <2>3 DEF Awaited
    <3> QED
      BY <2>1, <3>1, <3>2, <3>3 DEF SelectionIsShown
  <2> QED
    BY <2>4, <2>5
<1>4. ASSUME NEW f \in Flows, SignedIn(f) PROVE SelectionIsShown'
  <2>1. /\ step[f] = "me" /\ principal = Nobody /\ target' = target
        /\ Send(f, "list", generation, selected)
    BY <1>4 DEF SignedIn, Answered, OneSignIn
  <2>2. /\ selected' = selected /\ ~ Awaited(f)
        /\ \A h \in Flows \ {f} : sent'[h] = sent[h] /\ step'[h] = step[h]
    BY <2>1, SendFacts DEF Awaited
  <2> QED
    BY <1>1, <2>1, <2>2 DEF SelectionIsShown
<1>5. ASSUME NEW f \in Flows, NEW k \in Keys, Connect(f, k) PROVE SelectionIsShown'
  <2>1. /\ step[f] = "idle" /\ principal = Nobody
        /\ \A h \in Flows \ {f} : target'[h] = target[h]
        /\ Send(f, "me", generation, selected)
    BY <1>5 DEF Connect, Begin, TypeOK
  <2>2. /\ selected' = selected /\ ~ Awaited(f)
        /\ \A h \in Flows \ {f} : sent'[h] = sent[h] /\ step'[h] = step[h]
    BY <2>1, SendFacts DEF Awaited
  <2> QED
    BY <1>1, <2>1, <2>2 DEF SelectionIsShown
<1>6. CASE Leaves
  BY <1>6 DEF Leaves, SelectionIsShown
<1>7. CASE Stays
  <2>1. UNCHANGED <<principal, selected, detail, step, target, sent>>
    BY <1>7 DEF Stays
  <2> QED
    BY <2>1 DEF SelectionIsShown, Awaited
<1> QED
  BY <1>2, <1>3, <1>4, <1>5, <1>6, <1>7, StepCases

(* What a panel shows was asked for with the principal's key: a question is*)
(* shown only as long as its panel is, and no panel outlives its session.  *)
LEMMA AnswersStep ==
  ASSUME TypeOK, Targets, LateAnswersAreOwn, AnswersAreOwn, AnswersBelong, [Next]_vars
  PROVE  AnswersAreOwn'
<1> USE WorkspaceAssumption
<1> SUFFICES ASSUME NEW h \in Answers', principal' # Nobody
             PROVE  sent'[h].key = principal'.user
  BY DEF AnswersAreOwn
<1>0. h \in asked' /\ step'[h] = "done" /\ h \in Flows
  <2>1. TypeOK'
    BY TypeStep
  <2> QED
    BY <2>1 DEF Answers, TypeOK
<1>1. CASE h \in Answers /\ sent'[h] = sent[h] /\ principal' = principal
  BY <1>1 DEF AnswersAreOwn
<1>2. ASSUME NEW f \in Flows, Continues(f) PROVE sent'[h].key = principal'.user
  <2>1. PICK next \in {"act", "list", "detail"} : Send(f, next, generation, selected)
    BY <1>2 DEF Continues
  <2>2. step'[f] = next /\ \A i \in Flows \ {f} : sent'[i] = sent[i] /\ step'[i] = step[i]
    BY <2>1, SendFacts
  <2>3. h # f /\ h \in asked /\ principal' = principal
    BY <1>0, <1>2, <2>2 DEF Continues
  <2> QED
    BY <1>0, <1>1, <2>2, <2>3 DEF Answers
<1>3. ASSUME NEW f \in Flows, Ends(f) PROVE sent'[h].key = principal'.user
  <2>1. /\ UNCHANGED <<principal, sent>> /\ h \in asked
        /\ \A i \in Flows \ {f} : step'[i] = step[i]
    BY <1>0, <1>3 DEF Ends, End, TypeOK
  <2>2. CASE h = f
    <3>1. step[f] = "act"
      BY <1>3, <2>1, <2>2 DEF Ends, InFlight, AnswersBelong
    <3>2. sent[f].key \in Keys
      <4>1. PICK how \in {"done", "failed"} : /\ End(f, how, generation, selected)
                                              /\ how = "done" => sent[f].key \in Keys
        BY <1>3 DEF Ends
      <4> QED
        BY <1>0, <2>2, <4>1 DEF End, TypeOK
    <3> QED
      BY <2>1, <2>2, <3>1, <3>2 DEF LateAnswersAreOwn
  <2>3. CASE h # f
    BY <1>0, <1>1, <2>1, <2>3 DEF Answers
  <2> QED
    BY <2>2, <2>3
<1>4. ASSUME NEW f \in Flows, SignedIn(f) PROVE sent'[h].key = principal'.user
  BY <1>0, <1>4 DEF SignedIn
<1>5. ASSUME NEW f \in Flows, NEW k \in Keys, Connect(f, k)
      PROVE  sent'[h].key = principal'.user
  BY <1>5 DEF Connect
<1>6. CASE Leaves
  BY <1>6 DEF Leaves, Cleared
<1>7. CASE Stays
  BY <1>0, <1>1, <1>7 DEF Stays, Answers
<1> QED
  BY <1>2, <1>3, <1>4, <1>5, <1>6, <1>7, StepCases

(* The panels are those of the contract shown: they are rendered with it.  *)
LEMMA PanelsStep ==
  ASSUME TypeOK, AnswersBelong, [Next]_vars PROVE AnswersBelong'
<1>1. CASE /\ asked' = asked /\ detail' = detail
           /\ \A f \in asked : target'[f] = target[f] /\ kind'[f] = kind[f]
           /\ \A f \in asked : step'[f] \in {step[f], "done", "failed"}
  BY <1>1 DEF AnswersBelong
<1>2. CASE asked' = {}
  BY <1>2 DEF AnswersBelong
<1>3. CASE UNCHANGED vars \/ Revoke
  BY <1>1, <1>3 DEF vars, Revoke, shown
<1>4. CASE SignOut \/ \E f \in Flows : SignedIn(f) \/ Unauthorized(f)
  BY <1>2, <1>4 DEF SignOut, SignedIn, Unauthorized, Cleared
<1>5. ASSUME NEW f \in Flows, NEW what, NEW c, NEW first, Begin(f, what, c, first)
      PROVE  /\ f \notin asked /\ detail' = detail
             /\ \A g \in Flows \ {f} :
                  target'[g] = target[g] /\ kind'[g] = kind[g] /\ step'[g] = step[g]
             /\ target'[f] = c /\ kind'[f] = what /\ step'[f] = first
  BY <1>5 DEF Begin, Send, shown, TypeOK, AnswersBelong
<1>6. ASSUME NEW f \in Flows, NEW what, NEW c, NEW first, Begin(f, what, c, first),
             asked' = asked
      PROVE  AnswersBelong'
  BY <1>1, <1>5, <1>6 DEF TypeOK
<1>7. ASSUME NEW f \in Flows,
             \/ \E k \in Keys : Connect(f, k)
             \/ \E c \in Contracts : Open(f, c) \/ Upload(f, c)
             \/ Review(f) \/ Refresh(f) \/ Turn(f)
      PROVE  AnswersBelong'
  BY <1>6, <1>7 DEF Connect, Open, Upload, Review, Refresh, Turn
<1>8. ASSUME NEW f \in Flows, NEW panel \in Panels, Ask(f, panel) PROVE AnswersBelong'
  <2>1. /\ Begin(f, panel, detail.contract, "act") /\ detail # Nothing
        /\ asked' = {g \in asked : kind[g] # panel} \cup {f}
    BY <1>8 DEF Ask
  <2>2. asked \subseteq Flows
    BY DEF TypeOK
  <2> QED
    BY <1>5, <2>1, <2>2 DEF AnswersBelong
<1>9. ASSUME NEW f \in Flows, Fails(f) \/ Acted(f) PROVE AnswersBelong'
  <2>1. UNCHANGED <<asked, detail, kind, target>>
    BY <1>9 DEF Fails, Acted, Answered, shown
  <2>2. f \in asked => step'[f] \in {"done", "failed"}
    BY <1>9 DEF Fails, Acted, Answered, Catches, Panels, InFlight, AnswersBelong, Send, End,
                TypeOK
  <2>3. \A g \in Flows \ {f} : step'[g] = step[g]
    BY <1>9 DEF Fails, Acted, Send, End, TypeOK
  <2> QED
    BY <1>1, <2>1, <2>2, <2>3 DEF TypeOK
<1>10. ASSUME NEW f \in Flows, Listed(f) \/ Detailed(f) PROVE AnswersBelong'
  <2>1. f \notin asked /\ UNCHANGED <<kind, target>>
    BY <1>10 DEF Listed, Detailed, Answered, AnswersBelong
  <2>2. asked' = {} \/ UNCHANGED <<asked, detail>>
    BY <1>10 DEF Listed, Detailed
  <2>3. \A g \in Flows \ {f} : step'[g] = step[g]
    BY <1>10 DEF Listed, Detailed, Send, End, TypeOK
  <2> QED
    BY <1>1, <1>2, <2>1, <2>2, <2>3 DEF TypeOK
<1> QED
  BY <1>3, <1>4, <1>7, <1>8, <1>9, <1>10 DEF Next

-----------------------------------------------------------------------------
(* The inductive invariant of the page: sessions do not mix, the list      *)
(* follows the offset and the detail follows the selection.                *)
THEOREM WorkspaceInvariance == Spec => []WorkspaceInv
<1>1. Init => WorkspaceInv
  BY WorkspaceAssumption
  DEF Init, WorkspaceInv, TypeOK, Targets, KeyIsOwn, OneSignIn, FreshLogin,
      LateAnswersAreOwn, SignedOut, OwnContractsOnly, LatestPage, ListFollowsOffset,
      SelectionIsShown, Principals, InFlight, AnswersBelong
<1>2. WorkspaceInv /\ [Next]_vars => WorkspaceInv'
  <2>1. OwnContractsOnly <=> ShownIsOwn /\ AnswersAreOwn
    BY DEF OwnContractsOnly, ShownIsOwn, AnswersAreOwn
  <2>2. OwnContractsOnly' <=> ShownIsOwn' /\ AnswersAreOwn'
    BY DEF OwnContractsOnly, ShownIsOwn, AnswersAreOwn
  <2> QED
    BY <2>1, <2>2, TypeStep, TargetsStep, SignInStep, FreshStep, LateStep, ShownStep,
       PageStep, SelectionStep, AnswersStep, PanelsStep
    DEF WorkspaceInv, ShownInv
<1> QED
  BY <1>1, <1>2, PTL DEF Spec

(* Nobody is shown contracts, in the list, the detail or the panels, that  *)
(* were fetched with another user's key, and the range shown with a list is*)
(* that list's.                                                            *)
THEOREM ShownContractsAreOwn == Spec => []OwnContractsOnly
<1>1. WorkspaceInv => OwnContractsOnly
  BY DEF WorkspaceInv
<1> QED
  BY <1>1, WorkspaceInvariance, PTL

(* The list shown is that of the page at the offset, unless it is awaited. *)
THEOREM ListIsCurrent == Spec => []ListFollowsOffset
<1>1. WorkspaceInv => ListFollowsOffset
  BY DEF WorkspaceInv
<1> QED
  BY <1>1, WorkspaceInvariance, PTL

(* The detail shown is the selected contract's, unless it is awaited.      *)
THEOREM DetailIsSelected == Spec => []SelectionIsShown
<1>1. WorkspaceInv => SelectionIsShown
  BY DEF WorkspaceInv
<1> QED
  BY <1>1, WorkspaceInvariance, PTL
=============================================================================
