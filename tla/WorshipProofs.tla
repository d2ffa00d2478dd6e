----------------------------- MODULE WorshipProofs -----------------------------
(***************************************************************************)
(* The components of MCWorship cohere for any sessions, instances, runs,   *)
(* criteria and bounds, and the dates of a celebration are right for any   *)
(* calendar.                                                               *)
(***************************************************************************)
EXTENDS MCWorship, Sequences, FiniteSetTheorems, WellFoundedInduction, TLAPS

\* Each part takes its own steps or rests.
LEMMA PartsMoveAlone ==
  ASSUME [AllNext]_allVars
  PROVE  /\ [Next]_celebrationVars
         /\ [Order!Next]_(Order!orderVars)
         /\ [Push!Next]_(Push!notificationVars)
         /\ [Login!Next]_(Login!loginVars)
  BY DEF allVars, AllNext, CelebrationStep, OrderStep, PushStep, LoginStep,
         celebrationPart, orderPart, pushPart, loginPart,
         celebrationVars, Order!orderVars, Push!notificationVars, Login!loginVars

-----------------------------------------------------------------------------
(* Logins.                                                                  *)

\* A session goes back to a token that was issued; an unmade token is nobody's.
LoginTokensMade ==
  /\ \A t \in Tokens : token[t] = "unmade" => login[t] = t
  /\ \A t \in Tokens : token[t] # "unmade" => token[login[t]] # "unmade"
  /\ \A c \in Tabs : tab[c].op = "rotate" => token[tab[c].token] # "unmade"

\* The one refresh of a session that never forked is the only one to know of
\* a token of the session.
LoginRotatedAlone ==
  \A c \in Tabs : tab[c].op = "rotate" /\ login[tab[c].token] \notin forked =>
    /\ \A d \in Tabs \ {c} :
         tab[d].op = "rotate" => login[tab[d].token] # login[tab[c].token]
    /\ \A t \in Tokens :
         token[t] = "live" /\ login[t] = login[tab[c].token] => t = tab[c].token

\* Between the invalidation of the links and the new one, the only links that
\* work are those of a request that overlaps.
LoginLinksCleared ==
  (\E c \in Tabs : tab[c].op = "issue") => \A l \in Links \ doubled : link[l] # "live"

LoginsInv == Login!LoginsCohere /\ LoginTokensMade /\ LoginRotatedAlone /\ LoginLinksCleared

-----------------------------------------------------------------------------
LEMMA LoginInitHolds == Login!Init => LoginsInv
  BY ResetsAssumption DEF Login!Init, LoginsInv, Login!LoginsCohere, Login!TypeOK,
         Login!OneTokenPerSession, Login!ResetEndsSessions, Login!OneLinkWorks, LoginTokensMade,
         LoginRotatedAlone, LoginLinksCleared, Login!Idle

\* What a request in progress is, by its operation.
LEMMA LoginRequestsTyped ==
  ASSUME Login!TypeOK, NEW c \in Tabs
  PROVE  /\ tab[c].op \in {"idle", "login", "rotate", "revoke", "forgot", "issue", "reset"}
         /\ tab[c].op = "login" => tab[c].password \in 0..MaxResets
         /\ tab[c].op = "rotate" => tab[c].token \in Tokens
         /\ tab[c].op = "reset" => tab[c].link \in Links
  BY DEF Login!TypeOK, Login!Idle

\* A step that issues no token and starts no refresh.
LEMMA LoginFewerTokensHold ==
  ASSUME LoginsInv, Login!TypeOK', UNCHANGED <<login, proven, forked, late>>,
         \A t \in Tokens : token'[t] = token[t] \/ (token[t] = "live" /\ token'[t] = "revoked"),
         \A c \in Tabs : tab'[c].op = "rotate" => tab'[c] = tab[c],
         \A t \in Tokens : token'[t] = "live" => password' = password
  PROVE  (Login!OneTokenPerSession /\ Login!ResetEndsSessions /\ LoginTokensMade /\ LoginRotatedAlone)'
  <1>1. Login!OneTokenPerSession'
    BY DEF LoginsInv, Login!LoginsCohere, Login!OneTokenPerSession
  <1>2. Login!ResetEndsSessions'
    BY DEF LoginsInv, Login!LoginsCohere, Login!ResetEndsSessions
  <1>3. LoginTokensMade'
    BY LoginRequestsTyped DEF LoginsInv, Login!LoginsCohere, Login!TypeOK, LoginTokensMade
  <1>4. LoginRotatedAlone'
    BY DEF LoginsInv, LoginRotatedAlone
  <1>5. QED
    BY <1>1, <1>2, <1>3, <1>4

\* A step that issues no link and does not open a request for one.
LEMMA LoginFewerLinksHold ==
  ASSUME LoginsInv, UNCHANGED doubled,
         \A l \in Links : link'[l] = "live" => link[l] = "live",
         \A c \in Tabs : tab'[c].op = "issue" => tab[c].op = "issue"
  PROVE  (Login!OneLinkWorks /\ LoginLinksCleared)'
  BY DEF LoginsInv, Login!LoginsCohere, Login!OneLinkWorks, LoginLinksCleared

LEMMA LoginStartsHold ==
  ASSUME LoginsInv, NEW c \in Tabs,
         Login!CheckPassword(c) \/ Login!Ask(c) \/ (\E l \in Links : Login!OpenLink(c, l)) \/ Login!Fail(c)
  PROVE  LoginsInv'
  <1> USE DEF Login!CheckPassword, Login!Ask, Login!OpenLink, Login!Fail, Login!Goto, Login!sessions,
  Login!links
  <1>1. Login!TypeOK'
    BY DEF LoginsInv, Login!LoginsCohere, Login!TypeOK
  <1>2. \A d \in Tabs : tab'[d].op \in {"rotate", "issue"} => tab'[d] = tab[d]
    BY DEF LoginsInv, Login!LoginsCohere, Login!TypeOK, Login!Idle
  <1>3. (Login!OneTokenPerSession /\ Login!ResetEndsSessions /\ LoginTokensMade /\ LoginRotatedAlone)'
    BY <1>1, <1>2, LoginFewerTokensHold
  <1>4. (Login!OneLinkWorks /\ LoginLinksCleared)'
    BY <1>2, LoginFewerLinksHold
  <1>5. QED
    BY <1>1, <1>3, <1>4 DEF LoginsInv, Login!LoginsCohere

LEMMA LoginRevocationsHold ==
  ASSUME LoginsInv,
         \/ \E c \in Tabs : Login!RevokeAll(c) \/ Login!Reset(c)
         \/ \E t \in Tokens : Login!Logout(t)
  PROVE  LoginsInv'
  <1> USE DEF Login!RevokeAll, Login!Reset, Login!Logout, Login!Goto, Login!Revoked, Login!links
  <1>1. Login!TypeOK'
    BY ResetsAssumption, LoginRequestsTyped DEF LoginsInv, Login!LoginsCohere, Login!TypeOK
  <1>2. \A d \in Tabs : tab'[d].op \in {"rotate", "issue"} => tab'[d] = tab[d]
    BY DEF LoginsInv, Login!LoginsCohere, Login!TypeOK, Login!Idle
  <1>3. \A t \in Tokens : token'[t] = token[t] \/ (token[t] = "live" /\ token'[t] = "revoked")
    BY DEF LoginsInv, Login!LoginsCohere, Login!TypeOK
  <1>4. \A t \in Tokens : token'[t] = "live" => password' = password
    BY DEF LoginsInv, Login!LoginsCohere, Login!TypeOK
  <1>5. (Login!OneTokenPerSession /\ Login!ResetEndsSessions /\ LoginTokensMade /\ LoginRotatedAlone)'
    BY <1>1, <1>2, <1>3, <1>4, LoginFewerTokensHold
  <1>6. (Login!OneLinkWorks /\ LoginLinksCleared)'
    BY <1>2, LoginFewerLinksHold DEF LoginsInv, Login!LoginsCohere, Login!TypeOK
  <1>7. QED
    BY <1>1, <1>5, <1>6 DEF LoginsInv, Login!LoginsCohere

LEMMA LoginIssueTokenHolds ==
  ASSUME LoginsInv, NEW c \in Tabs, NEW t \in Tokens, Login!IssueToken(c, t)
  PROVE  LoginsInv'
  <1> USE DEF Login!IssueToken, Login!Goto, Login!links
  <1>0. tab[c].password \in 0..MaxResets /\ login[t] = t /\ token[t] = "unmade"
    BY LoginRequestsTyped DEF LoginsInv, Login!LoginsCohere, LoginTokensMade
  <1>1. Login!TypeOK'
    BY <1>0 DEF LoginsInv, Login!LoginsCohere, Login!TypeOK
  <1>2. \A d \in Tabs : tab'[d].op \in {"rotate", "issue"} => tab'[d] = tab[d]
    BY DEF LoginsInv, Login!LoginsCohere, Login!TypeOK, Login!Idle
  <1>3. \A u \in Tokens : token'[u] = IF u = t THEN "live" ELSE token[u]
    BY DEF LoginsInv, Login!LoginsCohere, Login!TypeOK
  <1>4. \A u \in Tokens \ {t} : token[u] # "unmade" => login[u] # t
    BY <1>0 DEF LoginsInv, LoginTokensMade
  <1>5. Login!OneTokenPerSession'
    BY <1>0, <1>3, <1>4 DEF LoginsInv, Login!LoginsCohere, Login!OneTokenPerSession
  <1>6. Login!ResetEndsSessions'
    BY <1>3 DEF LoginsInv, Login!LoginsCohere, Login!TypeOK, Login!ResetEndsSessions
  <1>7. LoginTokensMade'
    BY <1>2, <1>3, LoginRequestsTyped DEF LoginsInv, Login!LoginsCohere, Login!TypeOK, LoginTokensMade
  <1>8. LoginRotatedAlone'
    BY <1>0, <1>2, <1>3, <1>4, LoginRequestsTyped DEF LoginsInv, Login!LoginsCohere, LoginRotatedAlone,
       LoginTokensMade
  <1>9. (Login!OneLinkWorks /\ LoginLinksCleared)'
    BY <1>2, LoginFewerLinksHold
  <1>10. QED
    BY <1>1, <1>5, <1>6, <1>7, <1>8, <1>9 DEF LoginsInv, Login!LoginsCohere

LEMMA LoginReadTokenHolds ==
  ASSUME LoginsInv, NEW c \in Tabs, NEW t \in Tokens, Login!ReadToken(c, t)
  PROVE  LoginsInv'
  <1> USE DEF Login!ReadToken, Login!Goto, Login!links
  <1>1. Login!TypeOK'
    BY DEF LoginsInv, Login!LoginsCohere, Login!TypeOK
  <1>2. \A d \in Tabs : tab'[d].op = "issue" => tab'[d] = tab[d]
    BY DEF LoginsInv, Login!LoginsCohere, Login!TypeOK, Login!Idle
  <1>3. (Login!OneLinkWorks /\ LoginLinksCleared)'
    BY <1>2, LoginFewerLinksHold
  <1>4. Login!OneTokenPerSession' /\ Login!ResetEndsSessions'
    BY DEF LoginsInv, Login!LoginsCohere, Login!OneTokenPerSession, Login!ResetEndsSessions
  <1>5. LoginTokensMade'
    BY DEF LoginsInv, Login!LoginsCohere, Login!TypeOK, LoginTokensMade, Login!Idle
  <1>6. LoginRotatedAlone'
    <2>1. CASE UNCHANGED forked /\ tab' = [tab EXCEPT ![c] = [op |-> "revoke"]]
      BY <2>1 DEF LoginsInv, Login!LoginsCohere, Login!TypeOK, LoginRotatedAlone, Login!Idle
    <2>2. CASE /\ token[t] = "live"
               /\ tab' = [tab EXCEPT ![c] = [op |-> "rotate", token |-> t]]
               /\ forked' = IF \E d \in Tabs \ {c} : tab[d] = [op |-> "rotate", token |-> t]
                            THEN forked \cup {login[t]} ELSE forked
      <3>1. SUFFICES ASSUME NEW d \in Tabs, tab'[d].op = "rotate",
                            login[tab'[d].token] \notin forked'
                     PROVE  /\ \A e \in Tabs \ {d} :
                                 tab'[e].op = "rotate" => login[tab'[e].token] # login[tab'[d].token]
                            /\ \A u \in Tokens :
                                 token[u] = "live" /\ login[u] = login[tab'[d].token] => u = tab'[d].token
        BY DEF LoginRotatedAlone
      <3>2. \A e \in Tabs : tab'[e] = IF e = c THEN [op |-> "rotate", token |-> t] ELSE tab[e]
        BY <2>2 DEF LoginsInv, Login!LoginsCohere, Login!TypeOK
      <3>3. \A e \in Tabs : tab[e].op = "rotate" => tab[e] = [op |-> "rotate", token |-> tab[e].token]
        BY DEF LoginsInv, Login!LoginsCohere, Login!TypeOK, Login!Idle
      <3>4. forked \subseteq forked'
        BY <2>2
      <3>5. ASSUME NEW e \in Tabs \ {c}, tab[e].op = "rotate", login[tab[e].token] = login[t]
            PROVE  login[t] \in forked'
        BY <2>2, <3>3, <3>4, <3>5 DEF LoginsInv, LoginRotatedAlone
      <3>6. CASE d = c
        BY <2>2, <3>1, <3>2, <3>4, <3>5, <3>6 DEF LoginsInv, Login!LoginsCohere, Login!OneTokenPerSession
      <3>7. CASE d # c
        BY <3>1, <3>2, <3>4, <3>5, <3>7 DEF LoginsInv, LoginRotatedAlone
      <3>8. QED
        BY <3>6, <3>7
    <2>3. QED
      BY <2>1, <2>2
  <1>7. QED
    BY <1>1, <1>3, <1>4, <1>5, <1>6 DEF LoginsInv, Login!LoginsCohere

LEMMA LoginRotateHolds ==
  ASSUME LoginsInv, NEW c \in Tabs, NEW new \in Tokens, Login!Rotate(c, new)
  PROVE  LoginsInv'
  <1> DEFINE old == tab[c].token
  <1> USE DEF Login!Rotate, Login!Goto, Login!links
  <1>0. /\ old \in Tokens /\ token[old] # "unmade" /\ token[new] = "unmade" /\ login[new] = new
        /\ token[login[old]] # "unmade" /\ login[old] \in Tokens
    BY LoginRequestsTyped DEF LoginsInv, Login!LoginsCohere, Login!TypeOK, LoginTokensMade
  <1>1. Login!TypeOK'
    BY <1>0 DEF LoginsInv, Login!LoginsCohere, Login!TypeOK
  <1>2. \A d \in Tabs : tab'[d].op \in {"rotate", "issue"} => d # c /\ tab'[d] = tab[d]
    BY DEF LoginsInv, Login!LoginsCohere, Login!TypeOK, Login!Idle
  <1>3. /\ \A u \in Tokens : token'[u] = IF u = new THEN "live" ELSE IF u = old THEN "revoked" ELSE token[u]
        /\ \A u \in Tokens : login'[u] = IF u = new THEN login[old] ELSE login[u]
        /\ \A u \in Tokens : proven'[u] = IF u = new THEN proven[old] ELSE proven[u]
        /\ tab[c].op = "rotate" /\ forked' = forked
    BY <1>0 DEF LoginsInv, Login!LoginsCohere, Login!TypeOK
  <1>4. ASSUME NEW u \in Tokens, u # old, token[u] = "live", login[u] = login[old]
        PROVE  login[old] \in forked
    BY <1>4 DEF LoginsInv, LoginRotatedAlone
  <1>5. Login!OneTokenPerSession'
    BY <1>0, <1>3, <1>4 DEF LoginsInv, Login!LoginsCohere, Login!OneTokenPerSession
  <1>6. Login!ResetEndsSessions'
    BY <1>0, <1>3 DEF LoginsInv, Login!LoginsCohere, Login!ResetEndsSessions
  <1>a. (Login!OneLinkWorks /\ LoginLinksCleared)'
    BY <1>2, LoginFewerLinksHold
  <1> HIDE DEF Login!Rotate, Login!Goto, Login!links
  <1>7. LoginTokensMade'
    <2> HIDE DEF old
    <2>1. \A u \in Tokens : token'[u] # "unmade" <=> (token[u] # "unmade" \/ u = new)
      BY <1>0, <1>3
    <2>2. \A u \in Tokens : login[u] \in Tokens
      BY DEF LoginsInv, Login!LoginsCohere, Login!TypeOK
    <2>3. \A d \in Tabs : tab'[d].op = "rotate" => token'[tab'[d].token] # "unmade"
      BY <1>2, <2>1, LoginRequestsTyped DEF LoginsInv, Login!LoginsCohere, LoginTokensMade
    <2>4. \A u \in Tokens : token'[u] = "unmade" => login'[u] = u
      BY <1>0, <1>3, <2>1 DEF LoginsInv, LoginTokensMade
    <2>5. \A u \in Tokens : token'[u] # "unmade" => token'[login'[u]] # "unmade"
      BY <1>0, <1>3, <2>1, <2>2 DEF LoginsInv, LoginTokensMade
    <2>6. QED
      BY <2>3, <2>4, <2>5 DEF LoginTokensMade
  <1>8. LoginRotatedAlone'
    <2>1. SUFFICES ASSUME NEW d \in Tabs, tab'[d].op = "rotate",
                          login'[tab'[d].token] \notin forked'
                   PROVE  /\ \A e \in Tabs \ {d} :
                               tab'[e].op = "rotate" => login'[tab'[e].token] # login'[tab'[d].token]
                          /\ \A u \in Tokens :
                               token'[u] = "live" /\ login'[u] = login'[tab'[d].token] => u = tab'[d].token
      BY DEF LoginRotatedAlone
    <2>2. \A e \in Tabs : tab'[e].op = "rotate" =>
            /\ e # c /\ tab[e].op = "rotate" /\ tab'[e].token = tab[e].token
            /\ tab[e].token \in Tokens \ {new} /\ login'[tab'[e].token] = login[tab[e].token]
      BY <1>0, <1>2, <1>3, LoginRequestsTyped DEF LoginsInv, Login!LoginsCohere, LoginTokensMade
    <2>3. login[tab[d].token] \notin forked /\ login[tab[d].token] # login[old]
      BY <1>3, <2>1, <2>2 DEF LoginsInv, LoginRotatedAlone
    <2> HIDE DEF old
    <2>4. ASSUME NEW e \in Tabs \ {d}, tab'[e].op = "rotate"
          PROVE  login'[tab'[e].token] # login'[tab'[d].token]
      BY <2>1, <2>2, <2>3, <2>4 DEF LoginsInv, LoginRotatedAlone
    <2>5. ASSUME NEW u \in Tokens, token'[u] = "live", login'[u] = login'[tab'[d].token]
          PROVE  u = tab'[d].token
      BY <1>0, <1>3, <2>1, <2>2, <2>3, <2>5 DEF LoginsInv, LoginRotatedAlone
    <2>6. QED
      BY <2>4, <2>5
  <1>9. QED
    BY <1>1, <1>5, <1>6, <1>7, <1>8, <1>a DEF LoginsInv, Login!LoginsCohere

LEMMA LoginLinksHold ==
  ASSUME LoginsInv, NEW c \in Tabs, Login!InvalidateLinks(c) \/ \E l \in Links : Login!IssueLink(c, l)
  PROVE  LoginsInv'
  <1> USE DEF Login!InvalidateLinks, Login!IssueLink, Login!Goto, Login!sessions
  <1>1. Login!TypeOK'
    BY DEF LoginsInv, Login!LoginsCohere, Login!TypeOK
  <1>2. \A d \in Tabs : tab'[d].op = "rotate" => tab'[d] = tab[d]
    BY DEF LoginsInv, Login!LoginsCohere, Login!TypeOK, Login!Idle
  <1>3. (Login!OneTokenPerSession /\ Login!ResetEndsSessions /\ LoginTokensMade /\ LoginRotatedAlone)'
    BY <1>1, <1>2, LoginFewerTokensHold
  <1>4. CASE Login!InvalidateLinks(c)
    <2>1. \A l \in Links : link'[l] # "live"
      BY <1>4
    <2>2. QED
      BY <1>1, <1>3, <2>1 DEF LoginsInv, Login!LoginsCohere, Login!OneLinkWorks, LoginLinksCleared
  <1>5. ASSUME NEW l \in Links, Login!IssueLink(c, l)
        PROVE  (Login!OneLinkWorks /\ LoginLinksCleared)'
    <2>1. \A k \in Links \ doubled : link[k] # "live"
      BY <1>5 DEF LoginsInv, LoginLinksCleared
    <2>2. \A k \in Links \ {l} : link'[k] = link[k]
      BY <1>5 DEF LoginsInv, Login!LoginsCohere, Login!TypeOK
    <2>3. \A d \in Tabs : tab'[d].op = "issue" => d # c /\ tab[d].op = "issue"
      BY <1>5 DEF LoginsInv, Login!LoginsCohere, Login!TypeOK, Login!Idle
    <2>4. doubled \subseteq doubled' /\ ((\E d \in Tabs \ {c} : tab[d].op = "issue") => l \in doubled')
      BY <1>5
    <2>5. QED
      BY <2>1, <2>2, <2>3, <2>4 DEF Login!OneLinkWorks, LoginLinksCleared
  <1>6. QED
    BY <1>1, <1>3, <1>4, <1>5 DEF LoginsInv, Login!LoginsCohere

-----------------------------------------------------------------------------
LEMMA LoginNextHolds ==
  ASSUME LoginsInv, [Login!Next]_(Login!loginVars)
  PROVE  LoginsInv'
  <1>1. CASE UNCHANGED Login!loginVars
    BY <1>1 DEF Login!loginVars, LoginsInv, Login!LoginsCohere, Login!TypeOK,
                Login!OneTokenPerSession, Login!ResetEndsSessions, Login!OneLinkWorks, LoginTokensMade,
                LoginRotatedAlone, LoginLinksCleared
  <1>2. QED
    BY <1>1, LoginStartsHold, LoginRevocationsHold, LoginIssueTokenHolds, LoginReadTokenHolds,
       LoginRotateHolds, LoginLinksHold DEF Login!Next

\* However the tabs interleave: a session has one working refresh token unless
\* two refreshes of it overlapped, no session outlives a reset it did not race
\* with, and one reset link works unless two requests for one overlapped.
THEOREM LoginsStayCoherent == AllSpec => []LoginsCohere
  <1>1. AllInit => LoginsInv
    BY LoginInitHolds DEF AllInit
  <1>2. LoginsInv /\ [AllNext]_allVars => LoginsInv'
    BY PartsMoveAlone, LoginNextHolds
  <1>3. LoginsInv => LoginsCohere
    BY DEF LoginsInv, LoginsCohere
  <1>4. QED
    BY <1>1, <1>2, <1>3, PTL DEF AllSpec
-----------------------------------------------------------------------------
(* ServiceOrders.                                                           *)

LEMMA OrderCounts == \A S : Order!Cardinality(S) = Cardinality(S)
  BY DEF Order!Cardinality, Cardinality

\* A publish that wrote the row has the row for itself.
OrderWritten ==
  \A c \in Sessions : request[c].op = "written" =>
    /\ Order!Live(request[c].on)
    /\ \A d \in Sessions : request[d].op = "written" /\ request[d].on = request[c].on => d = c

\* The publishes that have read the order of an instance.
OrderPublishers(i) == {c \in Sessions : request[c].op \in {"publish", "written"} /\ request[c].on = i}

OrderPublished(i) == Order!Live(i) /\ service[i].order = "published"

\* A publish under way is a time the instance may still be taken back, and the
\* first one has ended when its order is published.
OrderTakenBack ==
  \A i \in Services :
    /\ OrderPublished(i) => undone[i] + Cardinality(OrderPublishers(i)) < Cardinality(Sessions)
    /\ service[i] = Order!Gone => undone[i] < Cardinality(Sessions)
    /\ service[i] # Order!Gone /\ ~OrderPublished(i) => undone[i] = 0

\* The runs that pushed an instance and have not marked it, and those that
\* have found it and have not pushed it.
OrderMarking(i) == {r \in Runs : reminder[r].op = "mark" /\ reminder[r].on = i}
OrderWaiting(i) == {r \in Runs : reminder[r].op \in {"push", "mark"} /\ i \in reminder[r].left}

\* No run finds the instance any more.
OrderSettled(i) == service[i] = Order!Gone \/ (Order!Live(i) /\ service[i].reminded)

\* Runs are about instances that were made, and push each once.
OrderRunsKnow ==
  /\ \A i \in Services : OrderMarking(i) \cap OrderWaiting(i) = {}
  /\ \A i \in Services : OrderMarking(i) # {} => pushes[i] > 0
  /\ \A i \in Services : OrderMarking(i) \cup OrderWaiting(i) # {} => service[i] # Order!NoRow
  /\ \A i \in Services : Order!Live(i) /\ service[i].reminded => pushes[i] > 0

\* Until the instance is settled each push is about to be marked or failed;
\* from then on those that wait are all that will push it.
OrderPushesCounted ==
  \A i \in Services :
    /\ ~OrderSettled(i) => pushes[i] <= Cardinality(OrderMarking(i)) + orderFaults
    /\ OrderSettled(i) => pushes[i] + Cardinality(OrderWaiting(i)) <= Cardinality(Runs) + orderFaults

OrdersInv ==
  Order!TypeOK /\ Order!ToldIsPublished /\ OrderWritten /\ OrderTakenBack /\ OrderRunsKnow /\ OrderPushesCounted

-----------------------------------------------------------------------------
\* The number of a finite set's members when one comes or goes.
LEMMA MembersCounted ==
  ASSUME NEW S, IsFiniteSet(S), NEW A \in SUBSET S, NEW x \in S
  PROVE  /\ Cardinality(S) \in Nat /\ Cardinality(A) \in Nat /\ Cardinality(A) <= Cardinality(S)
         /\ Cardinality(A \cup {x}) = IF x \in A THEN Cardinality(A) ELSE Cardinality(A) + 1
         /\ Cardinality(A \ {x}) = IF x \in A THEN Cardinality(A) - 1 ELSE Cardinality(A)
         /\ x \in A => Cardinality(A) > 0
  <1>1. IsFiniteSet(A) /\ Cardinality(A) <= Cardinality(S)
    BY FS_Subset
  <1>2. Cardinality(S) \in Nat /\ Cardinality(A) \in Nat
    BY <1>1, FS_CardinalityType
  <1>3. Cardinality(A \cup {x}) = IF x \in A THEN Cardinality(A) ELSE Cardinality(A) + 1
    BY <1>1, FS_AddElement
  <1>4. Cardinality(A \ {x}) = IF x \in A THEN Cardinality(A) - 1 ELSE Cardinality(A)
    BY <1>1, FS_RemoveElement
  <1>5. x \in A => Cardinality(A) > 0
    BY <1>1, <1>2, FS_EmptySet
  <1>6. QED
    BY <1>1, <1>2, <1>3, <1>4, <1>5

\* Two sets without a common member.
LEMMA ApartCounted ==
  ASSUME NEW S, IsFiniteSet(S), NEW A \in SUBSET S, NEW B \in SUBSET S, A \cap B = {}
  PROVE  Cardinality(A) + Cardinality(B) <= Cardinality(S)
  <1>1. IsFiniteSet(A) /\ IsFiniteSet(B) /\ IsFiniteSet(A \cup B) /\ Cardinality(A \cup B) <= Cardinality(S)
    BY FS_Subset
  <1>2. Cardinality(A \cup B) = Cardinality(A) + Cardinality(B) - Cardinality(A \cap B)
    BY <1>1, FS_Union
  <1>3. Cardinality(A \cap B) = 0
    BY FS_EmptySet
  <1>4. Cardinality(A) \in Nat /\ Cardinality(B) \in Nat /\ Cardinality(S) \in Nat /\ Cardinality(A \cup B) \in Nat
    BY <1>1, FS_CardinalityType
  <1>5. QED
    BY <1>1, <1>2, <1>3, <1>4

\* Smaller sets have fewer members.
LEMMA FewerCounted ==
  ASSUME NEW S, IsFiniteSet(S), NEW A \in SUBSET S, NEW B \in SUBSET A
  PROVE  Cardinality(B) \in Nat /\ Cardinality(A) \in Nat /\ Cardinality(B) <= Cardinality(A)
  <1>1. IsFiniteSet(A)
    BY FS_Subset
  <1>2. IsFiniteSet(B) /\ Cardinality(B) <= Cardinality(A)
    BY <1>1, FS_Subset
  <1>3. QED
    BY <1>1, <1>2, FS_CardinalityType

LEMMA OrderInitHolds == Order!Init => OrdersInv
  <1> SUFFICES ASSUME Order!Init PROVE OrdersInv
    OBVIOUS
  <1> USE DEF Order!Init, Order!NoRow, Order!Gone, Order!Idle, Order!Live
  <1>1. Order!TypeOK /\ Order!ToldIsPublished /\ OrderWritten
    BY DEF Order!TypeOK, Order!ToldIsPublished, OrderWritten
  <1>2. OrderTakenBack
    BY DEF OrderTakenBack, OrderPublished
  <1>3. \A i \in Services : OrderMarking(i) = {} /\ OrderWaiting(i) = {}
    BY DEF OrderMarking, OrderWaiting
  <1>4. Cardinality({}) = 0
    BY FS_EmptySet
  <1>5. OrderRunsKnow
    BY <1>3 DEF OrderRunsKnow
  <1>6. \A i \in Services : ~OrderSettled(i) /\ pushes[i] = 0
    BY DEF OrderSettled
  <1>7. OrderPushesCounted
    BY SMTT(20), <1>3, <1>4, <1>6 DEF OrderPushesCounted
  <1>8. QED
    BY <1>1, <1>2, <1>5, <1>7 DEF OrdersInv

\* The invariant says what the run checks.
LEMMA OrdersInvCoheres == OrdersInv => Order!OrdersCohere
  <1> SUFFICES ASSUME OrdersInv PROVE Order!OrdersCohere
    OBVIOUS
  <1>1. ASSUME NEW i \in Services PROVE undone[i] < Cardinality(Sessions)
    <2>1. Cardinality(Sessions) \in Nat /\ Cardinality(Sessions) > 0
      BY ClientsAreFinite, FS_CardinalityType, FS_EmptySet
    <2>2. OrderPublishers(i) \in SUBSET Sessions /\ undone[i] \in Nat
      BY DEF OrdersInv, Order!TypeOK, OrderPublishers
    <2>3. Cardinality(OrderPublishers(i)) \in Nat
      BY <2>2, ClientsAreFinite, FewerCounted
    <2>4. QED
      BY <2>1, <2>2, <2>3 DEF OrdersInv, OrderTakenBack
  <1>2. ASSUME NEW i \in Services
        PROVE  pushes[i] <= Cardinality(Runs) + orderFaults
    <2>1. OrderMarking(i) \in SUBSET Runs /\ OrderWaiting(i) \in SUBSET Runs /\ pushes[i] \in Nat /\ orderFaults \in Nat
      BY DEF OrdersInv, Order!TypeOK, OrderMarking, OrderWaiting
    <2>2. /\ Cardinality(OrderMarking(i)) \in Nat /\ Cardinality(OrderWaiting(i)) \in Nat
          /\ Cardinality(OrderMarking(i)) <= Cardinality(Runs) /\ Cardinality(Runs) \in Nat
      BY <2>1, ClientsAreFinite, FewerCounted
    <2>3. QED
      BY <2>1, <2>2 DEF OrdersInv, OrderPushesCounted
  <1>3. QED
    BY <1>1, <1>2, OrderCounts
       DEF OrdersInv, OrderRunsKnow, Order!OrdersCohere, Order!UndoneOnlyByOverlap, Order!RemindedIsPushed

-----------------------------------------------------------------------------
(* What an action keeps when it leaves part of the state alone.             *)

\* A row stays, is removed while nobody has it locked, or keeps its order
\* published or not.
OrderRowMoves(i) ==
  \/ service'[i] = service[i]
  \/ service'[i] = Order!Gone /\ ~Order!Locked(i)
  \/ /\ service[i] # Order!Gone /\ service'[i] # Order!Gone
     /\ OrderPublished(i)' <=> OrderPublished(i)
     /\ Order!Live(i) => Order!Live(i)'

LEMMA OrderWrittenLocks == \A i : Order!Locked(i) <=> \E c \in Sessions : request[c] = [op |-> "written", on |-> i]
  BY DEF Order!Locked

\* The notices, when no lock is lost but by a publish or a fault.
LEMMA OrderToldRest ==
  ASSUME OrdersInv, orderFaults' \in Nat, orderFaults' >= orderFaults,
         told' \cup notices' \subseteq told \cup notices,
         \A i \in Services : OrderRowMoves(i),
         \A i \in Services : Order!Locked(i) => Order!Locked(i)' \/ orderFaults' > 0 \/ OrderPublished(i)'
  PROVE  Order!ToldIsPublished'
  <1> SUFFICES ASSUME NEW i \in told' \cup notices'
               PROVE  \/ service'[i] = Order!Gone \/ Order!Locked(i)' \/ orderFaults' > 0
                      \/ (Order!Live(i)' /\ service'[i].order = "published")
    BY DEF Order!ToldIsPublished
  <1>1. i \in told \cup notices /\ i \in Services
    BY DEF OrdersInv, Order!TypeOK
  <1>2. \/ service[i] = Order!Gone \/ Order!Locked(i) \/ orderFaults > 0 \/ OrderPublished(i)
    BY <1>1 DEF OrdersInv, Order!ToldIsPublished, OrderPublished
  <1>3. orderFaults > 0 => orderFaults' > 0
    BY DEF OrdersInv, Order!TypeOK
  <1>4. OrderPublished(i) => service'[i] = Order!Gone \/ OrderPublished(i)'
    BY <1>1 DEF OrderRowMoves, OrderPublished, Order!Live
  <1>5. service[i] = Order!Gone => service'[i] = Order!Gone
    BY <1>1 DEF OrderRowMoves
  <1>6. QED
    BY <1>1, <1>2, <1>3, <1>4, <1>5 DEF OrderPublished

\* The locks, when none is taken.
LEMMA OrderWrittenRest ==
  ASSUME OrdersInv, \A i \in Services : OrderRowMoves(i),
         \A c \in Sessions : request'[c].op = "written" => request'[c] = request[c]
  PROVE  OrderWritten'
  <1> SUFFICES ASSUME NEW c \in Sessions, request'[c].op = "written"
               PROVE  /\ service'[request'[c].on].row = "live"
                      /\ \A d \in Sessions : request'[d].op = "written" /\ request'[d].on = request'[c].on => d = c
    BY DEF OrderWritten, Order!Live
  <1>1. /\ request'[c] = request[c] /\ request[c].on \in Services /\ Order!Live(request[c].on)
        /\ request[c] = [op |-> "written", on |-> request[c].on]
    BY DEF OrdersInv, Order!TypeOK, OrderWritten, Order!Idle
  <1>2. Order!Locked(request[c].on)
    BY <1>1 DEF Order!Locked
  <1>3. service'[request[c].on].row = "live"
    BY <1>1, <1>2 DEF OrderRowMoves, Order!Live, Order!Gone
  <1>4. QED
    BY <1>1, <1>3 DEF OrdersInv, OrderWritten

\* The publishes of an instance are connections.
LEMMA OrderPublishersCounted ==
  ASSUME NEW i
  PROVE  OrderPublishers(i) \in SUBSET Sessions /\ Cardinality(OrderPublishers(i)) \in Nat
         /\ Cardinality(OrderPublishers(i)) <= Cardinality(Sessions) /\ Cardinality(Sessions) \in Nat
         /\ Cardinality(Sessions) > 0
  <1>1. OrderPublishers(i) \in SUBSET Sessions
    BY DEF OrderPublishers
  <1>2. Cardinality(Sessions) > 0 /\ Cardinality(Sessions) \in Nat
    BY ClientsAreFinite, FS_EmptySet, FS_CardinalityType
  <1>3. QED
    BY <1>1, <1>2, ClientsAreFinite, FewerCounted

\* What may still be taken back, when nobody starts to publish what is published.
LEMMA OrderTakenBackRest ==
  ASSUME OrdersInv, UNCHANGED undone, \A i \in Services : OrderRowMoves(i),
         \A i \in Services : OrderPublished(i)' => OrderPublishers(i)' \subseteq OrderPublishers(i)
  PROVE  OrderTakenBack'
  <1> SUFFICES ASSUME NEW i \in Services
               PROVE  /\ OrderPublished(i)' => undone[i] + Cardinality(OrderPublishers(i)') < Cardinality(Sessions)
                      /\ service'[i] = Order!Gone => undone[i] < Cardinality(Sessions)
                      /\ service'[i] # Order!Gone /\ ~OrderPublished(i)' => undone[i] = 0
    BY DEF OrderTakenBack
  <1>1. /\ OrderPublished(i) => undone[i] + Cardinality(OrderPublishers(i)) < Cardinality(Sessions)
        /\ service[i] = Order!Gone => undone[i] < Cardinality(Sessions)
        /\ service[i] # Order!Gone /\ ~OrderPublished(i) => undone[i] = 0
        /\ undone[i] \in Nat
    BY DEF OrdersInv, OrderTakenBack, Order!TypeOK
  <1>2. /\ OrderPublished(i) => service[i] # Order!Gone
        /\ OrderPublished(i)' => service'[i] # Order!Gone
        /\ service'[i] = service[i] => (OrderPublished(i)' <=> OrderPublished(i))
    BY DEF OrderPublished, Order!Live, Order!Gone
  <1>3. undone[i] < Cardinality(Sessions)
    BY <1>1, <1>2, OrderPublishersCounted
  <1>4. OrderPublished(i)' => OrderPublished(i)
    BY <1>2 DEF OrderRowMoves
  <1>5. OrderPublished(i)' => Cardinality(OrderPublishers(i)') \in Nat
                              /\ Cardinality(OrderPublishers(i)') <= Cardinality(OrderPublishers(i))
    BY OrderPublishersCounted, ClientsAreFinite, FewerCounted
  <1>6. service'[i] # Order!Gone /\ ~OrderPublished(i)' => service[i] # Order!Gone /\ ~OrderPublished(i)
    BY <1>2 DEF OrderRowMoves
  <1>7. QED
    BY <1>1, <1>3, <1>4, <1>5, <1>6, OrderPublishersCounted

\* The runs about an instance.
LEMMA OrderRunsCounted ==
  ASSUME OrdersInv, NEW i \in Services
  PROVE  /\ OrderMarking(i) \in SUBSET Runs /\ OrderWaiting(i) \in SUBSET Runs
         /\ Cardinality(OrderMarking(i)) \in Nat /\ Cardinality(OrderWaiting(i)) \in Nat
         /\ Cardinality(Runs) \in Nat
         /\ Cardinality(OrderMarking(i)) + Cardinality(OrderWaiting(i)) <= Cardinality(Runs)
         /\ pushes[i] \in Nat /\ orderFaults \in Nat
  <1>1. OrderMarking(i) \in SUBSET Runs /\ OrderWaiting(i) \in SUBSET Runs
    BY DEF OrderMarking, OrderWaiting
  <1>2. Cardinality(OrderMarking(i)) + Cardinality(OrderWaiting(i)) <= Cardinality(Runs)
    BY <1>1, ClientsAreFinite, ApartCounted DEF OrdersInv, OrderRunsKnow
  <1>3. QED
    BY <1>1, <1>2, ClientsAreFinite, FewerCounted DEF OrdersInv, Order!TypeOK

\* The reminders, when none takes a step.
LEMMA OrderRunsRest ==
  ASSUME OrdersInv, UNCHANGED <<reminder, pushes>>, orderFaults' \in Nat, orderFaults' >= orderFaults,
         \A i \in Services : service[i] # Order!NoRow => service'[i] # Order!NoRow,
         \A i \in Services : OrderSettled(i) => OrderSettled(i)',
         \A i \in Services : Order!Live(i)' /\ service'[i].reminded => Order!Live(i) /\ service[i].reminded
  PROVE  OrderRunsKnow' /\ OrderPushesCounted'
  <1>1. \A i \in Services : OrderMarking(i)' = OrderMarking(i) /\ OrderWaiting(i)' = OrderWaiting(i)
    BY DEF OrderMarking, OrderWaiting
  <1>2. OrderRunsKnow'
    BY <1>1 DEF OrdersInv, OrderRunsKnow
  <1>3. ASSUME NEW i \in Services
        PROVE  /\ ~OrderSettled(i)' => pushes[i] <= Cardinality(OrderMarking(i)) + orderFaults'
               /\ OrderSettled(i)' => pushes[i] + Cardinality(OrderWaiting(i)) <= Cardinality(Runs) + orderFaults'
    BY OrderRunsCounted DEF OrdersInv, OrderPushesCounted
  <1>4. QED
    BY <1>1, <1>2, <1>3 DEF OrderPushesCounted

-----------------------------------------------------------------------------
(* Instances made, changed and removed, and the orders.                     *)

\* An order written to a row by hand leaves the requests alone.
LEMMA OrderRowWritten ==
  ASSUME OrdersInv, Order!TypeOK', UNCHANGED <<request, notices, reminder, orderFaults, told, pushes, undone>>,
         \A i \in Services : OrderRowMoves(i),
         \A i \in Services : service[i] # Order!NoRow => service'[i] # Order!NoRow,
         \A i \in Services : OrderSettled(i) => OrderSettled(i)',
         \A i \in Services : Order!Live(i)' /\ service'[i].reminded => Order!Live(i) /\ service[i].reminded
  PROVE  OrdersInv'
  <1>0. orderFaults \in Nat
    BY DEF OrdersInv, Order!TypeOK
  <1>1. \A i \in Services : Order!Locked(i)' <=> Order!Locked(i)
    BY DEF Order!Locked
  <1>2. \A i \in Services : OrderPublishers(i)' = OrderPublishers(i)
    BY DEF OrderPublishers
  <1>3. Order!ToldIsPublished' /\ OrderWritten'
    BY <1>0, <1>1, OrderToldRest, OrderWrittenRest
  <1>4. OrderTakenBack'
    BY <1>2, OrderTakenBackRest
  <1>5. OrderRunsKnow' /\ OrderPushesCounted'
    BY <1>0, OrderRunsRest
  <1>6. QED
    BY <1>3, <1>4, <1>5 DEF OrdersInv

LEMMA OrderRowsKeep ==
  ASSUME OrdersInv, NEW i \in Services,
         \/ Order!CreateInstance(i)
         \/ \E status \in Order!Statuses : Order!UpdateInstance(i, status)
         \/ Order!RemoveInstance(i)
  PROVE  OrdersInv'
  <1> USE DEF Order!CreateInstance, Order!UpdateInstance, Order!RemoveInstance, Order!Write, Order!Live,
              Order!NoRow, Order!Gone
  <1>1. Order!TypeOK'
    <2>1. PICK new \in {Order!Gone} \cup [row : {"live"}, status : Order!Statuses,
                                         order : {"none", "draft", "published"}, reminded : BOOLEAN] :
            service' = [service EXCEPT ![i] = new]
      <3>1. CASE Order!CreateInstance(i)
        <4>1. service' = [service EXCEPT ![i] =
                            [row |-> "live", status |-> "draft", order |-> "none", reminded |-> FALSE]]
          BY <3>1
        <4>2. QED
          BY <4>1 DEF Order!Statuses
      <3>2. ASSUME NEW status \in Order!Statuses, Order!UpdateInstance(i, status)
            PROVE  \E new \in [row : {"live"}, status : Order!Statuses,
                               order : {"none", "draft", "published"}, reminded : BOOLEAN] :
                     service' = [service EXCEPT ![i] = new]
        <4>1. service[i] \in [row : {"live"}, status : Order!Statuses,
                              order : {"none", "draft", "published"}, reminded : BOOLEAN]
          BY <3>2 DEF OrdersInv, Order!TypeOK
        <4>2. service' = [service EXCEPT ![i] = [service[i] EXCEPT !.status = status]]
          BY <3>2
        <4>3. [service[i] EXCEPT !.status = status] \in [row : {"live"}, status : Order!Statuses,
                              order : {"none", "draft", "published"}, reminded : BOOLEAN]
          BY <4>1
        <4>4. QED
          BY <4>2, <4>3
      <3>3. CASE Order!RemoveInstance(i)
        BY <3>3
      <3>4. QED
        BY <3>1, <3>2, <3>3
    <2>2. UNCHANGED <<request, notices, reminder, orderFaults, told, pushes, undone>>
      OBVIOUS
    <2>3. QED
      BY <2>1, <2>2 DEF OrdersInv, Order!TypeOK
  <1>2. \A j \in Services \ {i} : service'[j] = service[j]
    BY DEF OrdersInv, Order!TypeOK
  <1>3. /\ OrderRowMoves(i) /\ service'[i] # Order!NoRow
        /\ OrderSettled(i) => OrderSettled(i)'
        /\ Order!Live(i)' /\ service'[i].reminded => Order!Live(i) /\ service[i].reminded
    BY DEF OrdersInv, Order!TypeOK, OrderRowMoves, OrderPublished, OrderSettled
  <1>4. \A j \in Services \ {i} :
          /\ OrderRowMoves(j) /\ (service[j] # Order!NoRow => service'[j] # Order!NoRow)
          /\ OrderSettled(j) => OrderSettled(j)'
          /\ Order!Live(j)' /\ service'[j].reminded => Order!Live(j) /\ service[j].reminded
    BY <1>2 DEF OrderRowMoves, OrderSettled
  <1> HIDE DEF Order!CreateInstance, Order!UpdateInstance, Order!RemoveInstance, Order!Live, Order!NoRow,
  Order!Gone
  <1>5. UNCHANGED <<request, notices, reminder, orderFaults, told, pushes, undone>>
    BY DEF Order!CreateInstance, Order!UpdateInstance, Order!RemoveInstance
  <1>6. QED
    BY <1>1, <1>3, <1>4, <1>5, OrderRowWritten

\* A request that begins, goes on or gives up without writing a row.
LEMMA OrderRequestMoves ==
  ASSUME OrdersInv, Order!TypeOK', UNCHANGED <<service, reminder, pushes, undone>>,
         orderFaults' \in Nat, orderFaults' >= orderFaults,
         told' \cup notices' \subseteq told \cup notices,
         \A i \in Services : Order!Locked(i) => Order!Locked(i)' \/ orderFaults' > 0,
         \A i \in Services : OrderPublished(i) => OrderPublishers(i)' \subseteq OrderPublishers(i),
         OrderWritten'
  PROVE  OrdersInv'
  <1>1. \A i \in Services : OrderRowMoves(i)
    BY DEF OrderRowMoves
  <1>2. Order!ToldIsPublished'
    BY <1>1, OrderToldRest
  <1>3. \A i \in Services : OrderPublished(i)' <=> OrderPublished(i)
    BY DEF OrderPublished, Order!Live
  <1>4. OrderTakenBack'
    BY <1>1, <1>3, OrderTakenBackRest
  <1>5. \A i \in Services :
          /\ OrderSettled(i) => OrderSettled(i)'
          /\ Order!Live(i)' /\ service'[i].reminded => Order!Live(i) /\ service[i].reminded
    BY DEF OrderSettled, Order!Live
  <1>6. OrderRunsKnow' /\ OrderPushesCounted'
    BY <1>5, OrderRunsRest
  <1>7. QED
    BY <1>2, <1>4, <1>6 DEF OrdersInv

LEMMA OrderOpensKeep ==
  ASSUME OrdersInv, NEW c \in Sessions, NEW i \in Services,
         Order!OpenCreate(c, i) \/ Order!OpenPublish(c, i) \/ Order!OpenFinalize(c, i)
  PROVE  OrdersInv'
  <1> USE DEF Order!OpenCreate, Order!OpenPublish, Order!OpenFinalize, Order!Open
  <1>1. PICK op \in {"order", "publish", "finalize"} :
          /\ request' = [request EXCEPT ![c] = [op |-> op, on |-> i]] /\ request[c] = Order!Idle
          /\ op = "publish" => ~OrderPublished(i)
          /\ UNCHANGED <<service, notices, reminder, orderFaults, told, pushes, undone>>
    BY DEF OrderPublished
  <1> HIDE DEF Order!OpenCreate, Order!OpenPublish, Order!OpenFinalize, Order!Open
  <1>2. Order!TypeOK'
    BY <1>1 DEF OrdersInv, Order!TypeOK
  <1>3. \A d \in Sessions : request'[d] = IF d = c THEN [op |-> op, on |-> i] ELSE request[d]
    BY <1>1 DEF OrdersInv, Order!TypeOK
  <1>4. \A j \in Services : Order!Locked(j) => Order!Locked(j)'
    BY <1>1, <1>3 DEF Order!Locked, Order!Idle
  <1>5. \A j \in Services : OrderPublished(j) => OrderPublishers(j)' \subseteq OrderPublishers(j)
    BY <1>1, <1>3 DEF OrderPublishers
  <1>6. \A j \in Services : OrderRowMoves(j)
    BY <1>1 DEF OrderRowMoves
  <1>7. OrderWritten'
    BY <1>3, <1>6, OrderWrittenRest
  <1>8. orderFaults \in Nat
    BY DEF OrdersInv, Order!TypeOK
  <1>9. QED
    BY <1>1, <1>2, <1>4, <1>5, <1>7, <1>8, OrderRequestMoves

LEMMA OrderWritePublishKeeps ==
  ASSUME OrdersInv, NEW c \in Sessions, NEW i \in Services, Order!WritePublish(c, i)
  PROVE  OrdersInv'
  <1> USE DEF Order!WritePublish
  <1>1. \A d \in Sessions : request'[d] = IF d = c THEN [op |-> "written", on |-> i] ELSE request[d]
    BY DEF OrdersInv, Order!TypeOK
  <1>2. Order!TypeOK'
    BY <1>1 DEF OrdersInv, Order!TypeOK
  <1>3. request[c] = [op |-> "publish", on |-> i] /\ Order!Live(i) /\ ~Order!Locked(i)
    OBVIOUS
  <1>4. \A j \in Services : Order!Locked(j) => Order!Locked(j)'
    BY <1>1, <1>3 DEF Order!Locked
  <1>5. \A j \in Services : OrderPublishers(j)' \subseteq OrderPublishers(j)
    BY <1>1, <1>3 DEF OrderPublishers
  <1>6. \A d \in Sessions : ~(request[d].op = "written" /\ request[d].on = i)
    <2>1. \A d \in Sessions : request[d].op = "written" => request[d] = [op |-> "written", on |-> request[d].on]
      BY DEF OrdersInv, Order!TypeOK, Order!Idle
    <2>2. QED
      BY <1>3, <2>1 DEF Order!Locked
  <1>7. OrderWritten'
    BY <1>1, <1>3, <1>6 DEF OrdersInv, OrderWritten, Order!Live
  <1>8. orderFaults \in Nat
    BY DEF OrdersInv, Order!TypeOK
  <1>9. QED
    BY <1>2, <1>4, <1>5, <1>7, <1>8, OrderRequestMoves

LEMMA OrderGivesUpKeeps ==
  ASSUME OrdersInv, NEW c \in Sessions,
         Order!Rollback(c) \/ \E i \in Services : Order!Refused(c, i)
  PROVE  OrdersInv'
  <1> USE DEF Order!Rollback, Order!Refused
  <1>1. /\ request' = [request EXCEPT ![c] = Order!Idle]
        /\ UNCHANGED <<service, notices, reminder, told, pushes, undone>>
    OBVIOUS
  <1>2. orderFaults \in Nat /\ orderFaults' \in Nat /\ orderFaults' >= orderFaults
    BY DEF OrdersInv, Order!TypeOK
  <1>3. orderFaults' > 0 \/ request[c].op # "written"
    BY <1>2
  <1> HIDE DEF Order!Rollback, Order!Refused
  <1>4. \A d \in Sessions : request'[d] = IF d = c THEN Order!Idle ELSE request[d]
    BY <1>1 DEF OrdersInv, Order!TypeOK
  <1>5. Order!TypeOK'
    BY <1>1, <1>2 DEF OrdersInv, Order!TypeOK
  <1>6. \A j \in Services : Order!Locked(j) => Order!Locked(j)' \/ orderFaults' > 0
    BY <1>3, <1>4 DEF Order!Locked
  <1>7. \A j \in Services : OrderPublishers(j)' \subseteq OrderPublishers(j)
    BY <1>4 DEF OrderPublishers, Order!Idle
  <1>8. \A j \in Services : OrderRowMoves(j)
    BY <1>1 DEF OrderRowMoves
  <1>9. OrderWritten'
    BY <1>4, <1>8, OrderWrittenRest DEF Order!Idle
  <1>10. QED
    BY <1>1, <1>2, <1>5, <1>6, <1>7, <1>9, OrderRequestMoves

\* A request that writes a live row keeps what the reminders know.
LEMMA OrderRowKept ==
  ASSUME OrdersInv, NEW i \in Services, Order!Live(i),
         NEW status \in Order!Statuses, NEW order \in {"none", "draft", "published"},
         service' = [service EXCEPT ![i] = [service[i] EXCEPT !.status = status, !.order = order]],
         UNCHANGED <<reminder, pushes, orderFaults>>
  PROVE  /\ service' \in [Services -> {Order!NoRow, Order!Gone} \cup
              [row : {"live"}, status : Order!Statuses, order : {"none", "draft", "published"}, reminded : BOOLEAN]]
         /\ \A j \in Services \ {i} : service'[j] = service[j]
         /\ service'[i].row = "live" /\ service'[i].order = order
         /\ OrderRunsKnow' /\ OrderPushesCounted'
  <1>1. service[i] \in [row : {"live"}, status : Order!Statuses,
                        order : {"none", "draft", "published"}, reminded : BOOLEAN]
    BY DEF OrdersInv, Order!TypeOK, Order!Live, Order!NoRow, Order!Gone
  <1> DEFINE new == [service[i] EXCEPT !.status = status, !.order = order]
  <1>2. /\ new \in [row : {"live"}, status : Order!Statuses,
                    order : {"none", "draft", "published"}, reminded : BOOLEAN]
        /\ new.order = order /\ new.row = "live" /\ new.reminded = service[i].reminded
    BY <1>1
  <1>3. service' = [service EXCEPT ![i] = new]
    OBVIOUS
  <1> HIDE DEF new
  <1>4. service'[i] = new /\ \A j \in Services \ {i} : service'[j] = service[j]
    BY <1>3 DEF OrdersInv, Order!TypeOK
  <1>5. orderFaults \in Nat
    BY DEF OrdersInv, Order!TypeOK
  <1>6. new # Order!NoRow /\ new # Order!Gone
    BY <1>2 DEF Order!NoRow, Order!Gone
  <1>7. \A j \in Services :
          /\ service[j] # Order!NoRow => service'[j] # Order!NoRow
          /\ OrderSettled(j) => OrderSettled(j)'
          /\ Order!Live(j)' /\ service'[j].reminded => Order!Live(j) /\ service[j].reminded
    <2>1. ASSUME NEW j \in Services \ {i}
          PROVE  /\ OrderSettled(j)' <=> OrderSettled(j)
                 /\ Order!Live(j)' <=> Order!Live(j)
                 /\ service'[j] = service[j]
      BY <1>4 DEF OrderSettled, Order!Live
    <2>2. service[i] # Order!Gone
      BY <1>1 DEF Order!Gone
    <2>3. OrderSettled(i) => OrderSettled(i)'
      BY <1>2, <1>4, <2>2 DEF OrderSettled, Order!Live
    <2>4. QED
      BY <1>2, <1>4, <1>6, <2>1, <2>3
  <1>8. OrderRunsKnow' /\ OrderPushesCounted'
    BY <1>5, <1>7, OrderRunsRest
  <1>9. QED
    BY <1>2, <1>3, <1>4, <1>8 DEF OrdersInv, Order!TypeOK

\* The first order of an instance, and the end of a celebration: the request
\* published nothing itself.
LEMMA OrderWritesKeep ==
  ASSUME OrdersInv, NEW c \in Sessions, NEW i \in Services, Order!CommitCreate(c, i) \/ Order!CommitFinalize(c, i)
  PROVE  OrdersInv'
  <1>1. /\ Order!Live(i) /\ request[c].op \in {"order", "finalize"}
        /\ request' = [request EXCEPT ![c] = Order!Idle]
        /\ UNCHANGED <<notices, reminder, orderFaults, told, pushes, undone>>
    BY DEF Order!CommitCreate, Order!CommitFinalize, Order!Close
  <1>2. service[i] \in [row : {"live"}, status : Order!Statuses,
                        order : {"none", "draft", "published"}, reminded : BOOLEAN]
    BY <1>1 DEF OrdersInv, Order!TypeOK, Order!Live, Order!NoRow, Order!Gone
  <1>3. PICK status \in Order!Statuses, order \in {"none", "draft", "published"} :
          /\ service' = [service EXCEPT ![i] = [service[i] EXCEPT !.status = status, !.order = order]]
          /\ service[i].order = "published" <=> order = "published"
    <2>1. CASE Order!CommitCreate(c, i)
      <3>1. /\ [service[i] EXCEPT !.order = "draft"] = [service[i] EXCEPT !.status = service[i].status, !.order = "draft"]
            /\ service[i].status \in Order!Statuses /\ service[i].order = "none"
        BY <1>2, <2>1 DEF Order!CommitCreate
      <3>2. service' = [service EXCEPT ![i] = [service[i] EXCEPT !.order = "draft"]]
        BY <2>1 DEF Order!CommitCreate, Order!Close
      <3>3. QED
        BY <3>1, <3>2
    <2>2. CASE Order!CommitFinalize(c, i)
      <3>1. /\ [service[i] EXCEPT !.status = "finalized"]
               = [service[i] EXCEPT !.status = "finalized", !.order = service[i].order]
            /\ service[i].order \in {"none", "draft", "published"} /\ "finalized" \in Order!Statuses
        BY <1>2 DEF Order!Statuses
      <3>2. service' = [service EXCEPT ![i] = [service[i] EXCEPT !.status = "finalized"]]
        BY <2>2 DEF Order!CommitFinalize, Order!Close
      <3>3. QED
        BY <3>1, <3>2
    <2>3. QED
      BY <2>1, <2>2
  <1>4. /\ service' \in [Services -> {Order!NoRow, Order!Gone} \cup
              [row : {"live"}, status : Order!Statuses, order : {"none", "draft", "published"}, reminded : BOOLEAN]]
        /\ \A j \in Services \ {i} : service'[j] = service[j]
        /\ service'[i].row = "live" /\ service'[i].order = order
        /\ OrderRunsKnow' /\ OrderPushesCounted'
    BY <1>1, <1>3, OrderRowKept
  <1>5. \A d \in Sessions : request'[d] = IF d = c THEN Order!Idle ELSE request[d]
    BY <1>1 DEF OrdersInv, Order!TypeOK
  <1>6. Order!TypeOK'
    BY <1>1, <1>4 DEF OrdersInv, Order!TypeOK
  <1>7. \A j \in Services : OrderRowMoves(j)
    <2>1. service[i] # Order!Gone /\ service'[i] # Order!Gone
      BY <1>2, <1>4 DEF Order!Gone
    <2>2. OrderPublished(i)' <=> OrderPublished(i)
      BY <1>1, <1>3, <1>4 DEF OrderPublished, Order!Live
    <2>3. OrderRowMoves(i)
      BY <1>4, <2>1, <2>2 DEF OrderRowMoves, Order!Live
    <2>4. QED
      BY <1>4, <2>3 DEF OrderRowMoves
  <1>8. \A j \in Services : Order!Locked(j) => Order!Locked(j)'
    BY <1>1, <1>5 DEF Order!Locked
  <1>9. orderFaults \in Nat
    BY DEF OrdersInv, Order!TypeOK
  <1>10. Order!ToldIsPublished'
    BY <1>1, <1>7, <1>8, <1>9, OrderToldRest
  <1>11. OrderWritten'
    BY <1>5, <1>7, OrderWrittenRest DEF Order!Idle
  <1>12. \A j \in Services : OrderPublishers(j)' \subseteq OrderPublishers(j)
    BY <1>5 DEF OrderPublishers, Order!Idle
  <1>13. OrderTakenBack'
    BY <1>1, <1>7, <1>12, OrderTakenBackRest
  <1>14. QED
    BY <1>4, <1>6, <1>10, <1>11, <1>13 DEF OrdersInv

\* A publish that commits is one fewer that may take its instance back.
LEMMA OrderCommitPublishKeeps ==
  ASSUME OrdersInv, NEW c \in Sessions, NEW i \in Services, Order!CommitPublish(c, i)
  PROVE  OrdersInv'
  <1>1. /\ request[c] = [op |-> "written", on |-> i]
        /\ request' = [request EXCEPT ![c] = Order!Idle]
        /\ service' = [service EXCEPT ![i] = [service[i] EXCEPT !.status = "published", !.order = "published"]]
        /\ undone' = [undone EXCEPT ![i] =
             IF service[i].status = "finalized" /\ service[i].order = "published" THEN undone[i] + 1 ELSE undone[i]]
        /\ UNCHANGED <<notices, reminder, orderFaults, told, pushes>>
    BY DEF Order!CommitPublish, Order!Close
  <1>2. Order!Live(i) /\ service[i] # Order!Gone
    BY <1>1 DEF OrdersInv, OrderWritten, Order!Live, Order!Gone
  <1>3. /\ service' \in [Services -> {Order!NoRow, Order!Gone} \cup
              [row : {"live"}, status : Order!Statuses, order : {"none", "draft", "published"}, reminded : BOOLEAN]]
        /\ \A j \in Services \ {i} : service'[j] = service[j]
        /\ service'[i].row = "live" /\ service'[i].order = "published"
        /\ OrderRunsKnow' /\ OrderPushesCounted'
    BY <1>1, <1>2, OrderRowKept DEF Order!Statuses
  <1>4. \A d \in Sessions : request'[d] = IF d = c THEN Order!Idle ELSE request[d]
    BY <1>1 DEF OrdersInv, Order!TypeOK
  <1>5. /\ \A j \in Services \ {i} : undone'[j] = undone[j]
        /\ undone'[i] = IF service[i].status = "finalized" /\ service[i].order = "published"
                        THEN undone[i] + 1 ELSE undone[i]
        /\ undone \in [Services -> Nat] /\ undone' \in [Services -> Nat]
    BY <1>1 DEF OrdersInv, Order!TypeOK
  <1>6. Order!TypeOK'
    BY <1>1, <1>3, <1>5 DEF OrdersInv, Order!TypeOK
  <1>7. Order!ToldIsPublished'
    <2>1. \A j \in Services \ {i} : Order!Locked(j) => Order!Locked(j)'
      BY <1>1, <1>4 DEF Order!Locked
    <2>2. \A j \in Services \ {i} : Order!Live(j) <=> Order!Live(j)'
      BY <1>3 DEF Order!Live
    <2>3. Order!Live(i)'
      BY <1>3 DEF Order!Live
    <2>4. told \cup notices \subseteq Services
      BY DEF OrdersInv, Order!TypeOK
    <2>5. QED
      BY <1>1, <1>3, <2>1, <2>2, <2>3, <2>4 DEF OrdersInv, Order!ToldIsPublished
  <1>8. OrderWritten'
    <2>1. \A d \in Sessions : request'[d].op = "written" => d # c /\ request'[d] = request[d] /\ request[d].on # i
      BY <1>1, <1>4 DEF OrdersInv, OrderWritten, Order!Idle
    <2>2. \A d \in Sessions : request[d].op = "written" => request[d].on \in Services
      BY DEF OrdersInv, Order!TypeOK, Order!Idle
    <2>3. QED
      BY <1>3, <2>1, <2>2 DEF OrdersInv, OrderWritten, Order!Live
  <1>9. OrderTakenBack'
    <2>1. ASSUME NEW j \in Services
          PROVE  /\ OrderPublished(j)' => undone'[j] + Cardinality(OrderPublishers(j)') < Cardinality(Sessions)
                 /\ service'[j] = Order!Gone => undone'[j] < Cardinality(Sessions)
                 /\ service'[j] # Order!Gone /\ ~OrderPublished(j)' => undone'[j] = 0
      <3>1. CASE j = i
        <4>1. OrderPublishers(i)' = OrderPublishers(i) \ {c} /\ c \in OrderPublishers(i)
          BY <1>1, <1>4 DEF OrderPublishers, Order!Idle
        <4>2. Cardinality(OrderPublishers(i)') = Cardinality(OrderPublishers(i)) - 1
          BY <4>1, ClientsAreFinite, MembersCounted, OrderPublishersCounted
        <4>3. undone'[i] + Cardinality(OrderPublishers(i)') < Cardinality(Sessions)
          BY <1>2, <1>5, <4>2, OrderPublishersCounted DEF OrdersInv, OrderTakenBack, OrderPublished
        <4>4. OrderPublished(i)' /\ service'[i] # Order!Gone
          BY <1>3 DEF OrderPublished, Order!Live, Order!Gone
        <4>5. QED
          BY <3>1, <4>3, <4>4
      <3>2. CASE j # i
        <4>1. OrderPublishers(j)' = OrderPublishers(j)
          BY <1>1, <1>4, <3>2 DEF OrderPublishers, Order!Idle
        <4>2. OrderPublished(j)' <=> OrderPublished(j)
          BY <1>3, <3>2 DEF OrderPublished, Order!Live
        <4>3. QED
          BY <1>3, <1>5, <3>2, <4>1, <4>2 DEF OrdersInv, OrderTakenBack
      <3>3. QED
        BY <3>1, <3>2
    <2>2. QED
      BY <2>1 DEF OrderTakenBack
  <1>10. QED
    BY <1>3, <1>6, <1>7, <1>8, <1>9 DEF OrdersInv

LEMMA OrderNoticesKeep ==
  ASSUME OrdersInv, NEW i \in Services, Order!Tell(i) \/ \E c \in Sessions : Order!ReadNotice(c, i)
  PROVE  OrdersInv'
  <1> USE DEF Order!Tell, Order!ReadNotice
  <1>1. UNCHANGED <<service, request, reminder, orderFaults, pushes, undone>>
    OBVIOUS
  <1>2. Order!TypeOK'
    BY DEF OrdersInv, Order!TypeOK
  <1>3. \A j \in told' \cup notices' : j \in told \cup notices \/ Order!Locked(j)
    BY DEF Order!Locked
  <1>4. \A j : (Order!Locked(j)' <=> Order!Locked(j)) /\ (Order!Live(j)' <=> Order!Live(j))
    BY <1>1 DEF Order!Locked, Order!Live
  <1> HIDE DEF Order!Tell, Order!ReadNotice
  <1>5. Order!ToldIsPublished'
    BY <1>1, <1>3, <1>4 DEF OrdersInv, Order!ToldIsPublished
  <1>6. OrderWritten' /\ OrderRunsKnow' /\ OrderPushesCounted'
    BY <1>1 DEF OrdersInv, OrderWritten, Order!Live, OrderRunsKnow, OrderPushesCounted, OrderMarking,
       OrderWaiting,
                OrderSettled
  <1>7. OrderTakenBack'
    BY <1>1 DEF OrdersInv, OrderTakenBack, OrderPublished, Order!Live, OrderPublishers
  <1>8. QED
    BY <1>2, <1>5, <1>6, <1>7 DEF OrdersInv

-----------------------------------------------------------------------------
(* The reminders.                                                           *)

\* What the run of r says of an instance after its step.
LEMMA OrderRunMoves ==
  ASSUME Order!TypeOK, NEW r \in Runs, NEW next, reminder' = [reminder EXCEPT ![r] = next], NEW i
  PROVE  /\ OrderMarking(i)' = IF next.op = "mark" /\ next.on = i THEN OrderMarking(i) \cup {r}
                                                                  ELSE OrderMarking(i) \ {r}
         /\ OrderWaiting(i)' = IF next.op \in {"push", "mark"} /\ i \in next.left
                               THEN OrderWaiting(i) \cup {r} ELSE OrderWaiting(i) \ {r}
  <1>1. \A q \in Runs : reminder'[q] = IF q = r THEN next ELSE reminder[q]
    BY DEF Order!TypeOK
  <1>2. QED
    BY <1>1 DEF OrderMarking, OrderWaiting

\* The runs that marked an instance, when one of them goes on.
LEMMA OrderMarkingLeft ==
  ASSUME NEW i, NEW r \in Runs
  PROVE  Cardinality(OrderMarking(i) \ {r}) = IF r \in OrderMarking(i) THEN Cardinality(OrderMarking(i)) - 1
                                                                      ELSE Cardinality(OrderMarking(i))
  <1>1. OrderMarking(i) \in SUBSET Runs
    BY DEF OrderMarking
  <1>2. QED
    BY <1>1, ClientsAreFinite, MembersCounted

\* The requests, when a run takes a step.
LEMMA OrderRequestsRest ==
  ASSUME OrdersInv, UNCHANGED <<request, notices, told, undone>>, orderFaults' \in Nat, orderFaults' >= orderFaults,
         \A i \in Services : OrderRowMoves(i)
  PROVE  Order!ToldIsPublished' /\ OrderWritten' /\ OrderTakenBack'
  <1>1. \A i \in Services : Order!Locked(i)' <=> Order!Locked(i)
    BY DEF Order!Locked
  <1>2. \A i \in Services : OrderPublishers(i)' = OrderPublishers(i)
    BY DEF OrderPublishers
  <1>3. QED
    BY <1>1, <1>2, OrderToldRest, OrderWrittenRest, OrderTakenBackRest

\* A run that does not push: what it still marks is settled or paid by a fault,
\* and what it finds nobody has settled.
LEMMA OrderRunKeeps ==
  ASSUME OrdersInv, NEW r \in Runs, NEW next, reminder' = [reminder EXCEPT ![r] = next],
         next = Order!Idle \/ next \in [op : {"push"}, left : SUBSET Services],
         UNCHANGED <<request, notices, told, undone, pushes>>,
         orderFaults' \in Nat, orderFaults' >= orderFaults,
         \A i \in Services :
           service'[i] = service[i] \/
             (OrderRowMoves(i) /\ r \in OrderMarking(i) /\ Order!Live(i) /\ OrderSettled(i)' /\ service'[i] # Order!NoRow),
         service' \in [Services -> {Order!NoRow, Order!Gone} \cup
              [row : {"live"}, status : Order!Statuses, order : {"none", "draft", "published"}, reminded : BOOLEAN]],
         \A i \in Services : r \in OrderMarking(i) => OrderSettled(i)' \/ orderFaults' >= orderFaults + 1,
         \A i \in Services : next.op = "push" /\ i \in next.left =>
           r \in OrderWaiting(i) \/ (~OrderSettled(i)' /\ service[i] # Order!NoRow /\ reminder[r] = Order!Idle)
  PROVE  OrdersInv'
  <1>1. Order!TypeOK'
    BY DEF OrdersInv, Order!TypeOK
  <1>2. \A i \in Services : OrderRowMoves(i)
    BY DEF OrderRowMoves
  <1>3. Order!ToldIsPublished' /\ OrderWritten' /\ OrderTakenBack'
    BY <1>2, OrderRequestsRest
  <1>4. ASSUME NEW i \in Services
        PROVE  /\ OrderMarking(i)' = OrderMarking(i) \ {r}
               /\ OrderWaiting(i)' \subseteq OrderWaiting(i) \cup {r}
               /\ r \in OrderWaiting(i)' => r \in OrderWaiting(i) \/
                    (~OrderSettled(i)' /\ service[i] # Order!NoRow /\ reminder[r] = Order!Idle)
    <2>1. /\ OrderMarking(i)' = IF next.op = "mark" /\ next.on = i THEN OrderMarking(i) \cup {r}
                                                                  ELSE OrderMarking(i) \ {r}
          /\ OrderWaiting(i)' = IF next.op \in {"push", "mark"} /\ i \in next.left
                                THEN OrderWaiting(i) \cup {r} ELSE OrderWaiting(i) \ {r}
      BY OrderRunMoves DEF OrdersInv
    <2>2. next.op \in {"idle", "push"}
      BY DEF Order!Idle
    <2>3. QED
      BY <2>1, <2>2
  <1>5. ASSUME NEW i \in Services
        PROVE  (OrderSettled(i) => OrderSettled(i)') /\ (service[i] # Order!NoRow => service'[i] # Order!NoRow)
    BY DEF OrderSettled, Order!Live
  <1>6. OrderRunsKnow'
    <2>1. ASSUME NEW i \in Services
          PROVE  /\ OrderMarking(i)' \cap OrderWaiting(i)' = {}
                 /\ OrderMarking(i)' # {} => pushes[i] > 0
                 /\ OrderMarking(i)' \cup OrderWaiting(i)' # {} => service'[i] # Order!NoRow
                 /\ Order!Live(i)' /\ service'[i].reminded => pushes[i] > 0
      <3>1. OrderMarking(i)' \cap OrderWaiting(i)' = {}
        BY <1>4 DEF OrdersInv, OrderRunsKnow
      <3>2. OrderMarking(i)' # {} => pushes[i] > 0
        BY <1>4 DEF OrdersInv, OrderRunsKnow
      <3>3. OrderMarking(i)' \cup OrderWaiting(i)' # {} => service'[i] # Order!NoRow
        BY <1>4, <1>5 DEF OrdersInv, OrderRunsKnow
      <3>4. Order!Live(i)' /\ service'[i].reminded => pushes[i] > 0
        BY DEF OrdersInv, OrderRunsKnow, Order!Live
      <3>5. QED
        BY <3>1, <3>2, <3>3, <3>4
    <2>2. QED
      BY <2>1 DEF OrderRunsKnow
  <1>7. OrderPushesCounted'
    <2>1. ASSUME NEW i \in Services
          PROVE  /\ ~OrderSettled(i)' => pushes[i] <= Cardinality(OrderMarking(i)') + orderFaults'
                 /\ OrderSettled(i)' => pushes[i] + Cardinality(OrderWaiting(i)') <= Cardinality(Runs) + orderFaults'
      <3>1. ASSUME ~OrderSettled(i)'
            PROVE  pushes[i] <= Cardinality(OrderMarking(i)') + orderFaults'
        <4>1. Cardinality(OrderMarking(i)') = IF r \in OrderMarking(i) THEN Cardinality(OrderMarking(i)) - 1
                                                                       ELSE Cardinality(OrderMarking(i))
          BY <1>4, OrderMarkingLeft
        <4>2. QED
          BY <1>5, <3>1, <4>1, OrderRunsCounted DEF OrdersInv, OrderPushesCounted
      <3>2. ASSUME OrderSettled(i)'
            PROVE  pushes[i] + Cardinality(OrderWaiting(i)') <= Cardinality(Runs) + orderFaults'
        <4>1. OrderWaiting(i)' \subseteq OrderWaiting(i)
          BY <1>4, <3>2
        <4>2. Cardinality(OrderWaiting(i)') \in Nat /\ Cardinality(OrderWaiting(i)') <= Cardinality(OrderWaiting(i))
          BY <4>1, ClientsAreFinite, FewerCounted, OrderRunsCounted
        <4>3. QED
          BY <4>2, OrderRunsCounted DEF OrdersInv, OrderPushesCounted
      <3>3. QED
        BY <3>1, <3>2
    <2>2. QED
      BY <2>1 DEF OrderPushesCounted
  <1>8. QED
    BY <1>1, <1>3, <1>6, <1>7 DEF OrdersInv

\* What a run in progress is.
LEMMA OrderRunsTyped ==
  ASSUME OrdersInv, NEW r \in Runs
  PROVE  /\ reminder[r].op \in {"idle", "push", "mark"}
         /\ reminder[r].op = "push" => reminder[r] \in [op : {"push"}, left : SUBSET Services]
         /\ reminder[r].op = "mark" => reminder[r] \in [op : {"mark"}, on : Services, left : SUBSET Services]
         /\ reminder[r].op # "idle" => reminder[r].left \subseteq Services /\ reminder[r] # Order!Idle
         /\ \A i \in Services : r \in OrderMarking(i) <=> reminder[r].op = "mark" /\ reminder[r].on = i
         /\ \A i \in Services : r \in OrderWaiting(i) <=> reminder[r].op \in {"push", "mark"} /\ i \in reminder[r].left
  BY DEF OrdersInv, Order!TypeOK, Order!Idle, OrderMarking, OrderWaiting

\* The steps of a run that write no row.
LEMMA OrderRunGoesOn ==
  ASSUME OrdersInv, NEW r \in Runs,
         Order!FindDue(r) \/ Order!MarkGone(r) \/ Order!RemindersEnd(r) \/ Order!MarkFails(r) \/ Order!Crash(r)
  PROVE  OrdersInv'
  <1>1. UNCHANGED <<request, notices, told, undone, pushes, service>>
    BY DEF Order!FindDue, Order!MarkGone, Order!RemindersEnd, Order!MarkFails, Order!Crash, Order!Reminding,
           Order!NextReminder
  <1>2. orderFaults \in Nat /\ service \in [Services -> {Order!NoRow, Order!Gone} \cup
          [row : {"live"}, status : Order!Statuses, order : {"none", "draft", "published"}, reminded : BOOLEAN]]
    BY DEF OrdersInv, Order!TypeOK
  <1>3. \A i \in Services : OrderSettled(i)' <=> OrderSettled(i)
    BY <1>1 DEF OrderSettled, Order!Live
  <1>a. /\ service' \in [Services -> {Order!NoRow, Order!Gone} \cup
                [row : {"live"}, status : Order!Statuses, order : {"none", "draft", "published"}, reminded : BOOLEAN]]
         /\ \A i \in Services : service'[i] = service[i]
    BY <1>1, <1>2
  <1>4. CASE Order!FindDue(r)
    <2> DEFINE next == [op |-> "push", left |-> {i \in Services : Order!DueReminder(i)}]
    <2>1. /\ reminder' = [reminder EXCEPT ![r] = next] /\ reminder[r] = Order!Idle /\ orderFaults' = orderFaults
          /\ next \in [op : {"push"}, left : SUBSET Services]
      BY <1>4 DEF Order!FindDue, Order!Reminding
    <2>2. \A i \in next.left : ~OrderSettled(i) /\ service[i] # Order!NoRow
      BY DEF Order!DueReminder, OrderSettled, Order!Live, Order!NoRow, Order!Gone
    <2>3. \A i \in Services : r \notin OrderMarking(i)
      BY <2>1 DEF OrderMarking, Order!Idle
    <2> HIDE DEF next
    <2>4. \A i \in Services : next.op = "push" /\ i \in next.left =>
            ~OrderSettled(i)' /\ service[i] # Order!NoRow /\ reminder[r] = Order!Idle
      BY <1>3, <2>1, <2>2
    <2>5. orderFaults' \in Nat /\ orderFaults' >= orderFaults
      BY <1>2, <2>1
    <2>6. QED
      BY <1>1, <1>a, <2>1, <2>3, <2>4, <2>5, OrderRunKeeps
  <1>5. CASE Order!MarkGone(r) \/ Order!MarkFails(r)
    <2> DEFINE next == [op |-> "push", left |-> reminder[r].left]
    <2>1. /\ reminder' = [reminder EXCEPT ![r] = next] /\ reminder[r].op = "mark"
          /\ next \in [op : {"push"}, left : SUBSET Services]
      BY <1>5, OrderRunsTyped DEF Order!MarkGone, Order!MarkFails, Order!Reminding, Order!NextReminder
    <2>2. orderFaults' \in Nat /\ orderFaults' >= orderFaults
      BY <1>2, <1>5 DEF Order!MarkGone, Order!MarkFails
    <2>3. ASSUME NEW i \in Services, r \in OrderMarking(i)
          PROVE  OrderSettled(i) \/ orderFaults' >= orderFaults + 1
      <3>1. CASE Order!MarkFails(r)
        BY <1>2, <3>1 DEF Order!MarkFails
      <3>2. CASE Order!MarkGone(r)
        <4>1. ~Order!Live(i)
          BY <2>3, <3>2, OrderRunsTyped DEF Order!MarkGone
        <4>2. service[i] # Order!NoRow
          BY <2>3 DEF OrdersInv, OrderRunsKnow
        <4>3. QED
          BY <1>2, <4>1, <4>2 DEF OrderSettled, Order!Live
      <3>3. QED
        BY <1>5, <3>1, <3>2
    <2>4. \A i \in Services : i \in next.left => r \in OrderWaiting(i)
      BY <2>1, OrderRunsTyped
    <2> HIDE DEF next
    <2>5. QED
      BY <1>1, <1>2, <1>3, <2>1, <2>2, <2>3, <2>4, OrderRunKeeps
  <1>6. CASE Order!RemindersEnd(r) \/ Order!Crash(r)
    <2>1. /\ reminder' = [reminder EXCEPT ![r] = Order!Idle]
          /\ orderFaults' \in Nat /\ orderFaults' >= orderFaults
          /\ reminder[r].op = "mark" => orderFaults' >= orderFaults + 1
      BY <1>2, <1>6 DEF Order!RemindersEnd, Order!Crash, Order!Reminding
    <2>2. \A i \in Services : r \in OrderMarking(i) => orderFaults' >= orderFaults + 1
      BY <2>1, OrderRunsTyped
    <2>3. Order!Idle.op # "push"
      BY DEF Order!Idle
    <2>4. QED
      BY <1>1, <1>a, <2>1, <2>2, <2>3, OrderRunKeeps
  <1>7. QED
    BY <1>4, <1>5, <1>6

\* The mark settles the instance.
LEMMA OrderMarkKeeps ==
  ASSUME OrdersInv, NEW r \in Runs, NEW i \in Services, Order!Mark(r, i)
  PROVE  OrdersInv'
  <1> DEFINE next == [op |-> "push", left |-> reminder[r].left]
  <1>1. /\ reminder' = [reminder EXCEPT ![r] = next] /\ reminder[r].op = "mark" /\ reminder[r].on = i
        /\ next \in [op : {"push"}, left : SUBSET Services]
        /\ service' = [service EXCEPT ![i].reminded = TRUE] /\ Order!Live(i) /\ ~Order!Locked(i)
        /\ UNCHANGED <<request, notices, told, undone, pushes, orderFaults>>
    BY OrderRunsTyped DEF Order!Mark, Order!Reminding, Order!NextReminder
  <1>2. orderFaults \in Nat
    BY DEF OrdersInv, Order!TypeOK
  <1>3. service[i] \in [row : {"live"}, status : Order!Statuses,
                        order : {"none", "draft", "published"}, reminded : BOOLEAN]
    BY <1>1 DEF OrdersInv, Order!TypeOK, Order!Live, Order!NoRow, Order!Gone
  <1> DEFINE new == [service[i] EXCEPT !.reminded = TRUE]
  <1>4. /\ new \in [row : {"live"}, status : Order!Statuses,
                    order : {"none", "draft", "published"}, reminded : BOOLEAN]
        /\ new.row = "live" /\ new.reminded = TRUE /\ new.order = service[i].order
        /\ service' = [service EXCEPT ![i] = new]
    BY <1>1, <1>3
  <1> HIDE DEF new
  <1>5. /\ service'[i] = new /\ \A j \in Services \ {i} : service'[j] = service[j]
        /\ service' \in [Services -> {Order!NoRow, Order!Gone} \cup
              [row : {"live"}, status : Order!Statuses, order : {"none", "draft", "published"}, reminded : BOOLEAN]]
    BY <1>4 DEF OrdersInv, Order!TypeOK
  <1>6. new # Order!NoRow /\ new # Order!Gone /\ service[i] # Order!Gone
    BY <1>3, <1>4 DEF Order!NoRow, Order!Gone
  <1>7. OrderPublished(i)' <=> OrderPublished(i)
    BY <1>1, <1>4, <1>5 DEF OrderPublished, Order!Live
  <1>8. Order!Live(i)' /\ OrderSettled(i)'
    BY <1>4, <1>5 DEF OrderSettled, Order!Live
  <1>9. OrderRowMoves(i)
    BY <1>5, <1>6, <1>7, <1>8 DEF OrderRowMoves
  <1>10. r \in OrderMarking(i) /\ \A j \in Services : r \in OrderMarking(j) => j = i
    BY <1>1, OrderRunsTyped
  <1>11. \A j \in Services : j \in next.left => r \in OrderWaiting(j)
    BY <1>1, OrderRunsTyped
  <1> HIDE DEF next
  <1>12. \A j \in Services :
           service'[j] = service[j] \/
             (OrderRowMoves(j) /\ r \in OrderMarking(j) /\ Order!Live(j) /\ OrderSettled(j)' /\ service'[j] # Order!NoRow)
    <2>1. /\ OrderRowMoves(i) /\ r \in OrderMarking(i) /\ Order!Live(i) /\ OrderSettled(i)'
          /\ service'[i] # Order!NoRow
      <3>1. service'[i] # Order!NoRow
        BY <1>5, <1>6, Zenon
      <3>2. Order!Live(i)
        BY <1>1, Zenon
      <3>3. QED
        BY <1>8, <1>9, <1>10, <3>1, <3>2, Zenon
    <2>2. \A j \in Services \ {i} : service'[j] = service[j]
      BY <1>5, Zenon
    <2>3. QED
      BY <2>1, <2>2, Zenon
  <1>13. \A j \in Services : r \in OrderMarking(j) => OrderSettled(j)'
    BY <1>8, <1>10
  <1>14. orderFaults' \in Nat /\ orderFaults' >= orderFaults
    BY <1>1, <1>2
  <1>15. UNCHANGED <<request, notices, told, undone, pushes>>
    BY <1>1
  <1>16. QED
    BY <1>1, <1>5, <1>11, <1>12, <1>13, <1>14, <1>15, OrderRunKeeps

\* A push is one of those that wait, and is to be marked.
LEMMA OrderPushKeeps ==
  ASSUME OrdersInv, NEW r \in Runs, NEW i \in Services, Order!Push(r, i)
  PROVE  OrdersInv'
  <1> DEFINE next == [op |-> "mark", on |-> i, left |-> reminder[r].left \ {i}]
  <1>1. /\ reminder' = [reminder EXCEPT ![r] = next] /\ reminder[r].op = "push" /\ i \in reminder[r].left
        /\ next \in [op : {"mark"}, on : Services, left : SUBSET Services]
        /\ UNCHANGED <<request, notices, told, undone, service, orderFaults>>
        /\ pushes' = [pushes EXCEPT ![i] = pushes[i] + 1]
    BY OrderRunsTyped DEF Order!Push, Order!Reminding
  <1>2. orderFaults \in Nat /\ pushes' \in [Services -> Nat]
        /\ \A j \in Services : pushes[j] \in Nat /\ pushes'[j] = IF j = i THEN pushes[j] + 1 ELSE pushes[j]
    BY <1>1 DEF OrdersInv, Order!TypeOK
  <1>3. Order!TypeOK'
    BY <1>1, <1>2 DEF OrdersInv, Order!TypeOK
  <1>4. Order!ToldIsPublished' /\ OrderWritten' /\ OrderTakenBack'
    BY <1>1, <1>2, OrderRequestsRest DEF OrderRowMoves
  <1>5. ASSUME NEW j \in Services
        PROVE  /\ OrderMarking(j)' = IF j = i THEN OrderMarking(j) \cup {r} ELSE OrderMarking(j)
               /\ OrderWaiting(j)' = IF j = i THEN OrderWaiting(j) \ {r} ELSE OrderWaiting(j)
               /\ r \notin OrderMarking(j) /\ r \in OrderWaiting(i)
    <2>1. next.op = "mark" /\ next.on = i /\ next.left = reminder[r].left \ {i}
      OBVIOUS
    <2>2. \A q \in Runs : reminder'[q] = IF q = r THEN next ELSE reminder[q]
      BY <1>1 DEF OrdersInv, Order!TypeOK
    <2> HIDE DEF next
    <2>3. QED
      BY <1>1, <2>1, <2>2 DEF OrderMarking, OrderWaiting
  <1> HIDE DEF next
  <1>6. \A j \in Services : (OrderSettled(j)' <=> OrderSettled(j)) /\ (Order!Live(j)' <=> Order!Live(j))
    BY <1>1 DEF OrderSettled, Order!Live
  <1>7. OrderRunsKnow'
    <2>1. ASSUME NEW j \in Services
          PROVE  /\ OrderMarking(j)' \cap OrderWaiting(j)' = {}
                 /\ OrderMarking(j)' # {} => pushes'[j] > 0
                 /\ OrderMarking(j)' \cup OrderWaiting(j)' # {} => service[j] # Order!NoRow
                 /\ Order!Live(j) /\ service[j].reminded => pushes'[j] > 0
      BY <1>2, <1>5 DEF OrdersInv, OrderRunsKnow
    <2>2. QED
      BY <1>1, <1>6, <2>1 DEF OrderRunsKnow
  <1>8. OrderPushesCounted'
    <2>1. ASSUME NEW j \in Services \ {i}
          PROVE  /\ ~OrderSettled(j)' => pushes'[j] <= Cardinality(OrderMarking(j)') + orderFaults'
                 /\ OrderSettled(j)' => pushes'[j] + Cardinality(OrderWaiting(j)') <= Cardinality(Runs) + orderFaults'
      BY <1>1, <1>2, <1>5, <1>6 DEF OrdersInv, OrderPushesCounted
    <2>2. Cardinality(OrderMarking(i)') = Cardinality(OrderMarking(i)) + 1
      <3>1. Cardinality(OrderMarking(i) \cup {r}) = Cardinality(OrderMarking(i)) + 1
        BY <1>5, ClientsAreFinite, MembersCounted, OrderRunsCounted
      <3>2. QED
        BY <1>5, <3>1
    <2>3. Cardinality(OrderWaiting(i)') = Cardinality(OrderWaiting(i)) - 1
      <3>1. Cardinality(OrderWaiting(i) \ {r}) = Cardinality(OrderWaiting(i)) - 1
        BY <1>5, ClientsAreFinite, MembersCounted, OrderRunsCounted
      <3>2. QED
        BY <1>5, <3>1
    <2>4. /\ ~OrderSettled(i)' => pushes'[i] <= Cardinality(OrderMarking(i)') + orderFaults'
          /\ OrderSettled(i)' => pushes'[i] + Cardinality(OrderWaiting(i)') <= Cardinality(Runs) + orderFaults'
      BY <1>1, <1>2, <1>6, <2>2, <2>3, OrderRunsCounted DEF OrdersInv, OrderPushesCounted
    <2>5. QED
      BY <2>1, <2>4 DEF OrderPushesCounted
  <1>9. QED
    BY <1>3, <1>4, <1>7, <1>8 DEF OrdersInv

LEMMA OrderNextKeeps == OrdersInv /\ [Order!Next]_(Order!orderVars) => OrdersInv'
  <1> SUFFICES ASSUME OrdersInv, [Order!Next]_(Order!orderVars) PROVE OrdersInv'
    OBVIOUS
  <1>1. CASE UNCHANGED Order!orderVars
    <2>1. UNCHANGED <<service, request, notices, reminder, orderFaults, told, pushes, undone>>
      BY <1>1 DEF Order!orderVars
    <2>2. Order!TypeOK'
      BY <2>1 DEF OrdersInv, Order!TypeOK
    <2>3. \A i \in Services : OrderRowMoves(i)
      BY <2>1 DEF OrderRowMoves
    <2>4. \A i \in Services : (OrderSettled(i)' <=> OrderSettled(i)) /\ (Order!Live(i)' <=> Order!Live(i))
      BY <2>1 DEF OrderSettled, Order!Live
    <2>5. QED
      BY <2>1, <2>2, <2>3, <2>4, OrderRowWritten
  <1>2. CASE Order!Next
    BY <1>2, OrderRowsKeep, OrderNoticesKeep, OrderOpensKeep, OrderWritesKeep, OrderWritePublishKeeps,
       OrderCommitPublishKeeps, OrderGivesUpKeeps, OrderPushKeeps, OrderMarkKeeps, OrderRunGoesOn DEF Order!Next
  <1>3. QED
    BY <1>1, <1>2

\* The orders of service cohere in every reachable state: a finalized
\* celebration is taken back by fewer publishes than there are connections,
\* the volunteers are told of what is published, or of a publish that failed,
\* and an instance is reminded of once, but for runs that overlap and faults.
THEOREM OrdersStayCoherent == AllSpec => []OrdersCohere
  <1>1. AllInit => OrdersInv
    BY OrderInitHolds DEF AllInit
  <1>2. OrdersInv /\ [AllNext]_allVars => OrdersInv'
    BY PartsMoveAlone, OrderNextKeeps
  <1>3. OrdersInv => OrdersCohere
    BY OrdersInvCoheres DEF OrdersCohere
  <1>4. QED
    BY <1>1, <1>2, <1>3, PTL DEF AllSpec

-----------------------------------------------------------------------------
(* Celebrations: the calendar.                                              *)

LastMonth == Cardinality(DOMAIN MonthStart) - 1

LEMMA MonthsOrdered ==
  /\ LastMonth \in Nat /\ DOMAIN MonthStart = 0..LastMonth
  /\ \A m \in 0..LastMonth : MonthStart[m] \in Nat /\ MonthStart[m] <= MonthStart[LastMonth]
  /\ \A m, n \in 0..LastMonth : m < n => MonthStart[m] + 28 <= MonthStart[n]
  /\ Days = 0..MonthStart[LastMonth]
  <1>1. LastMonth \in Nat /\ DOMAIN MonthStart = 0..LastMonth /\ Days = 0..MonthStart[LastMonth]
    BY CalendarAssumption DEF LastMonth, Days
  <1>2. /\ \A m \in 0..LastMonth : MonthStart[m] \in Nat
        /\ \A m, n \in 0..LastMonth : m < n => MonthStart[m] + 28 <= MonthStart[n]
    BY <1>1, CalendarAssumption
  <1>3. ASSUME NEW m \in 0..LastMonth PROVE MonthStart[m] <= MonthStart[LastMonth]
    <2>1. m = LastMonth \/ m < LastMonth
      BY <1>1
    <2>2. LastMonth \in 0..LastMonth
      BY <1>1
    <2>3. QED
      BY <1>2, <2>1, <2>2
  <1>4. QED
    BY <1>1, <1>2, <1>3

\* A day is in one month.
LEMMA MonthsApart ==
  ASSUME NEW d \in Int, NEW m \in 0..LastMonth, NEW n \in 0..LastMonth,
         MonthStart[m] <= d, m < LastMonth => d < MonthStart[m + 1],
         MonthStart[n] <= d, n < LastMonth => d < MonthStart[n + 1]
  PROVE  m = n
  <1>1. \A k, l \in 0..LastMonth : k < l => k + 1 \in 0..LastMonth /\ k < LastMonth /\ MonthStart[k + 1] <= MonthStart[l]
    <2>1. \A k, l \in 0..LastMonth : k < l => k + 1 \in 0..LastMonth /\ k < LastMonth /\ (k + 1 = l \/ k + 1 < l)
      BY MonthsOrdered
    <2>2. \A k \in 0..LastMonth : MonthStart[k] \in Nat
      BY MonthsOrdered
    <2>3. ASSUME NEW k \in 0..LastMonth, NEW l \in 0..LastMonth, k + 1 < l, k + 1 \in 0..LastMonth
          PROVE  MonthStart[k + 1] <= MonthStart[l]
      BY <2>2, <2>3, MonthsOrdered
    <2>4. QED
      BY <2>1, <2>2, <2>3
  <1>2. \A k \in 0..LastMonth : MonthStart[k] \in Nat
    BY MonthsOrdered
  <1>3. ~(m < n) /\ ~(n < m)
    BY <1>1, <1>2
  <1>4. QED
    BY <1>3, MonthsOrdered

\* MonthOf finds it.
LEMMA MonthFound ==
  ASSUME NEW d \in Int, NEW m \in 0..LastMonth, m < LastMonth, MonthStart[m] <= d, d < MonthStart[m + 1]
  PROVE  MonthOf(d) = m
  <1>1. m \in DOMAIN MonthStart
    BY MonthsOrdered
  <1>2. /\ MonthOf(d) \in DOMAIN MonthStart
        /\ MonthStart[MonthOf(d)] <= d /\ d < MonthStart[MonthOf(d) + 1]
    BY <1>1 DEF MonthOf
  <1>3. QED
    BY <1>2, MonthsOrdered, MonthsApart

\* The days the scheduler asks for are in the calendar.
LEMMA DaysAhead ==
  ASSUME NEW now \in Today, NEW d \in Ahead(now) \cup {SameDayNextMonth(now)}
  PROVE  /\ now \in Nat
         /\ MonthOf(d) \in 0..LastMonth /\ MonthOf(d) + 1 \in 0..LastMonth
         /\ MonthStart[MonthOf(d)] <= d /\ d < MonthStart[MonthOf(d) + 1]
         /\ d \in Days
  <1>1. now \in Nat /\ now \in Ahead(now) /\ Ahead(now) \subseteq Int
    BY HorizonAssumption DEF Ahead, Window
  <1>2. PICK m \in 0..LastMonth : m + 1 \in 0..LastMonth /\ MonthStart[m] <= d /\ d < MonthStart[m + 1]
    BY HorizonAssumption, MonthsOrdered
  <1>3. PICK n \in 0..LastMonth : n + 1 \in 0..LastMonth /\ MonthStart[n] <= now /\ now < MonthStart[n + 1]
    BY <1>1, HorizonAssumption, MonthsOrdered
  <1>4. MonthOf(now) = n
    BY <1>1, <1>3, MonthsOrdered, MonthFound
  <1>5. d \in Int
    BY <1>1, <1>3, <1>4, MonthsOrdered DEF SameDayNextMonth
  <1>6. MonthOf(d) = m
    BY <1>2, <1>5, MonthsOrdered, MonthFound
  <1>7. d \in Days
    <2>1. MonthStart[m] \in Nat /\ MonthStart[m + 1] <= MonthStart[LastMonth]
      BY <1>2, MonthsOrdered
    <2>2. QED
      BY <1>2, <1>5, <2>1, MonthsOrdered
  <1>8. QED
    BY <1>1, <1>2, <1>6, <1>7

Earlier == {ss \in Nat \X Nat : ss[1] < ss[2]}

LEMMA EarlierIsWellFounded == IsWellFoundedOn(Earlier, Nat)
  BY NatLessThanWellFounded, Zenon DEF OpToRel, Earlier

\* Some day of a set of days is the earliest.
LEMMA EarliestIsOne ==
  ASSUME NEW days \in SUBSET Days, days # {}
  PROVE  Earliest(days) \in days
  <1>1. days \subseteq Nat
    BY MonthsOrdered
  <1>2. PICK d \in days : \A e \in days : ~(<<e, d>> \in Earlier)
    BY <1>1, EarlierIsWellFounded, WFMin
  <1>3. ASSUME NEW e \in days, e < d PROVE <<e, d>> \in Earlier
    <2>1. e \in Nat /\ d \in Nat
      BY <1>1
    <2>2. <<e, d>> \in Nat \X Nat /\ <<e, d>>[1] = e /\ <<e, d>>[2] = d
      BY <2>1
    <2>3. <<e, d>>[1] < <<e, d>>[2]
      BY <1>3, <2>2
    <2>4. QED
      BY <2>2, <2>3, Zenon DEF Earlier
  <1>4. \A e \in days : ~(e < d)
    BY <1>2, <1>3, Zenon
  <1>5. \A e \in days : d <= e
    BY <1>1, <1>4
  <1>6. QED
    BY <1>5 DEF Earliest

LEMMA TargetsAreAhead ==
  ASSUME NEW recurrence, NEW weekday, NEW anchor, NEW now
  PROVE  TargetDates(recurrence, weekday, anchor, now) \subseteq Ahead(now)
  BY DEF TargetDates

-----------------------------------------------------------------------------
(* Celebrations: the instances.                                             *)

\* Unless generations overlapped one runs at a time.
GeneratesAlone == raced \/ \A r, q \in Runs : generation[r] # Idle /\ generation[q] # Idle => r = q

MadeAt(d) == \E i \in Instances : Live(i) /\ instance[i].by = "scheduler" /\ instance[i].at = At(d)

\* The date a generation is about to make was free when it looked, and only
\* another generation could have made it since.
CreatesFree ==
  \A r \in Runs : generation[r].op = "create" =>
    generation[r].left # {} /\ (raced \/ ~MadeAt(Earliest(generation[r].left)))

\* There is one row for each id and one run for each process.
CelebrationTables ==
  instance = [i \in Instances |-> instance[i]] /\ generation = [r \in Runs |-> generation[r]]

CelebrationsInv == CelebrationsCohere /\ CelebrationTables /\ GeneratesAlone /\ CreatesFree

LEMMA CelebrationInitHolds == Init => CelebrationsInv
  <1> SUFFICES ASSUME Init PROVE CelebrationsInv
    OBVIOUS
  <1>1. TypeOK
    <2>1. celebration \in [recurrence : Recurrences, weekday : Weekdays, created : Today, active : BOOLEAN]
      BY DEF Init
    <2>2. /\ \A i \in Instances : instance[i] = NoRow
          /\ \A r \in Runs : generation[r] = Idle
          /\ today \in Today /\ faults = 0 /\ raced = FALSE
      BY DEF Init
    <2>3. /\ faults \in 0..MaxFaults
          /\ raced \in BOOLEAN
      <3>1. faults \in 0..MaxFaults
        BY <2>2, MaxFaultsAssumption
      <3>2. raced \in BOOLEAN
        BY <2>2, Zenon
      <3>3. QED
        BY <3>1, <3>2
    <2>4. QED
      BY <2>1, <2>2, <2>3 DEF TypeOK
  <1>2. MadeOnceUnlessRaced /\ GeneratesAlone /\ CreatesFree /\ CelebrationTables
    BY DEF Init, MadeOnceUnlessRaced, GeneratesAlone, CreatesFree, CelebrationTables, Live, NoRow, Idle
  <1>3. QED
    BY <1>1, <1>2 DEF CelebrationsInv, CelebrationsCohere

\* What a generation in progress is.
LEMMA GenerationsTyped ==
  ASSUME TypeOK, NEW r \in Runs
  PROVE  /\ generation[r].op \in {"idle", "check", "create"}
         /\ generation[r] # Idle => generation[r].op # "idle" /\ generation[r].left \in SUBSET Days
         /\ generation[r].op \in {"check", "create"} =>
              generation[r] = [op |-> generation[r].op, left |-> generation[r].left] /\ generation[r] # Idle
  BY DEF TypeOK, Idle

\* A step that makes nothing and starts no generation.
LEMMA CelebrationRest ==
  ASSUME CelebrationsInv, TypeOK', CelebrationTables', UNCHANGED raced,
         \A i \in Instances : Live(i)' /\ instance'[i].by = "scheduler" => Live(i) /\ instance'[i] = instance[i],
         \A r \in Runs : generation'[r] # Idle => generation[r] # Idle,
         \A r \in Runs : generation'[r].op = "create" =>
           \/ generation'[r] = generation[r]
           \/ generation'[r].left # {} /\ ~MadeAt(Earliest(generation'[r].left))
  PROVE  CelebrationsInv'
  <1>1. MadeOnceUnlessRaced'
    BY DEF CelebrationsInv, CelebrationsCohere, MadeOnceUnlessRaced
  <1>2. GeneratesAlone'
    BY DEF CelebrationsInv, GeneratesAlone
  <1>3. ASSUME NEW d, ~MadeAt(d) PROVE ~MadeAt(d)'
    BY <1>3 DEF MadeAt, Live
  <1>4. CreatesFree'
    <2>1. ASSUME NEW r \in Runs, generation'[r].op = "create"
          PROVE  generation'[r].left # {} /\ (raced \/ ~MadeAt(Earliest(generation'[r].left)))
      BY <2>1 DEF CelebrationsInv, CreatesFree
    <2>2. ASSUME NEW r \in Runs, generation'[r].op = "create"
          PROVE  raced \/ ~(\E i \in Instances : Live(i)' /\ instance'[i].by = "scheduler"
                                                          /\ instance'[i].at = At(Earliest(generation'[r].left)))
      BY <2>1, <2>2 DEF MadeAt, Live
    <2>3. QED
      BY <2>1, <2>2 DEF CreatesFree, MadeAt, Live
  <1>5. QED
    BY <1>1, <1>2, <1>4 DEF CelebrationsInv, CelebrationsCohere

LEMMA CelebrationChangesKeep ==
  ASSUME CelebrationsInv,
         \/ NextDay
         \/ \E recurrence \in Recurrences, weekday \in Weekdays : UpdateCelebration(recurrence, weekday)
         \/ RemoveCelebration
  PROVE  CelebrationsInv'
  <1>1. UNCHANGED <<instance, generation, faults, raced>>
    BY DEF NextDay, UpdateCelebration, RemoveCelebration, Change
  <1>2. today' \in Today
    BY DEF NextDay, UpdateCelebration, RemoveCelebration, Change, CelebrationsInv, CelebrationsCohere, TypeOK
  <1>3. celebration' \in [recurrence : Recurrences, weekday : Weekdays, created : Today, active : BOOLEAN]
    BY DEF NextDay, UpdateCelebration, RemoveCelebration, Change, CelebrationsInv, CelebrationsCohere, TypeOK
  <1>4. TypeOK'
    BY <1>1, <1>2, <1>3 DEF CelebrationsInv, CelebrationsCohere, TypeOK
  <1>5. CelebrationTables'
    BY <1>1 DEF CelebrationsInv, CelebrationTables
  <1>6. QED
    BY <1>1, <1>4, <1>5, CelebrationRest DEF Live

\* A new row.
LEMMA CelebrationRowSet ==
  ASSUME CelebrationsInv, NEW i \in Instances, NEW new, instance' = [instance EXCEPT ![i] = new],
         new \in {NoRow, Gone} \cup [row : {"live"}, at : [day : Days, midnight : BOOLEAN], by : {"scheduler", "hand"}]
  PROVE  /\ \A j \in Instances : instance'[j] = IF j = i THEN new ELSE instance[j]
         /\ instance' = [j \in Instances |-> instance'[j]]
         /\ \A j \in Instances :
              \/ instance'[j] \in {NoRow, Gone}
              \/ instance'[j] \in [row : {"live"}, at : [day : Days, midnight : BOOLEAN], by : {"scheduler", "hand"}]
  <1>1. instance = [j \in Instances |-> instance[j]]
    BY DEF CelebrationsInv, CelebrationTables
  <1>2. \A j \in Instances : instance'[j] = IF j = i THEN new ELSE instance[j]
    BY <1>1
  <1>3. instance' = [j \in Instances |-> instance'[j]]
    BY <1>1
  <1>4. QED
    BY <1>2, <1>3 DEF CelebrationsInv, CelebrationsCohere, TypeOK

\* A run in its next step.
LEMMA GenerationSet ==
  ASSUME CelebrationsInv, NEW r \in Runs, NEW next, Generating(r, next),
         next \in {Idle} \cup [op : {"check", "create"}, left : SUBSET Days]
  PROVE  /\ \A q \in Runs : generation'[q] = IF q = r THEN next ELSE generation[q]
         /\ generation' = [q \in Runs |-> generation'[q]]
         /\ \A q \in Runs : generation'[q] \in {Idle} \cup [op : {"check", "create"}, left : SUBSET Days]
  <1>1. generation = [q \in Runs |-> generation[q]] /\ generation' = [generation EXCEPT ![r] = next]
    BY DEF CelebrationsInv, CelebrationTables, Generating
  <1>2. \A q \in Runs : generation'[q] = IF q = r THEN next ELSE generation[q]
    BY <1>1
  <1>3. generation' = [q \in Runs |-> generation'[q]]
    BY <1>1
  <1>4. QED
    BY <1>2, <1>3 DEF CelebrationsInv, CelebrationsCohere, TypeOK

LEMMA CelebrationRowsKeep ==
  ASSUME CelebrationsInv, NEW i \in Instances,
         RemoveInstance(i) \/ \E at \in HandMade : CreateInstance(i, at)
  PROVE  CelebrationsInv'
  <1>1. UNCHANGED <<celebration, today, generation, faults, raced>>
    BY DEF RemoveInstance, CreateInstance, Write
  <1>2. PICK new \in {Gone} \cup [row : {"live"}, at : [day : Days, midnight : BOOLEAN], by : {"hand"}] :
          instance' = [instance EXCEPT ![i] = new]
    <2>1. CASE RemoveInstance(i)
      BY <2>1 DEF RemoveInstance, Write
    <2>2. ASSUME NEW at \in HandMade, CreateInstance(i, at)
          PROVE  /\ NewInstance(at, "hand") \in [row : {"live"}, at : [day : Days, midnight : BOOLEAN], by : {"hand"}]
                 /\ instance' = [instance EXCEPT ![i] = NewInstance(at, "hand")]
      <3>1. at \in [day : Days, midnight : BOOLEAN]
        BY CalendarAssumption
      <3>2. QED
        BY <2>2, <3>1 DEF CreateInstance, Write, NewInstance
    <2>3. QED
      BY <2>1, <2>2
  <1>3. new \in {NoRow, Gone} \cup [row : {"live"}, at : [day : Days, midnight : BOOLEAN], by : {"scheduler", "hand"}]
    OBVIOUS
  <1>4. /\ \A j \in Instances : instance'[j] = IF j = i THEN new ELSE instance[j]
        /\ TypeOK' /\ CelebrationTables'
    BY <1>1, <1>2, <1>3, CelebrationRowSet DEF CelebrationsInv, CelebrationsCohere, TypeOK, CelebrationTables
  <1>5. ~(new.row = "live" /\ new.by = "scheduler")
    BY DEF Gone
  <1>6. QED
    BY <1>1, <1>4, <1>5, CelebrationRest DEF Live

\* A generation begins: when another one runs the two overlap.
LEMMA GenerateKeeps ==
  ASSUME CelebrationsInv, NEW r \in Runs, Generate(r)
  PROVE  CelebrationsInv'
  <1> DEFINE next == [op |-> "check",
                      left |-> TargetDates(celebration.recurrence, celebration.weekday, Anchor, today)]
  <1>1. /\ generation[r] = Idle /\ Generating(r, next)
        /\ raced' = (raced \/ \E q \in Runs : generation[q] # Idle)
        /\ UNCHANGED <<celebration, instance, today, faults>>
    BY DEF Generate
  <1>2. today \in Today /\ raced \in BOOLEAN
    BY DEF CelebrationsInv, CelebrationsCohere, TypeOK
  <1>3. next.left \in SUBSET Days
    BY <1>2, TargetsAreAhead, DaysAhead
  <1>4. next \in {Idle} \cup [op : {"check", "create"}, left : SUBSET Days] /\ next.op = "check"
    BY <1>3
  <1> HIDE DEF next
  <1>5. /\ \A q \in Runs : generation'[q] = IF q = r THEN next ELSE generation[q]
        /\ generation' = [q \in Runs |-> generation'[q]]
        /\ \A q \in Runs : generation'[q] \in {Idle} \cup [op : {"check", "create"}, left : SUBSET Days]
    BY <1>1, <1>4, GenerationSet
  <1>6. TypeOK' /\ CelebrationTables'
    BY <1>1, <1>2, <1>5 DEF CelebrationsInv, CelebrationsCohere, TypeOK, CelebrationTables
  <1>7. raced => raced'
    BY <1>1
  <1>8. MadeOnceUnlessRaced'
    BY <1>1, <1>7 DEF CelebrationsInv, CelebrationsCohere, MadeOnceUnlessRaced, Live
  <1>9. GeneratesAlone'
    BY <1>1, <1>5 DEF GeneratesAlone
  <1>10. CreatesFree'
    BY <1>1, <1>4, <1>5, <1>7 DEF CelebrationsInv, CreatesFree, MadeAt, Live
  <1>11. QED
    BY <1>6, <1>8, <1>9, <1>10 DEF CelebrationsInv, CelebrationsCohere

LEMMA GenerationStopsKeep ==
  ASSUME CelebrationsInv, NEW r \in Runs, GenerationEnds(r) \/ GenerationFails(r)
  PROVE  CelebrationsInv'
  <1>1. /\ Generating(r, Idle) /\ UNCHANGED <<celebration, instance, today, raced>>
        /\ faults' \in 0..MaxFaults
    BY MaxFaultsAssumption DEF GenerationEnds, GenerationFails, CelebrationsInv, CelebrationsCohere, TypeOK
  <1>2. /\ \A q \in Runs : generation'[q] = IF q = r THEN Idle ELSE generation[q]
        /\ generation' = [q \in Runs |-> generation'[q]]
        /\ \A q \in Runs : generation'[q] \in {Idle} \cup [op : {"check", "create"}, left : SUBSET Days]
    BY <1>1, GenerationSet
  <1>3. TypeOK' /\ CelebrationTables'
    BY <1>1, <1>2 DEF CelebrationsInv, CelebrationsCohere, TypeOK, CelebrationTables
  <1>4. Idle.op # "create"
    BY DEF Idle
  <1>5. QED
    BY <1>1, <1>2, <1>3, <1>4, CelebrationRest DEF Live

LEMMA CheckKeeps ==
  ASSUME CelebrationsInv, NEW r \in Runs, Check(r)
  PROVE  CelebrationsInv'
  <1> DEFINE d == Earliest(generation[r].left)
             next == IF Taken(At(d)) THEN [generation[r] EXCEPT !.left = @ \ {d}]
                                     ELSE [generation[r] EXCEPT !.op = "create"]
  <1>1. /\ generation[r].op = "check" /\ generation[r].left # {} /\ Generating(r, next)
        /\ UNCHANGED <<celebration, instance, today, faults, raced>>
    BY DEF Check
  <1>2. generation[r] = [op |-> "check", left |-> generation[r].left] /\ generation[r].left \in SUBSET Days
        /\ generation[r] # Idle
    BY <1>1, GenerationsTyped DEF CelebrationsInv, CelebrationsCohere
  <1>3. /\ next \in {Idle} \cup [op : {"check", "create"}, left : SUBSET Days]
        /\ next.op = "create" => next.left = generation[r].left /\ ~Taken(At(d))
    <2> HIDE DEF d
    <2>1. [generation[r] EXCEPT !.left = @ \ {d}] = [op |-> "check", left |-> generation[r].left \ {d}]
      BY <1>2
    <2>2. [generation[r] EXCEPT !.op = "create"] = [op |-> "create", left |-> generation[r].left]
      BY <1>2
    <2>3. QED
      BY <1>2, <2>1, <2>2
  <1> HIDE DEF next
  <1>4. /\ \A q \in Runs : generation'[q] = IF q = r THEN next ELSE generation[q]
        /\ generation' = [q \in Runs |-> generation'[q]]
        /\ \A q \in Runs : generation'[q] \in {Idle} \cup [op : {"check", "create"}, left : SUBSET Days]
    BY <1>1, <1>3, GenerationSet
  <1>5. TypeOK' /\ CelebrationTables'
    BY <1>1, <1>4 DEF CelebrationsInv, CelebrationsCohere, TypeOK, CelebrationTables
  <1>6. next.op = "create" => next.left # {} /\ ~MadeAt(Earliest(next.left))
    BY <1>1, <1>3 DEF Taken, MadeAt
  <1>7. QED
    BY <1>1, <1>2, <1>4, <1>5, <1>6, CelebrationRest DEF Live

LEMMA MakeKeeps ==
  ASSUME CelebrationsInv, NEW r \in Runs, NEW i \in Instances, Make(r, i)
  PROVE  CelebrationsInv'
  <1> DEFINE d == Earliest(generation[r].left)
             new == NewInstance(At(d), "scheduler")
             next == [op |-> "check", left |-> generation[r].left \ {d}]
  <1>1. /\ generation[r].op = "create" /\ instance[i] = NoRow
        /\ instance' = [instance EXCEPT ![i] = new] /\ Generating(r, next)
        /\ UNCHANGED <<celebration, today, faults, raced>>
    BY DEF Make, Write
  <1>2. generation[r].left \in SUBSET Days /\ generation[r] # Idle /\ generation[r].left # {}
        /\ (raced \/ ~MadeAt(d))
    BY <1>1, GenerationsTyped DEF CelebrationsInv, CelebrationsCohere, CreatesFree
  <1>3. d \in Days
    BY <1>2, EarliestIsOne
  <1> HIDE DEF d
  <1>4. /\ new \in [row : {"live"}, at : [day : Days, midnight : BOOLEAN], by : {"scheduler", "hand"}]
        /\ new.at = At(d)
    BY <1>3 DEF NewInstance, At
  <1>5. next \in {Idle} \cup [op : {"check", "create"}, left : SUBSET Days] /\ next.op = "check"
    BY <1>2
  <1> HIDE DEF new, next
  <1>6. /\ \A j \in Instances : instance'[j] = IF j = i THEN new ELSE instance[j]
        /\ instance' = [j \in Instances |-> instance'[j]]
        /\ \A j \in Instances :
             \/ instance'[j] \in {NoRow, Gone}
             \/ instance'[j] \in [row : {"live"}, at : [day : Days, midnight : BOOLEAN], by : {"scheduler", "hand"}]
    BY <1>1, <1>4, CelebrationRowSet
  <1>7. /\ \A q \in Runs : generation'[q] = IF q = r THEN next ELSE generation[q]
        /\ generation' = [q \in Runs |-> generation'[q]]
        /\ \A q \in Runs : generation'[q] \in {Idle} \cup [op : {"check", "create"}, left : SUBSET Days]
    BY <1>1, <1>5, GenerationSet
  <1>8. TypeOK' /\ CelebrationTables'
    BY <1>1, <1>6, <1>7 DEF CelebrationsInv, CelebrationsCohere, TypeOK, CelebrationTables
  <1>9. MadeOnceUnlessRaced'
    <2>1. raced \/ \A j \in Instances : ~(Live(j) /\ instance[j].by = "scheduler" /\ instance[j].at = new.at)
      BY <1>2, <1>4 DEF MadeAt
    <2>2. QED
      BY <1>1, <1>6, <2>1 DEF CelebrationsInv, CelebrationsCohere, MadeOnceUnlessRaced, Live
  <1>10. GeneratesAlone'
    BY <1>1, <1>2, <1>7 DEF CelebrationsInv, GeneratesAlone
  <1>11. CreatesFree'
    <2>1. ASSUME NEW q \in Runs, generation'[q].op = "create"
          PROVE  q # r /\ generation'[q] = generation[q] /\ generation[q] # Idle
      BY <1>5, <1>7, <2>1 DEF Idle
    <2>2. ASSUME NEW q \in Runs, generation'[q].op = "create" PROVE raced' /\ generation'[q].left # {}
      BY <1>1, <1>2, <2>1, <2>2 DEF CelebrationsInv, GeneratesAlone, CreatesFree
    <2>3. QED
      BY <2>2 DEF CreatesFree
  <1>12. QED
    BY <1>8, <1>9, <1>10, <1>11 DEF CelebrationsInv, CelebrationsCohere

LEMMA CelebrationNextKeeps == CelebrationsInv /\ [Next]_celebrationVars => CelebrationsInv'
  <1> SUFFICES ASSUME CelebrationsInv, [Next]_celebrationVars PROVE CelebrationsInv'
    OBVIOUS
  <1>1. CASE UNCHANGED celebrationVars
    BY <1>1 DEF celebrationVars, CelebrationsInv, CelebrationsCohere, TypeOK, CelebrationTables,
       MadeOnceUnlessRaced,
                GeneratesAlone, CreatesFree, MadeAt, Live
  <1>2. CASE Next
    BY <1>2, CelebrationChangesKeep, CelebrationRowsKeep, GenerateKeeps, GenerationStopsKeep, CheckKeeps,
       MakeKeeps
       DEF Next
  <1>3. QED
    BY <1>1, <1>2

\* Whatever two processes, the secretaries and the faults do, the scheduler
\* makes a date of a celebration once unless two generations overlapped.
THEOREM CelebrationsStayCoherent == AllSpec => []CelebrationsCohere
  <1>1. AllInit => CelebrationsInv
    BY CelebrationInitHolds DEF AllInit
  <1>2. CelebrationsInv /\ [AllNext]_allVars => CelebrationsInv'
    BY PartsMoveAlone, CelebrationNextKeeps
  <1>3. CelebrationsInv => CelebrationsCohere
    BY DEF CelebrationsInv
  <1>4. QED
    BY <1>1, <1>2, <1>3, PTL DEF AllSpec

-----------------------------------------------------------------------------
(* Celebrations: the dates.                                                 *)

Occurrences(now, weekday) == {d \in Ahead(now) : Weekday(d) = weekday}

FirstOfMonth(now, weekday) ==
  {d \in Occurrences(now, weekday) : \A e \in MonthStart[MonthOf(d)]..d : Weekday(e) = weekday => e = d}

\* The next day of the week is within a week, and the only one till then.
LEMMA NextOrSameIsNext ==
  ASSUME NEW day \in Int, NEW weekday \in Weekdays
  PROVE  /\ NextOrSame(day, weekday) \in day..(day + 6)
         /\ Weekday(NextOrSame(day, weekday)) = weekday
         /\ \A d \in day..NextOrSame(day, weekday) : Weekday(d) = weekday => d = NextOrSame(day, weekday)
  <1>1. FirstWeekday \in Int /\ weekday \in 0..6
    BY CalendarAssumption
  <1>2. /\ NextOrSame(day, weekday) \in day..(day + 6)
        /\ Weekday(NextOrSame(day, weekday)) = weekday
    BY <1>1 DEF NextOrSame, Weekday
  <1> DEFINE next == NextOrSame(day, weekday)
  <1> HIDE DEF next
  <1>3. ASSUME NEW d \in day..next, Weekday(d) = weekday, next \in day..(day + 6), Weekday(next) = weekday
        PROVE  d = next
    BY <1>1, <1>3 DEF Weekday
  <1>4. QED
    BY <1>2, <1>3 DEF next

LEMMA WeeklyDates ==
  ASSUME NEW now \in Int, NEW weekday \in Weekdays, NEW anchor
  PROVE  TargetDates("weekly", weekday, anchor, now) = Occurrences(now, weekday)
  <1>1. TargetDates("weekly", weekday, anchor, now)
        = {d \in Ahead(now) : \E k \in 0..2 : d = NextOrSame(now, weekday) + 7 * k}
    BY DEF TargetDates
  <1>2. FirstWeekday \in Int /\ weekday \in 0..6 /\ Ahead(now) = now..(now + 14)
    BY CalendarAssumption DEF Ahead, Window
  <1>3. ASSUME NEW d \in now..(now + 14)
        PROVE  (\E k \in 0..2 : d = NextOrSame(now, weekday) + 7 * k) <=> Weekday(d) = weekday
    BY <1>2 DEF NextOrSame, Weekday
  <1>4. QED
    BY <1>1, <1>2, <1>3 DEF Occurrences

LEMMA BiweeklyDates ==
  ASSUME NEW now \in Int, NEW weekday, NEW first \in Ahead(now)
  PROVE  TargetDates("biweekly", weekday, first, now) = {d \in {first, first + 14} : d \in Ahead(now)}
  <1>1. TargetDates("biweekly", weekday, first, now) = {d \in Ahead(now) : d >= first /\ (d - first) % 14 = 0}
    BY DEF TargetDates
  <1>2. Ahead(now) = now..(now + 14)
    BY DEF Ahead, Window
  <1>3. ASSUME NEW d \in now..(now + 14)
        PROVE  d >= first /\ (d - first) % 14 = 0 <=> d = first \/ d = first + 14
    BY <1>2
  <1>4. QED
    BY <1>1, <1>2, <1>3

\* The first such weekday of a month is in the month, and the only one so far.
LEMMA FirstInMonthIsFirst ==
  ASSUME NEW weekday \in Weekdays, NEW m \in 0..LastMonth, m + 1 \in 0..LastMonth
  PROVE  /\ FirstInMonth(m, weekday) \in Int /\ MonthOf(FirstInMonth(m, weekday)) = m
         /\ MonthStart[m] <= FirstInMonth(m, weekday)
         /\ Weekday(FirstInMonth(m, weekday)) = weekday
         /\ \A d \in MonthStart[m]..FirstInMonth(m, weekday) :
              Weekday(d) = weekday => d = FirstInMonth(m, weekday)
  <1> DEFINE first == FirstInMonth(m, weekday)
  <1>1. MonthStart[m] \in Int /\ MonthStart[m + 1] \in Int /\ MonthStart[m] + 28 <= MonthStart[m + 1] /\ m < LastMonth
    BY MonthsOrdered
  <1>2. /\ first \in MonthStart[m]..(MonthStart[m] + 6)
        /\ Weekday(first) = weekday
        /\ \A d \in MonthStart[m]..first : Weekday(d) = weekday => d = first
    BY <1>1, NextOrSameIsNext DEF FirstInMonth
  <1> HIDE DEF first
  <1>3. first \in Int /\ MonthStart[m] <= first /\ first < MonthStart[m + 1]
    BY <1>1, <1>2
  <1>4. MonthOf(first) = m
    BY <1>1, <1>3, MonthFound
  <1>5. QED
    BY <1>2, <1>3, <1>4 DEF first

LEMMA MonthlyDates ==
  ASSUME NEW now \in Today, NEW weekday \in Weekdays, NEW anchor
  PROVE  /\ TargetDates("monthly", weekday, anchor, now) \subseteq FirstOfMonth(now, weekday)
         /\ MonthOf(SameDayNextMonth(now)) = MonthOf(now) + 1 =>
              FirstOfMonth(now, weekday) \subseteq TargetDates("monthly", weekday, anchor, now)
  <1>1. TargetDates("monthly", weekday, anchor, now)
        = {FirstInMonth(MonthOf(ref), weekday) : ref \in {now, SameDayNextMonth(now)}} \cap Ahead(now)
    BY DEF TargetDates
  <1>2. now \in Nat /\ Ahead(now) = now..(now + 14)
    BY HorizonAssumption DEF Ahead, Window
  <1>3. \A d \in Ahead(now) \cup {SameDayNextMonth(now)} :
          /\ MonthOf(d) \in 0..LastMonth /\ MonthOf(d) + 1 \in 0..LastMonth
          /\ MonthStart[MonthOf(d)] <= d /\ d < MonthStart[MonthOf(d) + 1]
    BY DaysAhead
  <1>4. now \in Ahead(now)
    BY <1>2
  <1>5. ASSUME NEW ref \in {now, SameDayNextMonth(now)}, FirstInMonth(MonthOf(ref), weekday) \in Ahead(now)
        PROVE  FirstInMonth(MonthOf(ref), weekday) \in FirstOfMonth(now, weekday)
    <2>1. MonthOf(ref) \in 0..LastMonth /\ MonthOf(ref) + 1 \in 0..LastMonth
      BY <1>3, <1>4
    <2>2. QED
      BY <1>5, <2>1, FirstInMonthIsFirst DEF FirstOfMonth, Occurrences
  <1>6. ASSUME MonthOf(SameDayNextMonth(now)) = MonthOf(now) + 1, NEW d \in FirstOfMonth(now, weekday)
        PROVE  d \in TargetDates("monthly", weekday, anchor, now)
    <2> DEFINE m == MonthOf(now)
               k == MonthOf(d)
               first == FirstInMonth(k, weekday)
    <2>1. /\ d \in Ahead(now) /\ Weekday(d) = weekday /\ d \in now..(now + 14)
          /\ \A e \in MonthStart[k]..d : Weekday(e) = weekday => e = d
      BY <1>2 DEF FirstOfMonth, Occurrences
    <2>2. /\ m \in 0..LastMonth /\ m + 1 \in 0..LastMonth /\ MonthStart[m] <= now /\ now < MonthStart[m + 1]
          /\ k \in 0..LastMonth /\ k + 1 \in 0..LastMonth /\ MonthStart[k] <= d /\ d < MonthStart[k + 1]
      BY <1>3, <1>4, <2>1
    <2>3. /\ first \in Int /\ MonthStart[k] <= first /\ Weekday(first) = weekday
          /\ \A e \in MonthStart[k]..first : Weekday(e) = weekday => e = first
      BY <2>2, FirstInMonthIsFirst
    <2> HIDE DEF m, k, first
    <2>4. \A n \in 0..LastMonth : MonthStart[n] \in Nat
      BY MonthsOrdered
    <2>5. first = d
      <3>1. CASE first <= d
        BY <2>1, <2>2, <2>3, <2>4, <3>1
      <3>2. CASE d < first
        BY <2>1, <2>2, <2>3, <2>4, <3>2
      <3>3. QED
        BY <2>1, <2>3, <3>1, <3>2
    <2>6. ~(m + 1 < k)
      <3>1. m + 1 < k => MonthStart[m + 1] + 28 <= MonthStart[k]
        BY <2>2, MonthsOrdered
      <3>2. /\ now \in Nat /\ d \in Nat /\ d <= now + 14
            /\ MonthStart[m] \in Nat /\ MonthStart[m + 1] \in Nat /\ MonthStart[k] \in Nat
        BY <2>1, <2>2, <2>4, <1>2
      <3>3. now < MonthStart[m + 1] /\ MonthStart[k] <= d
        BY <2>2
      <3>4. QED
        BY <3>1, <3>2, <3>3
    <2>7. ~(k < m)
      <3>1. k < m => k + 1 = m \/ k + 1 < m
        BY <2>2, MonthsOrdered
      <3>2. k + 1 < m => MonthStart[k + 1] + 28 <= MonthStart[m]
        BY <2>2, MonthsOrdered
      <3>3. QED
        BY <2>1, <2>2, <2>4, <3>1, <3>2, <1>2
    <2>8. k = m \/ k = m + 1
      BY <2>2, <2>6, <2>7, MonthsOrdered
    <2>9. \E ref \in {now, SameDayNextMonth(now)} : k = MonthOf(ref)
      BY <1>6, <2>8 DEF m
    <2>10. QED
      BY <1>1, <2>1, <2>5, <2>9 DEF first
  <1>7. QED
    BY <1>1, <1>5, <1>6

\* On every day the clock shows, the dates of a celebration are those its
\* rhythm means, whatever the calendar: each occurrence of its weekday in the
\* window, the anchor and two weeks later, or the first such weekday of a month.
THEOREM DatesAreOccurrences == AllSpec => []TargetsAreOccurrences
  <1>1. ASSUME CelebrationsInv PROVE TargetsAreOccurrences
    <2>1. today \in Today /\ today \in Int
      BY <1>1, HorizonAssumption DEF CelebrationsInv, CelebrationsCohere, TypeOK
    <2>2. ASSUME NEW weekday \in Weekdays
          PROVE  /\ TargetDates("weekly", weekday, today, today) = Occurrences(today, weekday)
                 /\ \A first \in Occurrences(today, weekday) \cup {today} :
                      TargetDates("biweekly", weekday, first, today) = {d \in {first, first + 14} : d \in Ahead(today)}
                 /\ MonthOf(SameDayNextMonth(today)) = MonthOf(today) + 1 =>
                      TargetDates("monthly", weekday, today, today) = FirstOfMonth(today, weekday)
                 /\ TargetDates("monthly", weekday, today, today) \subseteq FirstOfMonth(today, weekday)
      <3>1. \A first \in Occurrences(today, weekday) \cup {today} : first \in Ahead(today)
        BY <2>1 DEF Occurrences, Ahead, Window
      <3>2. TargetDates("weekly", weekday, today, today) = Occurrences(today, weekday)
        BY <2>1, WeeklyDates
      <3>3. ASSUME NEW first \in Occurrences(today, weekday) \cup {today}
            PROVE  TargetDates("biweekly", weekday, first, today) = {d \in {first, first + 14} : d \in Ahead(today)}
        BY <2>1, <3>1, BiweeklyDates
      <3>4. /\ TargetDates("monthly", weekday, today, today) \subseteq FirstOfMonth(today, weekday)
            /\ MonthOf(SameDayNextMonth(today)) = MonthOf(today) + 1 =>
                 FirstOfMonth(today, weekday) \subseteq TargetDates("monthly", weekday, today, today)
        BY <2>1, MonthlyDates
      <3>5. QED
        BY <3>2, <3>3, <3>4
    <2>3. QED
      BY <2>2 DEF TargetsAreOccurrences, Occurrences, FirstOfMonth
  <1>2. AllInit => CelebrationsInv
    BY CelebrationInitHolds DEF AllInit
  <1>3. CelebrationsInv /\ [AllNext]_allVars => CelebrationsInv'
    BY PartsMoveAlone, CelebrationNextKeeps
  <1>4. QED
    BY <1>1, <1>2, <1>3, PTL DEF AllSpec

-----------------------------------------------------------------------------
(* Notifications.                                                           *)

Filter(key, value) == [key |-> key, value |-> value]

\* Everything a list of the criteria can hold.
FiltersOf(criteria) ==
  {Push!Or} \cup {Filter(k, v) : k \in Push!Keys, v \in UNION {criteria[l] : l \in Push!Keys}}

\* Filters of the key at the odd places, each value at one of them, and OR
\* at the even ones.
Alternates(list, key, values) ==
  /\ \A n \in 1..Len(list) : n % 2 = 0 => list[n] = Push!Or
  /\ \A n \in 1..Len(list) : n % 2 = 1 => list[n] # Push!Or /\ \E v \in values : list[n] = Filter(key, v)
  /\ \A v \in values : \E n \in 1..Len(list) : n % 2 = 1 /\ list[n] = Filter(key, v)

LEMMA OrIsNoFilter == \A key, value : Filter(key, value) # Push!Or
  <1> SUFFICES ASSUME NEW key, NEW value PROVE Filter(key, value) # Push!Or
    OBVIOUS
  <1>1. "key" \in DOMAIN Filter(key, value)
    BY DEF Filter
  <1>2. "key" \notin DOMAIN Push!Or
    BY DEF Push!Or
  <1>3. QED
    BY <1>1, <1>2

LEMMA PushCounts == \A S : Push!Cardinality(S) = Cardinality(S)
  BY DEF Push!Cardinality, Cardinality

\* Every value has a place in the order of a finite set.
LEMMA ValuesInOrder ==
  ASSUME NEW values, IsFiniteSet(values)
  PROVE  /\ Push!SetToSeq(values) \in [1..Cardinality(values) -> values]
         /\ \A v \in values : \E n \in 1..Cardinality(values) : Push!SetToSeq(values)[n] = v
  <1> DEFINE order == Push!SetToSeq(values)
             places == 1..Cardinality(values)
  <1>1. Cardinality(values) \in Nat /\ ExistsBijection(places, values)
    BY FS_CardinalityType
  <1>2. \E f \in [places -> values] : Push!IsInjective(f)
    BY <1>1 DEF ExistsBijection, Bijection, Injection, IsInjective, Push!IsInjective
  <1>3. order \in [places -> values] /\ Push!IsInjective(order)
    BY <1>2, PushCounts DEF Push!SetToSeq
  <1>4. order \in Injection(places, values)
    BY <1>3 DEF Injection, IsInjective, Push!IsInjective
  <1>5. IsFiniteSet(places) /\ Cardinality(places) = Cardinality(values)
    BY <1>1, FS_Interval
  <1>6. order \in Surjection(places, values)
    BY <1>4, <1>5, FS_Injection
  <1>7. QED
    BY <1>3, <1>6 DEF Surjection

LEMMA OrGroupAlternates ==
  ASSUME NEW key \in Push!Keys, NEW values, IsFiniteSet(values), NEW S,
         Push!Or \in S, \A v \in values : Filter(key, v) \in S
  PROVE  /\ Push!OrGroup(key, values) \in Seq(S)
         /\ Alternates(Push!OrGroup(key, values), key, values)
         /\ values = {} => Push!OrGroup(key, values) = <<>>
         /\ values # {} => Len(Push!OrGroup(key, values)) % 2 = 1
         /\ (\A v, w \in values : v = w) => Len(Push!OrGroup(key, values)) <= 1
  <1> DEFINE list == Push!OrGroup(key, values)
             order == Push!SetToSeq(values)
             count == Cardinality(values)
  <1>1. count \in Nat /\ (count = 0 <=> values = {})
    BY FS_CardinalityType, FS_EmptySet
  <1>2. order \in [1..count -> values] /\ \A v \in values : \E n \in 1..count : order[n] = v
    BY ValuesInOrder
  <1>3. list = [n \in 1..(2 * count - 1) |-> IF n % 2 = 0 THEN Push!Or ELSE Filter(key, order[(n + 1) \div 2])]
    BY PushCounts DEF Push!OrGroup, Filter
  <1> HIDE DEF list, order, count
  <1>4. \A n \in 1..(2 * count - 1) : n % 2 = 1 => (n + 1) \div 2 \in 1..count
    BY <1>1
  <1>5. \A n \in 1..(2 * count - 1) : list[n] \in S
    BY <1>2, <1>3, <1>4
  <1>6. list \in Seq(S) /\ Len(list) = IF count = 0 THEN 0 ELSE 2 * count - 1
    <2> DEFINE m == IF count = 0 THEN 0 ELSE 2 * count - 1
    <2>1. m \in Nat /\ 1..m = 1..(2 * count - 1)
      BY <1>1
    <2> HIDE DEF m
    <2>2. list \in [1..m -> S]
      BY <1>3, <1>5, <2>1
    <2>3. list \in Seq(S) /\ Len(list) = m
      BY <2>1, <2>2
    <2>4. QED
      BY <2>3 DEF m
  <1>7. \A n \in 1..Len(list) : n \in 1..(2 * count - 1)
    BY <1>1, <1>6
  <1>8. \A n \in 1..Len(list) : n % 2 = 0 => list[n] = Push!Or
    BY <1>3, <1>7
  <1>9. ASSUME NEW n \in 1..Len(list), n % 2 = 1
        PROVE  list[n] # Push!Or /\ \E v \in values : list[n] = Filter(key, v)
    <2>1. n \in 1..(2 * count - 1) /\ list[n] = Filter(key, order[(n + 1) \div 2])
      BY <1>3, <1>7, <1>9
    <2>2. order[(n + 1) \div 2] \in values
      BY <1>2, <1>4, <1>9, <2>1
    <2>3. QED
      BY <2>1, <2>2, OrIsNoFilter
  <1>10. ASSUME NEW v \in values
         PROVE  \E n \in 1..Len(list) : n % 2 = 1 /\ list[n] = Filter(key, v)
    <2>1. PICK k \in 1..count : order[k] = v
      BY <1>2
    <2>2. /\ 2 * k - 1 \in 1..Len(list) /\ 2 * k - 1 \in 1..(2 * count - 1)
          /\ (2 * k - 1) % 2 = 1 /\ ((2 * k - 1) + 1) \div 2 = k
      BY <1>1, <1>6
    <2>3. list[2 * k - 1] = Filter(key, v)
      BY <1>3, <2>1, <2>2
    <2>4. QED
      BY <2>2, <2>3
  <1>11. Alternates(list, key, values)
    BY <1>8, <1>9, <1>10 DEF Alternates
  <1>12. values = {} => list = <<>>
    BY <1>1, <1>6
  <1>13. values # {} => Len(list) % 2 = 1
    BY <1>1, <1>6
  <1>14. (\A v, w \in values : v = w) => Len(list) <= 1
    <2>1. ASSUME \A v, w \in values : v = w, values # {} PROVE count = 1
      <3>1. PICK v \in values : TRUE
        BY <2>1
      <3>2. values = {v}
        BY <2>1
      <3>3. QED
        BY <3>2, FS_Singleton DEF count
    <2>2. QED
      BY <1>1, <1>6, <2>1
  <1>15. QED
    BY <1>6, <1>11, <1>12, <1>13, <1>14 DEF list

\* A device that holds a filter before one OR after another is matched by the
\* list, and stays so when a list follows that matches it.
LEMMA MatchesGroup ==
  ASSUME NEW list, NEW device, NEW f \in DOMAIN list, NEW l \in DOMAIN list, f <= l,
         f = 1 \/ list[f - 1] = Push!Or, l = Len(list) \/ list[l + 1] = Push!Or,
         \A n \in f..l : list[n] # Push!Or /\ Push!Holds(list[n], device)
  PROVE  Push!Matches(list, device)
  BY DEF Push!Matches

\* Even places are next to an odd one.
LEMMA OddPlaces ==
  ASSUME NEW a \in Nat, NEW n \in 1..a, n % 2 = 1, a % 2 = 1
  PROVE  /\ n = 1 \/ (n - 1 \in 1..a /\ (n - 1) % 2 = 0)
         /\ n = a \/ (n + 1 \in 1..a /\ (n + 1) % 2 = 0)
  OBVIOUS

OrAtEven(list) == \A n \in 1..Len(list) : list[n] = Push!Or <=> n % 2 = 0

LEMMA GroupBefore ==
  ASSUME NEW S, NEW g \in Seq(S), NEW y \in Seq(S), NEW device, NEW p \in 1..Len(g),
         OrAtEven(g), Len(g) % 2 = 1, p % 2 = 1, Push!Holds(g[p], device), y = <<>> \/ Push!Matches(y, device)
  PROVE  Push!Matches(g \o y, device)
  <1> DEFINE list == g \o y
             a == Len(g)
  <1>1. /\ a \in Nat /\ Len(y) \in Nat /\ Len(list) = a + Len(y) /\ DOMAIN list = 1..Len(list)
        /\ \A n \in 1..a : list[n] = g[n]
        /\ \A n \in 1..Len(y) : list[a + n] = y[n]
    OBVIOUS
  <1>2. /\ p \in 1..a
        /\ p = 1 \/ (p - 1 \in 1..a /\ (p - 1) % 2 = 0)
        /\ p = a \/ (p + 1 \in 1..a /\ (p + 1) % 2 = 0)
    BY <1>1, OddPlaces
  <1>3. \A n \in 1..a : n % 2 = 0 => list[n] = Push!Or
    BY <1>1 DEF OrAtEven
  <1>4. Push!Holds(list[p], device)
    BY <1>1
  <1> SUFFICES Push!Matches(list, device)
    OBVIOUS
  <1> HIDE DEF list, a
  <1>5. list[p] # Push!Or /\ (p = 1 \/ list[p - 1] = Push!Or) /\ p \in DOMAIN list
    <2>1. p \in 1..Len(list)
      BY <1>1, <1>2
    <2>2. list[p] # Push!Or
      BY <1>1, <1>2 DEF OrAtEven, a
    <2>3. QED
      BY <1>1, <1>2, <1>3, <2>1, <2>2
  <1>6. CASE p < a \/ y = <<>>
    <2>1. p = Len(list) \/ list[p + 1] = Push!Or
      <3>1. CASE p < a
        BY <1>1, <1>2, <1>3, <3>1
      <3>2. CASE y = <<>> /\ p = a
        BY <1>1, <3>2
      <3>3. QED
        BY <1>1, <1>2, <1>6, <3>1, <3>2
    <2>2. \A n \in p..p : n = p
      BY <1>2
    <2>3. p <= p
      BY <1>2
    <2>4. QED
      BY <1>4, <1>5, <2>1, <2>2, <2>3, MatchesGroup
  <1>7. CASE p = a /\ y # <<>>
    <2>1. PICK first, last \in DOMAIN y :
            /\ first <= last
            /\ first = 1 \/ y[first - 1] = Push!Or
            /\ last = Len(y) \/ y[last + 1] = Push!Or
            /\ \A n \in first..last : y[n] # Push!Or /\ Push!Holds(y[n], device)
      BY <1>7 DEF Push!Matches
    <2>2. DOMAIN y = 1..Len(y) /\ first \in 1..Len(y) /\ last \in 1..Len(y)
      BY <2>1
    <2>3. /\ a + last \in DOMAIN list
          /\ a + last = Len(list) \/ list[a + last + 1] = Push!Or
      <3>1. a + last \in DOMAIN list
        BY <1>1, <2>2
      <3>2. CASE last = Len(y)
        BY <1>1, <3>1, <3>2
      <3>3. CASE last # Len(y)
        <4>1. last + 1 \in 1..Len(y) /\ y[last + 1] = Push!Or /\ a + last + 1 = a + (last + 1)
          BY <1>1, <2>1, <2>2, <3>3
        <4>2. QED
          BY <1>1, <3>1, <4>1
      <3>4. QED
        BY <3>2, <3>3
    <2>4. \A n \in (a + first)..(a + last) : list[n] # Push!Or /\ Push!Holds(list[n], device)
      <3> SUFFICES ASSUME NEW n \in (a + first)..(a + last)
          PROVE  list[n] # Push!Or /\ Push!Holds(list[n], device)
        OBVIOUS
      <3>1. n - a \in first..last /\ n - a \in 1..Len(y) /\ n = a + (n - a)
        BY <1>1, <2>2
      <3>2. list[n] = y[n - a]
        BY <1>1, <3>1
      <3>3. QED
        BY <2>1, <3>1, <3>2
    <2>5. CASE first = 1
      <3>1. \A n \in p..(a + last) : n = p \/ n \in (a + first)..(a + last)
        BY <1>1, <1>7, <2>2, <2>5
      <3>2. p <= a + last
        BY <1>1, <1>7, <2>2
      <3>3. \A n \in p..(a + last) : list[n] # Push!Or /\ Push!Holds(list[n], device)
        BY <1>4, <1>5, <2>4, <3>1
      <3> DEFINE l == a + last
      <3>4. /\ l \in DOMAIN list /\ p <= l /\ (l = Len(list) \/ list[l + 1] = Push!Or)
            /\ \A n \in p..l : list[n] # Push!Or /\ Push!Holds(list[n], device)
        BY <2>3, <3>2, <3>3
      <3> HIDE DEF l
      <3>5. p \in DOMAIN list /\ (p = 1 \/ list[p - 1] = Push!Or)
        BY <1>5
      <3>6. QED
        BY <3>4, <3>5, MatchesGroup
    <2>6. CASE first # 1
      <3>1. first - 1 \in 1..Len(y) /\ y[first - 1] = Push!Or
        BY <1>1, <2>1, <2>2, <2>6
      <3>2. list[(a + first) - 1] = Push!Or
        <4>1. list[a + (first - 1)] = y[first - 1]
          BY <1>1, <3>1
        <4>2. (a + first) - 1 = a + (first - 1)
          BY <1>1, <2>2
        <4>3. QED
          BY <3>1, <4>1, <4>2
      <3>3. a + first \in DOMAIN list /\ a + first <= a + last
        BY <1>1, <2>1, <2>2
      <3>4. QED
        BY <2>3, <2>4, <3>2, <3>3, MatchesGroup
    <2>7. QED
      BY <2>5, <2>6
  <1>8. QED
    BY <1>1, <1>2, <1>6, <1>7

\* A list of groups of one key, matched: the first filter of the group is one
\* of its values.
LEMMA OneKeyMatched ==
  ASSUME NEW key \in Push!Keys, NEW values, NEW S, NEW g \in Seq(S), NEW device,
         Alternates(g, key, values), Push!Matches(g, device)
  PROVE  device[key] \in values
  <1>1. PICK first \in DOMAIN g :
          /\ first = 1 \/ g[first - 1] = Push!Or
          /\ g[first] # Push!Or /\ Push!Holds(g[first], device)
    <2>1. PICK first, last \in DOMAIN g :
            /\ first <= last
            /\ first = 1 \/ g[first - 1] = Push!Or
            /\ \A n \in first..last : g[n] # Push!Or /\ Push!Holds(g[n], device)
      BY DEF Push!Matches
    <2>2. first \in first..last
      BY <2>1
    <2>3. QED
      BY <2>1, <2>2
  <1>2. first \in 1..Len(g) /\ first % 2 = 1
    <2>1. first \in 1..Len(g)
      OBVIOUS
    <2>2. first % 2 = 0 \/ first % 2 = 1
      BY <2>1
    <2>3. QED
      BY <1>1, <2>1, <2>2 DEF Alternates
  <1>3. PICK v \in values : g[first] = Filter(key, v)
    BY <1>2 DEF Alternates
  <1>4. g[first].key = key /\ g[first].value = v /\ key # "tenant"
    BY <1>3 DEF Filter, Push!Keys
  <1>5. QED
    BY <1>1, <1>4 DEF Push!Holds

\* A list without OR is matched as a whole.
LEMMA AllMatched ==
  ASSUME NEW S, NEW g \in Seq(S), NEW device, Push!Matches(g, device),
         \A n \in 1..Len(g) : g[n] # Push!Or
  PROVE  \A n \in 1..Len(g) : Push!Holds(g[n], device)
  <1>1. PICK first, last \in DOMAIN g :
          /\ first <= last
          /\ first = 1 \/ g[first - 1] = Push!Or
          /\ last = Len(g) \/ g[last + 1] = Push!Or
          /\ \A n \in first..last : g[n] # Push!Or /\ Push!Holds(g[n], device)
    BY DEF Push!Matches
  <1>2. Len(g) \in Nat /\ first \in 1..Len(g) /\ last \in 1..Len(g)
    BY <1>1
  <1>3. first = 1
    <2>1. first # 1 => first - 1 \in 1..Len(g)
      BY <1>2
    <2>2. QED
      BY <1>1, <2>1
  <1>4. last = Len(g)
    <2>1. last # Len(g) => last + 1 \in 1..Len(g)
      BY <1>2
    <2>2. QED
      BY <1>1, <2>1
  <1>5. QED
    BY <1>1, <1>3, <1>4

HasNoOr(list) == \A n \in 1..Len(list) : list[n] # Push!Or

HoldsAll(list, x) == \A n \in 1..Len(x) : \E m \in 1..Len(list) : list[m] = x[n]

LEMMA HeldThrough ==
  ASSUME NEW x, NEW y, NEW z, HoldsAll(y, x), HoldsAll(z, y)
  PROVE  HoldsAll(z, x)
  <1> SUFFICES ASSUME NEW n \in 1..Len(x) PROVE \E m \in 1..Len(z) : z[m] = x[n]
    BY DEF HoldsAll
  <1>1. PICK k \in 1..Len(y) : y[k] = x[n]
    BY DEF HoldsAll
  <1>2. PICK m \in 1..Len(z) : z[m] = y[k]
    BY DEF HoldsAll
  <1>3. QED
    BY <1>1, <1>2

\* What two lists hold, joined.
LEMMA ListsJoined ==
  ASSUME NEW S, NEW x \in Seq(S), NEW y \in Seq(S), HasNoOr(x), HasNoOr(y)
  PROVE  x \o y \in Seq(S) /\ HasNoOr(x \o y) /\ HoldsAll(x \o y, x) /\ HoldsAll(x \o y, y)
  <1> DEFINE list == x \o y
             a == Len(x)
  <1>1. /\ a \in Nat /\ Len(y) \in Nat /\ Len(list) = a + Len(y) /\ list \in Seq(S)
        /\ \A n \in 1..a : list[n] = x[n]
        /\ \A n \in 1..Len(y) : list[a + n] = y[n]
    OBVIOUS
  <1>2. SUFFICES /\ \A n \in 1..Len(list) : list[n] # Push!Or
                 /\ \A n \in 1..a : \E m \in 1..Len(list) : list[m] = x[n]
                 /\ \A n \in 1..Len(y) : \E m \in 1..Len(list) : list[m] = y[n]
    BY <1>1 DEF HasNoOr, HoldsAll
  <1>3. (\A n \in 1..a : x[n] # Push!Or) /\ (\A n \in 1..Len(y) : y[n] # Push!Or)
    BY DEF HasNoOr
  <1> HIDE DEF list, a
  <1>4. ASSUME NEW n \in 1..Len(list) PROVE list[n] # Push!Or
    <2>1. n \in 1..a \/ (n - a \in 1..Len(y) /\ n = a + (n - a))
      BY <1>1
    <2>2. CASE n \in 1..a
      BY <1>1, <1>3, <2>2
    <2>3. CASE n - a \in 1..Len(y) /\ n = a + (n - a)
      <3>1. list[a + (n - a)] = y[n - a]
        BY <1>1, <2>3
      <3>2. QED
        BY <1>3, <2>3, <3>1
    <2>4. QED
      BY <2>1, <2>2, <2>3
  <1>5. \A n \in 1..a : n \in 1..Len(list)
    BY <1>1
  <1>6. \A n \in 1..Len(y) : a + n \in 1..Len(list)
    BY <1>1
  <1>7. QED
    BY <1>1, <1>4, <1>5, <1>6

\* The three groups of a segment's list.
Part(criteria, key) == Push!OrGroup(key, criteria[key])

Parts(criteria) == Part(criteria, "congregation") \o (Part(criteria, "group") \o Part(criteria, "role"))

LEMMA PartsOfCriteria ==
  ASSUME NEW criteria \in Criteria, NEW key \in Push!Keys
  PROVE  /\ Part(criteria, key) \in Seq(FiltersOf(criteria))
         /\ Alternates(Part(criteria, key), key, criteria[key])
         /\ criteria[key] = {} <=> Part(criteria, key) = <<>>
         /\ criteria[key] # {} => Len(Part(criteria, key)) % 2 = 1
         /\ (\A v, w \in criteria[key] : v = w) => Len(Part(criteria, key)) <= 1
  <1>1. IsFiniteSet(criteria[key])
    BY CriteriaAssumption
  <1>2. Push!Or \in FiltersOf(criteria) /\ \A v \in criteria[key] : Filter(key, v) \in FiltersOf(criteria)
    BY DEF FiltersOf
  <1>3. /\ Part(criteria, key) \in Seq(FiltersOf(criteria))
        /\ Alternates(Part(criteria, key), key, criteria[key])
        /\ criteria[key] = {} => Part(criteria, key) = <<>>
        /\ criteria[key] # {} => Len(Part(criteria, key)) % 2 = 1
        /\ (\A v, w \in criteria[key] : v = w) => Len(Part(criteria, key)) <= 1
    BY <1>1, <1>2, OrGroupAlternates DEF Part
  <1>4. criteria[key] # {} => Part(criteria, key) # <<>>
    BY <1>3
  <1>5. QED
    BY <1>3, <1>4

\* Whoever holds a value of each criterion is matched.
LEMMA MeantMatched ==
  ASSUME NEW criteria \in Criteria, NEW device \in Push!Meant(criteria)
  PROVE  Push!Matches(Push!SegmentFilters(criteria), device)
  <1> DEFINE S == FiltersOf(criteria)
             P(key) == Part(criteria, key)
  <1>1. \A key \in Push!Keys : criteria[key] # {} => device[key] \in criteria[key]
    BY CriteriaAssumption DEF Push!Meant, Push!Named
  <1>2. \A key \in Push!Keys : P(key) \in Seq(S)
    BY PartsOfCriteria
  <1>3. ASSUME NEW key \in Push!Keys, NEW y \in Seq(S), y = <<>> \/ Push!Matches(y, device)
        PROVE  P(key) \o y \in Seq(S) /\ (P(key) \o y = <<>> \/ Push!Matches(P(key) \o y, device))
    <2>1. P(key) \o y \in Seq(S)
      BY <1>2, <1>3
    <2>2. CASE criteria[key] = {}
      <3>1. P(key) = <<>>
        BY <2>2, PartsOfCriteria
      <3>2. <<>> \o y = y
        BY <1>3
      <3>3. QED
        BY <1>3, <2>1, <3>1, <3>2
    <2>3. CASE criteria[key] # {}
      <3> DEFINE g == P(key)
      <3>1. /\ g \in Seq(S) /\ Alternates(g, key, criteria[key]) /\ Len(g) % 2 = 1
            /\ device[key] \in criteria[key]
        BY <1>1, <2>3, PartsOfCriteria
      <3> HIDE DEF g
      <3>2. PICK p \in 1..Len(g) : p % 2 = 1 /\ g[p] = Filter(key, device[key])
        BY <3>1 DEF Alternates
      <3>3. Push!Holds(g[p], device)
        BY <3>2 DEF Filter, Push!Holds
      <3>4. \A n \in 1..Len(g) : n % 2 = 0 \/ n % 2 = 1
        BY <3>1
      <3>5. OrAtEven(g)
        BY <3>1, <3>4 DEF Alternates, OrAtEven
      <3>6. Push!Matches(g \o y, device)
        BY <1>3, <3>1, <3>2, <3>3, <3>5, GroupBefore
      <3>7. QED
        BY <2>1, <3>6 DEF g
    <2>4. QED
      BY <2>2, <2>3
  <1> DEFINE role == P("role")
             group == P("group") \o role
             parts == P("congregation") \o group
  <1>4. role \in Seq(S) /\ (role = <<>> \/ Push!Matches(role, device))
    <2>1. <<>> \in Seq(S) /\ role \o <<>> = role
      BY <1>2 DEF Push!Keys
    <2>2. QED
      BY <1>3, <2>1 DEF Push!Keys
  <1>5. group \in Seq(S) /\ (group = <<>> \/ Push!Matches(group, device))
    BY <1>3, <1>4 DEF Push!Keys
  <1>6. parts = <<>> \/ Push!Matches(parts, device)
    BY <1>3, <1>5 DEF Push!Keys
  <1>7. Push!Matches(Push!Tenant, device)
    <2>1. /\ DOMAIN Push!Tenant = 1..1 /\ Len(Push!Tenant) = 1
          /\ Push!Tenant[1] = Filter("tenant", "tenant")
      BY DEF Push!Tenant, Filter
    <2>2. Push!Tenant[1].key = "tenant" /\ Push!Tenant[1] # Push!Or
      BY <2>1, OrIsNoFilter DEF Filter
    <2>3. \A n \in 1..1 : n = 1
      OBVIOUS
    <2>4. \A n \in 1..1 : Push!Tenant[n] # Push!Or /\ Push!Holds(Push!Tenant[n], device)
      BY <2>2, <2>3 DEF Push!Holds
    <2>5. 1 \in DOMAIN Push!Tenant
      BY <2>1
    <2>6. 1 <= 1 /\ 1 = Len(Push!Tenant)
      BY <2>1
    <2>7. QED
      BY <2>4, <2>5, <2>6, MatchesGroup
  <1>8. Push!SegmentFilters(criteria) = IF parts = <<>> THEN Push!Tenant ELSE parts
    BY DEF Push!SegmentFilters, Part
  <1>9. QED
    BY <1>6, <1>7, <1>8

\* Criteria of one key, or of one value each, match nobody else.
LEMMA MatchedMeant ==
  ASSUME NEW criteria \in Criteria, Push!Plain(criteria), NEW device \in Push!Device,
         Push!Matches(Push!SegmentFilters(criteria), device)
  PROVE  device \in Push!Meant(criteria)
  <1> DEFINE S == FiltersOf(criteria)
             P(key) == Part(criteria, key)
             named == Push!Named(criteria)
             parts == P("congregation") \o (P("group") \o P("role"))
  <1>1. /\ DOMAIN Tags = Push!Keys /\ named \subseteq Push!Keys
        /\ \A key \in Push!Keys : key \in named <=> criteria[key] # {}
    BY CriteriaAssumption DEF Push!Named
  <1>2. \A key \in Push!Keys : P(key) \in Seq(S) /\ Alternates(P(key), key, criteria[key])
    BY PartsOfCriteria
  <1>3. \A key \in Push!Keys : key \notin named => P(key) = <<>>
    BY <1>1, PartsOfCriteria
  <1>4. Push!SegmentFilters(criteria) = IF parts = <<>> THEN Push!Tenant ELSE parts
    BY DEF Push!SegmentFilters, Part
  <1>5. Push!Keys = {"congregation", "group", "role"}
    BY DEF Push!Keys
  <1>6. P("congregation") \in Seq(S) /\ P("group") \in Seq(S) /\ P("role") \in Seq(S)
    BY <1>2, <1>5
  <1>7. SUFFICES \A key \in named : device[key] \in criteria[key]
    BY DEF Push!Meant
  <1> HIDE DEF S, P, named
  <1>8. ASSUME NEW key \in Push!Keys, named \subseteq {key}, key \in named PROVE device[key] \in criteria[key]
    <2>1. P(key) # <<>>
      BY <1>1, <1>8, PartsOfCriteria DEF P
    <2>2. \A l \in Push!Keys : l # key => P(l) = <<>>
      BY <1>3, <1>8
    <2>3. \A g \in Seq(S) : <<>> \o g = g /\ g \o <<>> = g
      OBVIOUS
    <2>4. <<>> \in Seq(S)
      OBVIOUS
    <2>5. parts = P(key)
      BY <1>5, <1>6, <2>2, <2>3, <2>4
    <2>6. Push!Matches(P(key), device)
      BY <1>4, <2>1, <2>5
    <2>7. QED
      BY <1>2, <2>6, OneKeyMatched
  <1>9. ASSUME \A k \in named : \A v, w \in criteria[k] : v = w, NEW key \in named
        PROVE  device[key] \in criteria[key]
    <2>1. \A k \in Push!Keys : \A v, w \in criteria[k] : v = w
      BY <1>1, <1>9
    <2>2. \A k \in Push!Keys : Len(P(k)) <= 1 /\ Len(P(k)) \in Nat
      <3>1. \A k \in Push!Keys : Len(P(k)) <= 1
        BY <2>1, PartsOfCriteria DEF P
      <3>2. QED
        BY <1>2, <3>1
    <2>3. \A k \in Push!Keys : \A n \in 1..Len(P(k)) : P(k)[n] # Push!Or /\ n = 1
      <3> SUFFICES ASSUME NEW k \in Push!Keys, NEW n \in 1..Len(P(k)) PROVE P(k)[n] # Push!Or /\ n = 1
        OBVIOUS
      <3>1. n = 1 /\ n % 2 = 1
        BY <2>2
      <3>2. QED
        BY <1>2, <3>1 DEF Alternates
    <2>4. parts \in Seq(S) /\ HasNoOr(parts) /\ \A k \in Push!Keys : HoldsAll(parts, P(k))
      <3> DEFINE A == P("congregation")
                 B == P("group")
                 C == P("role")
      <3>1. /\ A \in Seq(S) /\ B \in Seq(S) /\ C \in Seq(S)
            /\ HasNoOr(A) /\ HasNoOr(B) /\ HasNoOr(C)
        BY <1>5, <1>6, <2>3 DEF HasNoOr
      <3> HIDE DEF A, B, C
      <3>2. B \o C \in Seq(S) /\ HasNoOr(B \o C) /\ HoldsAll(B \o C, B) /\ HoldsAll(B \o C, C)
        BY <3>1, ListsJoined
      <3>3. /\ A \o (B \o C) \in Seq(S) /\ HasNoOr(A \o (B \o C))
            /\ HoldsAll(A \o (B \o C), A) /\ HoldsAll(A \o (B \o C), B \o C)
        BY <3>1, <3>2, ListsJoined
      <3>4. HoldsAll(A \o (B \o C), B) /\ HoldsAll(A \o (B \o C), C)
        BY <3>2, <3>3, HeldThrough
      <3>5. QED
        BY <1>5, <3>3, <3>4 DEF A, B, C
    <2> HIDE DEF parts
    <2>5. key \in Push!Keys /\ P(key) # <<>> /\ 1 \in 1..Len(P(key))
      <3>1. key \in Push!Keys /\ criteria[key] # {}
        BY <1>1, <1>9
      <3>2. P(key) # <<>> /\ P(key) \in Seq(S)
        BY <1>2, <3>1, PartsOfCriteria DEF P
      <3>3. Len(P(key)) = 1
        <4>1. \A g \in Seq(S) : g # <<>> => Len(g) \in Nat \ {0}
          OBVIOUS
        <4>2. Len(P(key)) \in Nat \ {0}
          BY <3>2, <4>1
        <4>3. Len(P(key)) <= 1
          BY <2>2, <3>1
        <4>4. \A n \in Nat \ {0} : n <= 1 => n = 1
          OBVIOUS
        <4>5. QED
          BY <4>2, <4>3, <4>4
      <3>4. QED
        BY <3>1, <3>2, <3>3
    <2>6. PICK m \in 1..Len(parts) : parts[m] = P(key)[1]
      BY <2>4, <2>5 DEF HoldsAll
    <2>7. parts # <<>>
      BY <2>6
    <2>8. Push!Matches(parts, device)
      BY <1>4, <2>7
    <2>9. Push!Holds(P(key)[1], device)
      BY <2>4, <2>6, <2>8, AllMatched DEF HasNoOr
    <2>10. 1 % 2 = 1
      OBVIOUS
    <2>11. PICK v \in criteria[key] : P(key)[1] = Filter(key, v)
      BY <1>2, <2>5, <2>10 DEF Alternates
    <2>12. P(key)[1].key = key /\ P(key)[1].value = v /\ key # "tenant"
      BY <1>5, <2>5, <2>11 DEF Filter
    <2>13. QED
      BY <2>9, <2>11, <2>12 DEF Push!Holds
  <1>10. QED
    BY <1>1, <1>8, <1>9 DEF Push!Plain, named

-----------------------------------------------------------------------------
(* A notification about to be pushed remembers what its segments reach.     *)

PushInv ==
  /\ Push!TypeOK
  /\ send = [d \in Dispatches |-> send[d]]
  /\ \A d \in Dispatches : send[d].step = "push" =>
       /\ send[d].found \subseteq Criteria
       /\ send[d].reached = Push!Reached(Push!BuildFilters(send[d].found))

SendBecomes(d, new) == send' = [e \in Dispatches |-> IF e = d THEN new ELSE send[e]]

LEMMA PushKept ==
  ASSUME PushInv, [Push!Next]_(Push!notificationVars)
  PROVE  PushInv'
  <1>1. CASE UNCHANGED Push!notificationVars
    BY <1>1 DEF Push!notificationVars, PushInv, Push!TypeOK
  <1>2. ASSUME NEW s \in Segments, (\E criteria \in Criteria : Push!SaveSegment(s, criteria)) \/ Push!RemoveSegment(s)
        PROVE  PushInv'
    BY <1>2 DEF Push!SaveSegment, Push!RemoveSegment, PushInv, Push!TypeOK
  <1>3. ASSUME NEW d \in Dispatches, NEW wanted \in SUBSET Segments, Push!Send(d, wanted)
        PROVE  PushInv'
    <2> DEFINE found == Push!Found(wanted)
               lists == Push!BuildFilters(found)
               new == [step |-> "push", wanted |-> wanted, found |-> found, reached |-> Push!Reached(lists)]
    <2>1. found \subseteq Criteria
      BY DEF Push!Found, PushInv, Push!TypeOK
    <2>2. Push!Reached(lists) \subseteq Push!Device
      BY DEF Push!Reached
    <2>3. /\ send[d] = Push!Idle /\ send' = [send EXCEPT ![d] = new]
          /\ UNCHANGED <<segment, row, batch>>
      BY <1>3 DEF Push!Send, Push!Goto
    <2>4. /\ new.step = "push" /\ new.wanted \subseteq Segments /\ new.reached \subseteq Push!Device
          /\ new.found \subseteq Criteria /\ new.reached = Push!Reached(Push!BuildFilters(new.found))
      BY <2>1, <2>2
    <2> HIDE DEF new, found, lists
    <2>5. SendBecomes(d, new)
      BY <2>3 DEF SendBecomes, PushInv
    <2>6. QED
      BY <2>3, <2>4, <2>5 DEF SendBecomes, PushInv, Push!TypeOK
  <1>4. ASSUME NEW d \in Dispatches, Push!Push(d) PROVE PushInv'
    <2>1. PICK pushed \in BOOLEAN :
            send' = [send EXCEPT ![d] = [step |-> "record", wanted |-> send[d].wanted, found |-> send[d].found,
                                         reached |-> IF pushed THEN send[d].reached ELSE {}]]
      BY <1>4 DEF Push!Push, Push!Goto
    <2>2. send[d].step = "push" /\ UNCHANGED <<segment, row, batch>>
      BY <1>4 DEF Push!Push
    <2> DEFINE new == [step |-> "record", wanted |-> send[d].wanted, found |-> send[d].found,
                       reached |-> IF pushed THEN send[d].reached ELSE {}]
    <2>3. send[d].wanted \subseteq Segments /\ send[d].reached \subseteq Push!Device
      BY <2>2 DEF PushInv, Push!TypeOK, Push!Idle
    <2>4. new.step = "record" /\ new.wanted \subseteq Segments /\ new.reached \subseteq Push!Device
      BY <2>3
    <2> HIDE DEF new
    <2>5. SendBecomes(d, new)
      BY <2>1 DEF SendBecomes, PushInv, new
    <2>6. QED
      BY <2>2, <2>4, <2>5 DEF SendBecomes, PushInv, Push!TypeOK
  <1>5. ASSUME NEW d \in Dispatches, Push!Record(d) \/ Push!Lose(d) PROVE PushInv'
    BY <1>5 DEF Push!Record, Push!Lose, Push!Goto, PushInv, Push!TypeOK
  <1>6. ASSUME NEW d \in Dispatches,
               (\E known \in {"sent", "half", "measured"} : Push!Measure(d, known)) \/ Push!Skip(d)
        PROVE  PushInv'
    BY <1>6 DEF Push!Measure, Push!Skip, PushInv, Push!TypeOK
  <1>7. CASE Push!StartSync
    BY <1>7 DEF Push!StartSync, Push!Pending, PushInv, Push!TypeOK
  <1>8. QED
    BY <1>1, <1>2, <1>3, <1>4, <1>5, <1>6, <1>7 DEF Push!Next

\* A notification about to be pushed reaches everybody its segments mean, and
\* nobody else unless they are all gone or combine criteria with several values
\* (buildFilters, notifications.service.ts), for any tags, any criteria, any
\* number of segments and notifications.
THEOREM AudiencesStayCoherent == AllSpec => []AudienceCoheres
  <1>1. AllInit => PushInv
    BY DEF AllInit, Push!Init, PushInv, Push!TypeOK, Push!Idle
  <1>2. PushInv /\ [AllNext]_allVars => PushInv'
    BY PartsMoveAlone, PushKept
  <1>3. PushInv => AudienceCoheres
    <2> SUFFICES ASSUME PushInv PROVE Push!AudienceCoheres
      BY DEF AudienceCoheres
    <2>1. ASSUME NEW d \in Dispatches, send[d].step = "push", NEW criteria \in send[d].found,
                 NEW device \in Push!Meant(criteria)
          PROVE  device \in send[d].reached
      <3>1. device \in Push!Device /\ criteria \in Criteria
        BY <2>1 DEF PushInv, Push!Meant
      <3>2. Push!SegmentFilters(criteria) \in Push!BuildFilters(send[d].found)
        BY <2>1 DEF Push!BuildFilters
      <3>3. Push!Matches(Push!SegmentFilters(criteria), device)
        BY <3>1, <2>1, MeantMatched
      <3>4. QED
        BY <2>1, <3>1, <3>2, <3>3 DEF PushInv, Push!Reached
    <2>2. ASSUME NEW d \in Dispatches, send[d].step = "push", send[d].found # {},
                 \A criteria \in send[d].found : Push!Plain(criteria), NEW device \in send[d].reached
          PROVE  \E criteria \in send[d].found : device \in Push!Meant(criteria)
      <3>1. device \in Push!Device /\ \E filters \in Push!BuildFilters(send[d].found) : Push!Matches(filters, device)
        BY <2>2 DEF PushInv, Push!Reached
      <3>2. PICK criteria \in send[d].found : Push!Matches(Push!SegmentFilters(criteria), device)
        BY <2>2, <3>1 DEF Push!BuildFilters
      <3>3. criteria \in Criteria /\ Push!Plain(criteria)
        BY <2>2, <3>2 DEF PushInv
      <3>4. QED
        BY <3>1, <3>2, <3>3, MatchedMeant
    <2>3. Push!NobodyIsMissed
      BY <2>1 DEF Push!NobodyIsMissed
    <2>4. Push!NobodyElseIsReached
      BY <2>2 DEF Push!NobodyElseIsReached
    <2>5. QED
      BY <2>3, <2>4 DEF Push!AudienceCoheres, PushInv
  <1>4. QED
    BY <1>1, <1>2, <1>3, PTL DEF AllSpec

===============================================================================
