--------------------------- MODULE TokenStoreProofs -------------------------
(***************************************************************************)
(* Theorems about TokenStore, for any identities, any number of requests   *)
(* and any number of grants: accounts do not get mixed up, keep their      *)
(* refresh tokens, and are after a crash what callers were told; requests  *)
(* are served with tokens of the identity they asked for.                  *)
(*                                                                         *)
(* None of this is inductive as it stands: a step of EnsureValid or of a   *)
(* save relies on what the request holds since an earlier one.             *)
(***************************************************************************)
EXTENDS TokenStore, SelectionProofs

-----------------------------------------------------------------------------
(* The list of accounts. *)

\* Each identity is listed once.
Distinct(s) == \A i, j \in DOMAIN s : s[i].id = s[j].id => i = j

\* The first of some places is one of them.
LEMMA FirstLemma ==
    ASSUME NEW S, S \subseteq Nat, S # {}
    PROVE  First(S) \in S
  BY LeastNatural DEF First

\* Two accounts match only if they have one id: different identities have different
\* e-mails, or none.
LEMMA MatchesLemma ==
    ASSUME NEW e \in Account, NEW a \in Account
    PROVE  Matches(e, a) <=> e.id = a.id
  BY TokenStoreAssumption DEF Matches, Account

\* What becomes of an account that a grant replaces: the identity and the access token
\* are the grant's, and no refresh token is lost.
LEMMA MergedLemma ==
    ASSUME NEW a \in Account, NEW e \in Account
    PROVE  /\ Merged(a, e) \in Account
           /\ Merged(a, e).id = a.id /\ Merged(a, e).access = a.access
           /\ Merged(a, e).refresh \in {a.refresh, e.refresh}
           /\ Merged(a, e).refresh = None => a.refresh = None /\ e.refresh = None
  BY DEF Merged, Account, None

\* Replacing the account at one place by one with the same id.
LEMMA ReplacedLemma ==
    ASSUME NEW s \in Seq(Account), Distinct(s), NEW k \in DOMAIN s,
           NEW a \in Account, s[k].id = a.id
    PROVE  LET r == [s EXCEPT ![k] = a]
           IN  /\ r \in Seq(Account) /\ Distinct(r) /\ Ids(r) = Ids(s)
               /\ \A i \in DOMAIN r : i \in DOMAIN s /\ r[i] = IF i = k THEN a ELSE s[i]
<1> DEFINE r == [s EXCEPT ![k] = a]
<1>1. /\ r \in Seq(Account) /\ DOMAIN r = DOMAIN s
      /\ \A i \in DOMAIN s : r[i] = IF i = k THEN a ELSE s[i]
  OBVIOUS
<1> HIDE DEF r
<1>2. \A i \in DOMAIN s : r[i].id = s[i].id
  BY <1>1
<1>3. Distinct(r) /\ Ids(r) = Ids(s)
  BY <1>1, <1>2 DEF Distinct, Ids
<1> QED
  BY <1>1, <1>3 DEF r

\* Upsert adds the identity of the grant, and touches the account of no other.
LEMMA UpsertedLemma ==
    ASSUME NEW s \in Seq(Account), Distinct(s), NEW a \in Account
    PROVE  LET r == Upserted(s, a)
           IN  /\ r \in Seq(Account) /\ Distinct(r) /\ Ids(r) = Ids(s) \cup {a.id}
               /\ \A i \in DOMAIN r :
                    \/ i \in DOMAIN s /\ r[i] = s[i]
                    \/ r[i] = a /\ a.id \notin Ids(s)
                    \/ \E k \in DOMAIN s : s[k].id = a.id /\ r[i] = Merged(a, s[k])
<1> DEFINE hits == {i \in DOMAIN s : Matches(s[i], a)}
           r == Upserted(s, a)
<1>1. hits = {i \in DOMAIN s : s[i].id = a.id} /\ hits \subseteq Nat
  BY MatchesLemma
<1>2. CASE hits = {}
  <2>1. r = Append(s, a) /\ a.id \notin Ids(s)
    BY <1>1, <1>2 DEF Upserted, Ids
  <2>2. /\ r \in Seq(Account) /\ DOMAIN r = DOMAIN s \cup {Len(s) + 1}
        /\ r[Len(s) + 1] = a /\ \A i \in DOMAIN s : r[i] = s[i]
    BY <2>1
  <2> HIDE DEF r
  <2>3. \A i \in DOMAIN s : r[i].id # a.id
    BY <2>1, <2>2 DEF Ids
  <2>4. Distinct(r)
    BY <2>2, <2>3 DEF Distinct
  <2>5. Ids(r) = Ids(s) \cup {a.id}
    BY <2>2 DEF Ids
  <2> QED
    BY <2>1, <2>2, <2>4, <2>5 DEF r
<1>3. CASE hits # {}
  <2> DEFINE k == First(hits)
  <2>1. k \in DOMAIN s /\ s[k].id = a.id
    BY <1>1, <1>3, FirstLemma
  <2>2. r = [s EXCEPT ![k] = Merged(a, s[k])]
    BY <1>3 DEF Upserted
  <2> HIDE DEF k, r
  <2>3. s[k] \in Account
    BY <2>1
  <2>4. Merged(a, s[k]) \in Account /\ Merged(a, s[k]).id = s[k].id
    BY <2>1, <2>3, MergedLemma
  <2>5. /\ r \in Seq(Account) /\ Distinct(r) /\ Ids(r) = Ids(s)
        /\ \A i \in DOMAIN r :
             i \in DOMAIN s /\ r[i] = IF i = k THEN Merged(a, s[k]) ELSE s[i]
    BY <2>1, <2>2, <2>4, ReplacedLemma
  <2>6. a.id \in Ids(s)
    BY <2>1 DEF Ids
  <2> QED
    BY <2>1, <2>5, <2>6 DEF r
<1> QED
  BY <1>2, <1>3

\* Delete removes the account of this identity and of no other.
LEMMA WithoutLemma ==
    ASSUME NEW s \in Seq(Account), Distinct(s), NEW u
    PROVE  LET r == Without(s, u)
           IN  /\ r \in Seq(Account) /\ Distinct(r) /\ Ids(r) = Ids(s) \ {u}
               /\ \A i \in DOMAIN r : \E k \in DOMAIN s : r[i] = s[k]
<1> DEFINE others == {i \in DOMAIN s : s[i].id # u}
           r == Without(s, u)
<1>1. others \cap DOMAIN s = others
  OBVIOUS
<1>2. /\ r \in Seq(Account)
      /\ \A j \in DOMAIN r : \E k \in others : r[j] = s[k]
      /\ \A k \in others : \E j \in DOMAIN r : r[j] = s[k]
      /\ \A i, j \in DOMAIN r :
           i < j => \E k, l \in others : k < l /\ r[i] = s[k] /\ r[j] = s[l]
  <2>1. r = Selected(s, others)
    BY DEF Without
  <2> HIDE DEF others, r
  <2> QED
    BY <1>1, <2>1, SelectedElements
<1> HIDE DEF r
<1>3. Ids(r) = Ids(s) \ {u}
  BY <1>2 DEF Ids
<1>4. ASSUME NEW i \in DOMAIN r, NEW j \in DOMAIN r, r[i].id = r[j].id, i < j
      PROVE  FALSE
  <2>1. PICK k \in others, l \in others : k < l /\ r[i] = s[k] /\ r[j] = s[l]
    BY <1>2, <1>4
  <2>2. k \in DOMAIN s /\ l \in DOMAIN s /\ s[k].id = s[l].id /\ k # l
    BY <2>1, <1>4
  <2> QED
    BY <2>2 DEF Distinct
<1>5. \A i, j \in DOMAIN r : i \in Nat /\ j \in Nat
  BY <1>2
<1>6. Distinct(r)
  BY <1>4, <1>5 DEF Distinct
<1>7. r \in Seq(Account) /\ \A i \in DOMAIN r : \E k \in DOMAIN s : r[i] = s[k]
  BY <1>2
<1> QED
  BY <1>3, <1>6, <1>7 DEF r

-----------------------------------------------------------------------------
(* The inductive invariant of the accounts. *)

\* Own, with the grants as a parameter.
OwnIn(e, g) ==
    /\ e.access \in DOMAIN g /\ g[e.access] = e.id
    /\ e.refresh # None => e.refresh \in DOMAIN g /\ g[e.refresh] = e.id

\* A list as AccountsApart and Refreshable want it, with the grants g and the deleted x.
GoodList(s, g, x) ==
    /\ Distinct(s)
    /\ \A i \in DOMAIN s : OwnIn(s[i], g)
    /\ \A i \in DOMAIN s : s[i].id \in Offline \ x => s[i].refresh # None

\* What a request holds is of the identity it asked for. One that refreshes has a token
\* to refresh with, and, unless it has been deleted meanwhile, its account is still
\* listed, so that a response without a refresh token has one to be merged with; a copy
\* that is to be stored without a refresh token never had one.
GoodRequest(r, s, g, x) ==
    /\ r.at \in {"returned", "refresh", "mark", "upsert"} => r.acc # NoAccount
    /\ r.acc # NoAccount => OwnIn(r.acc, g) /\ r.id = r.acc.id
    /\ r.at = "refresh" => r.acc.refresh # None /\ r.acc.id \in x \cup Ids(s)
    /\ r.at = "mark" /\ r.acc.id \in Offline \ x => r.acc.refresh # None
    /\ r.at = "upsert" /\ r.acc.refresh = None /\ r.acc.id \in Offline \ x =>
            r.acc.id \in Ids(s)

\* The inductive invariant. A server that is down has no requests, which matters when it
\* starts with the list of the file.
AccountsInv ==
    /\ TypeOK
    /\ GoodList(data, grants, removed)
    /\ disk # Torn => GoodList(disk, grants, removed)
    /\ \A p \in Procs : GoodRequest(req[p], data, grants, removed)
    /\ ~up => \A p \in Procs : req[p].at = "idle"

\* The invariant says what the runs check.
LEMMA AccountsInvImplies == AccountsInv => AccountsApart /\ Refreshable
<1> SUFFICES ASSUME AccountsInv, NEW s \in {data} \cup ({disk} \ {Torn})
             PROVE  /\ \A i \in DOMAIN s : Own(s[i])
                    /\ \A i, j \in DOMAIN s : s[i].id = s[j].id => i = j
                    /\ \A i \in DOMAIN s : s[i].id \in Offline \ removed => s[i].refresh # None
  BY Zenon DEF AccountsApart, Refreshable
<1>1. GoodList(s, grants, removed)
  BY DEF AccountsInv
<1> QED
  BY <1>1 DEF GoodList, Distinct, Own, OwnIn

Request == [at : Steps, id : Users \cup {NoAccount}, acc : Account \cup {NoAccount}]

\* h has the grants of g, and perhaps more.
Extends(g, h) == \A i \in DOMAIN g : i \in DOMAIN h /\ h[i] = g[i]

\* A list stays good when tokens are granted and accounts deleted.
LEMMA ListStays ==
    ASSUME NEW s \in Seq(Account), NEW g, NEW h, Extends(g, h), NEW x, NEW y, x \subseteq y,
           GoodList(s, g, x)
    PROVE  GoodList(s, h, y)
  BY DEF GoodList, OwnIn, Extends

\* So does a request, when no account has disappeared but by deletion.
LEMMA RequestStays ==
    ASSUME NEW r \in Request, NEW s, NEW t, NEW g, NEW h, Extends(g, h),
           NEW x, NEW y, x \subseteq y, Ids(s) \subseteq Ids(t) \cup y,
           GoodRequest(r, s, g, x)
    PROVE  GoodRequest(r, t, h, y)
<1>1. r.acc # NoAccount => OwnIn(r.acc, h) /\ r.id = r.acc.id
  BY DEF GoodRequest, OwnIn, Extends
<1> QED
  BY <1>1 DEF GoodRequest

\* A step of one request p, which becomes r.
LEMMA OneRequestMoves ==
    ASSUME AccountsInv, NEW p \in Procs, NEW r \in Request,
           up, up' = up,
           req' = [req EXCEPT ![p] = r],
           r.at \in {"open", "write"} => Unlocked \/ req[p].at \in {"open", "write"},
           grants' \in Seq(Users), Len(grants') <= MaxGrants, Extends(grants, grants'),
           data' \in Seq(Account), Ids(data) \subseteq Ids(data') \cup removed',
           removed \subseteq removed', removed' \subseteq Users,
           GoodList(data', grants', removed'),
           GoodRequest(r, data', grants', removed'),
           disk' \in {disk, Torn, data},
           expired' = expired, stored' \subseteq Users, gone' \subseteq Users
    PROVE  AccountsInv'
<1> USE DEF AccountsInv
<1>1. req \in [Procs -> Request]
  BY DEF TypeOK, Request
<1>2. \A q \in Procs : req'[q] = IF q = p THEN r ELSE req[q]
  BY <1>1
<1>3. TypeOK'
  <2>1. disk' = Torn \/ disk' \in Seq(Account)
    BY DEF TypeOK
  <2>2. req' \in [Procs -> Request]
    BY <1>1
  <2>3. \A q1, q2 \in Procs :
            {req'[q1].at, req'[q2].at} \subseteq {"open", "write"} => q1 = q2
    BY <1>2 DEF TypeOK, Unlocked
  <2>4. expired' \subseteq DOMAIN grants'
    BY DEF TypeOK, Extends
  <2>5. up' \in BOOLEAN
    BY DEF TypeOK
  <2> QED
    BY <2>1, <2>2, <2>3, <2>4, <2>5 DEF TypeOK, Request
<1>4. disk' # Torn => GoodList(disk', grants', removed')
  BY ListStays DEF TypeOK
<1>5. \A q \in Procs : GoodRequest(req'[q], data', grants', removed')
  <2> SUFFICES ASSUME NEW q \in Procs, q # p
               PROVE  GoodRequest(req[q], data', grants', removed')
    BY <1>2
  <2>1. req[q] \in Request /\ GoodRequest(req[q], data, grants, removed)
    BY <1>1
  <2> QED
    BY <2>1, RequestStays
<1> QED
  BY <1>3, <1>4, <1>5

\* The tokens of a new grant are of the identity it is for.
LEMMA GrantLemma ==
    ASSUME grants \in Seq(Users), NEW u \in Users, Grant(u), NEW refresh \in BOOLEAN
    PROVE  /\ grants' \in Seq(Users) /\ Len(grants') <= MaxGrants /\ Extends(grants, grants')
           /\ NewAccount(u, refresh) \in Account
           /\ NewAccount(u, refresh).id = u
           /\ NewAccount(u, refresh).refresh = None <=> ~refresh
           /\ OwnIn(NewAccount(u, refresh), grants')
<1>1. /\ grants' = Append(grants, u) /\ Len(grants) < MaxGrants /\ MaxGrants \in Nat
  BY TokenStoreAssumption DEF Grant
<1>2. /\ grants' \in Seq(Users) /\ Len(grants') = Len(grants) + 1
      /\ grants'[Len(grants')] = u /\ \A i \in DOMAIN grants : grants'[i] = grants[i]
      /\ DOMAIN grants = 1..Len(grants) /\ DOMAIN grants' = 1..Len(grants')
      /\ Len(grants) \in Nat
  BY <1>1
<1>3. Len(grants') <= MaxGrants /\ Extends(grants, grants')
  BY <1>1, <1>2 DEF Extends
<1>4. Len(grants') \in DOMAIN grants' /\ Len(grants') \in Nat /\ Len(grants') # 0
  BY <1>2
<1>5. NewAccount(u, refresh) =
        [id |-> u, access |-> Len(grants'), refresh |-> IF refresh THEN Len(grants') ELSE 0]
  BY DEF NewAccount, None
<1>6. NewAccount(u, refresh) \in Account
  BY <1>4, <1>5 DEF Account, None
<1>7. NewAccount(u, refresh).refresh = None <=> ~refresh
  BY <1>4, <1>5 DEF None
<1>8. OwnIn(NewAccount(u, refresh), grants')
  BY <1>2, <1>4, <1>5 DEF OwnIn, None
<1> QED
  BY <1>2, <1>3, <1>5, <1>6, <1>7, <1>8

\* The initial state has no account and no request.
LEMMA AccountsInitially == Init => AccountsInv
<1> SUFFICES ASSUME Init PROVE AccountsInv
  OBVIOUS
<1>1. /\ data = <<>> /\ disk = <<>> /\ up = TRUE /\ grants = <<>> /\ expired = {}
      /\ stored = {} /\ gone = {} /\ removed = {} /\ req = [p \in Procs |-> Idle]
  BY DEF Init
<1>2. MaxGrants \in Nat
  BY TokenStoreAssumption
<1>3. \A p \in Procs : req[p] = Idle
  BY <1>1
<1>4. TypeOK
  BY <1>1, <1>2, <1>3 DEF TypeOK, Idle, Steps
<1>5. GoodList(<<>>, grants, removed)
  BY DEF GoodList, Distinct
<1>6. \A p \in Procs : GoodRequest(req[p], data, grants, removed)
  BY <1>3 DEF GoodRequest, Idle
<1> QED
  BY <1>1, <1>4, <1>5, <1>6 DEF AccountsInv

\* Every step of a request, a crash, a restart and time preserve the invariant.
LEMMA AccountsStep == AccountsInv /\ [Next]_vars => AccountsInv'
<1> SUFFICES ASSUME AccountsInv, [Next]_vars PROVE AccountsInv'
  OBVIOUS
<1>0. /\ TypeOK /\ GoodList(data, grants, removed)
      /\ data \in Seq(Account) /\ Distinct(data) /\ grants \in Seq(Users)
      /\ Len(grants) <= MaxGrants /\ stored \subseteq Users /\ gone \subseteq Users
      /\ removed \subseteq Users /\ \A p \in Procs : req[p] \in Request
      /\ \A p \in Procs : GoodRequest(req[p], data, grants, removed)
  BY DEF AccountsInv, TypeOK, GoodList, Request
<1>00. Extends(grants, grants)
  BY DEF Extends
<1>1. ASSUME NEW p \in Procs, NEW u \in Users, Login(p, u) PROVE AccountsInv'
  <2> DEFINE refresh == u \in Offline
             a == NewAccount(u, refresh)
             r == [at |-> "upsert", id |-> u, acc |-> a]
  <2>1. /\ up /\ Grant(u) /\ req' = [req EXCEPT ![p] = r]
        /\ UNCHANGED <<data, disk, up, expired, stored, gone, removed>>
    BY <1>1 DEF Login, Free, Goto, ghosts
  <2>2. /\ grants' \in Seq(Users) /\ Len(grants') <= MaxGrants /\ Extends(grants, grants')
        /\ a \in Account /\ a.id = u /\ (a.refresh = None <=> u \notin Offline)
        /\ OwnIn(a, grants')
    <3>1. refresh \in BOOLEAN /\ (refresh <=> u \in Offline)
      OBVIOUS
    <3> HIDE DEF refresh
    <3>2. grants \in Seq(Users) /\ Grant(u)
      BY <1>0, <2>1
    <3> QED
      BY <3>1, <3>2, GrantLemma
  <2> HIDE DEF a
  <2>3. r \in Request /\ r.at = "upsert" /\ r.id = u /\ r.acc = a
    BY <2>2 DEF Request, Steps
  <2> HIDE DEF r
  <2>4. GoodList(data', grants', removed')
    BY <1>0, <2>1, <2>2, ListStays
  <2>5. GoodRequest(r, data', grants', removed')
    BY <2>2, <2>3, TokenStoreAssumption DEF GoodRequest
  <2> QED
    BY <1>0, <2>1, <2>2, <2>3, <2>4, <2>5, OneRequestMoves
<1>2. ASSUME NEW p \in Procs, NEW u \in Users, Ask(p, u) PROVE AccountsInv'
  <2> DEFINE hits == {i \in DOMAIN data : data[i].id = u}
             acc == data[First(hits)]
  <2>1. hits \subseteq Nat /\ hits # {}
    BY <1>0, <1>2 DEF Ask, Ids
  <2>2. First(hits) \in DOMAIN data /\ acc.id = u
    BY <2>1, FirstLemma
  <2>3. /\ acc \in Account /\ acc.id = u /\ OwnIn(acc, grants)
        /\ acc.id \in Offline \ removed => acc.refresh # None
        /\ acc.id \in Ids(data)
    BY <1>0, <2>2 DEF GoodList, Ids
  <2>4. PICK step \in {"returned", "refresh", "mark"} :
            /\ req' = [req EXCEPT ![p] = [at |-> step, id |-> u, acc |-> acc]]
            /\ step = "refresh" => acc.refresh # None
            /\ step = "mark" => acc.refresh = None
    <3> HIDE DEF acc
    <3>1. CASE ~Expired(acc)
      BY <1>2, <3>1 DEF Ask, Goto, acc
    <3>2. CASE Expired(acc) /\ acc.refresh # None
      BY <1>2, <3>2 DEF Ask, Goto, acc
    <3>3. CASE Expired(acc) /\ acc.refresh = None
      BY <1>2, <3>3 DEF Ask, Goto, acc
    <3> QED
      BY <3>1, <3>2, <3>3
  <2>5. up /\ UNCHANGED <<data, disk, up, grants, expired, stored, gone, removed>>
    BY <1>2 DEF Ask, Free, ghosts
  <2> HIDE DEF acc
  <2> DEFINE r == [at |-> step, id |-> u, acc |-> acc]
  <2>6. r \in Request /\ r.at = step /\ r.id = u /\ r.acc = acc
    BY <2>3 DEF Request, Steps
  <2>7. acc # NoAccount
    BY <2>3, TokenStoreAssumption
  <2> HIDE DEF r
  <2>8. GoodRequest(r, data', grants', removed')
    BY <2>3, <2>4, <2>5, <2>6, <2>7 DEF GoodRequest
  <2> QED
    BY <1>0, <1>00, <2>4, <2>5, <2>6, <2>8, OneRequestMoves DEF r
<1>3. ASSUME NEW p \in Procs, NEW u \in Users, DeleteAccount(p, u) PROVE AccountsInv'
  <2> DEFINE r == [at |-> "open", id |-> u, acc |-> NoAccount]
  <2>1. /\ up /\ Unlocked /\ req' = [req EXCEPT ![p] = r]
        /\ data' = Without(data, u) /\ stored' = stored \ {u} /\ removed' = removed \cup {u}
        /\ UNCHANGED <<disk, up, grants, expired, gone>>
    BY <1>3 DEF DeleteAccount, Free, Goto
  <2>2. /\ data' \in Seq(Account) /\ Distinct(data') /\ Ids(data') = Ids(data) \ {u}
        /\ \A i \in DOMAIN data' : \E k \in DOMAIN data : data'[i] = data[k]
    BY <1>0, <2>1, WithoutLemma
  <2>3. r \in Request /\ r.at = "open" /\ r.id = u /\ r.acc = NoAccount
    BY DEF Request, Steps
  <2> HIDE DEF r
  <2>4. GoodList(data', grants', removed')
    BY <1>0, <2>1, <2>2 DEF GoodList
  <2>5. GoodRequest(r, data', grants', removed')
    BY <2>3 DEF GoodRequest
  <2> QED
    BY <1>0, <1>00, <2>1, <2>2, <2>3, <2>4, <2>5, OneRequestMoves
<1>4. ASSUME NEW p \in Procs, Refreshed(p) PROVE AccountsInv'
  <2> DEFINE u == grants[req[p].acc.refresh]
  <2>1. PICK refresh \in BOOLEAN :
            req' = [req EXCEPT ![p] = [at |-> "upsert", id |-> req[p].id,
                                       acc |-> NewAccount(u, refresh)]]
    BY <1>4 DEF Refreshed, Goto
  <2>2. /\ up /\ req[p].at = "refresh" /\ Grant(u)
        /\ UNCHANGED <<data, disk, up, expired, stored, gone, removed>>
    BY <1>4 DEF Refreshed, ghosts
  <2>3. /\ req[p] \in Request /\ req[p].acc # NoAccount /\ req[p].id = req[p].acc.id
        /\ u = req[p].id /\ u \in removed \cup Ids(data)
    BY <1>0, <2>2 DEF GoodRequest, OwnIn
  <2>4. u \in Users
    BY <2>3 DEF Request, Account
  <2> HIDE DEF u
  <2> DEFINE a == NewAccount(u, refresh)
             r == [at |-> "upsert", id |-> u, acc |-> a]
  <2>5. /\ grants' \in Seq(Users) /\ Len(grants') <= MaxGrants /\ Extends(grants, grants')
        /\ a \in Account /\ a.id = u /\ OwnIn(a, grants')
    BY <1>0, <2>2, <2>4, GrantLemma
  <2>6. req' = [req EXCEPT ![p] = r]
    BY <2>1, <2>3
  <2> HIDE DEF a
  <2>7. r \in Request /\ r.at = "upsert" /\ r.id = u /\ r.acc = a
    BY <2>4, <2>5 DEF Request, Steps
  <2> HIDE DEF r
  <2>8. GoodList(data', grants', removed')
    BY <1>0, <2>2, <2>5, ListStays
  <2>9. GoodRequest(r, data', grants', removed')
    BY <2>2, <2>3, <2>5, <2>7, TokenStoreAssumption DEF GoodRequest
  <2> QED
    BY <1>0, <2>2, <2>5, <2>6, <2>7, <2>8, <2>9, OneRequestMoves
<1>5. ASSUME NEW p \in Procs, RefreshFails(p) PROVE AccountsInv'
  <2> DEFINE r == [at |-> "mark", id |-> req[p].id, acc |-> req[p].acc]
  <2>1. /\ up /\ req[p].at = "refresh" /\ req' = [req EXCEPT ![p] = r]
        /\ UNCHANGED <<data, disk, up, grants, expired, stored, gone, removed>>
    BY <1>5 DEF RefreshFails, Goto, ghosts
  <2>2. r \in Request /\ r.at = "mark" /\ r.id = req[p].id /\ r.acc = req[p].acc
    BY <1>0 DEF Request, Steps
  <2> HIDE DEF r
  <2>3. GoodRequest(r, data', grants', removed')
    BY <1>0, <2>1, <2>2 DEF GoodRequest
  <2> QED
    BY <1>0, <1>00, <2>1, <2>2, <2>3, OneRequestMoves
<1>6. ASSUME NEW p \in Procs, MarkExpired(p) PROVE AccountsInv'
  <2> DEFINE a == req[p].acc
             hits == {i \in DOMAIN data : data[i].id = a.id}
             r == [at |-> IF hits = {} THEN "idle" ELSE "open",
                   id |-> NoAccount, acc |-> NoAccount]
  <2>1. /\ up /\ Unlocked /\ req[p].at = "mark" /\ req' = [req EXCEPT ![p] = r]
        /\ data' = IF hits = {} THEN data ELSE [data EXCEPT ![First(hits)] = a]
        /\ UNCHANGED <<disk, up, grants, expired, stored, gone, removed>>
    BY <1>6 DEF MarkExpired, Unlocked, Goto, ghosts
  <2>2. /\ a \in Account /\ OwnIn(a, grants)
        /\ a.id \in Offline \ removed => a.refresh # None
    BY <1>0, <2>1 DEF GoodRequest, Request
  <2> HIDE DEF a
  <2>3. /\ data' \in Seq(Account) /\ Ids(data') = Ids(data)
        /\ GoodList(data', grants', removed')
    <3>1. CASE hits = {}
      BY <1>0, <2>1, <3>1
    <3>2. CASE hits # {}
      <4> DEFINE k == First(hits)
      <4>1. k \in DOMAIN data /\ data[k].id = a.id
        <5>1. hits \subseteq Nat
          BY <1>0
        <5>2. k \in hits
          BY <3>2, <5>1, FirstLemma
        <5> QED
          BY <5>2
      <4>2. data' = [data EXCEPT ![k] = a]
        BY <2>1, <3>2
      <4> HIDE DEF k, hits
      <4>3. /\ data' \in Seq(Account) /\ Distinct(data') /\ Ids(data') = Ids(data)
            /\ \A i \in DOMAIN data' : i \in DOMAIN data
                                       /\ data'[i] = IF i = k THEN a ELSE data[i]
        <5>1. data \in Seq(Account) /\ Distinct(data) /\ a \in Account
          BY <1>0, <2>2
        <5> QED
          BY <4>1, <4>2, <5>1, ReplacedLemma
      <4> QED
        BY <1>0, <2>1, <2>2, <4>3 DEF GoodList
    <3> QED
      BY <3>1, <3>2
  <2>4. r \in Request /\ r.at \in {"idle", "open"} /\ r.acc = NoAccount
    BY DEF Request, Steps
  <2> HIDE DEF r
  <2>5. GoodRequest(r, data', grants', removed')
    BY <2>4 DEF GoodRequest
  <2> QED
    BY <1>0, <1>00, <2>1, <2>3, <2>4, <2>5, OneRequestMoves
<1>7. ASSUME NEW p \in Procs, UpsertAccount(p) PROVE AccountsInv'
  <2> DEFINE a == req[p].acc
             r == [at |-> "open", id |-> req[p].id, acc |-> a]
  <2>1. /\ up /\ Unlocked /\ req[p].at = "upsert" /\ req' = [req EXCEPT ![p] = r]
        /\ data' = Upserted(data, a) /\ gone' = gone \ {a.id}
        /\ UNCHANGED <<disk, up, grants, expired, stored, removed>>
    BY <1>7 DEF UpsertAccount, Unlocked, Goto
  <2>2. /\ a \in Account /\ OwnIn(a, grants) /\ req[p].id = a.id
        /\ a.refresh = None /\ a.id \in Offline \ removed => a.id \in Ids(data)
    BY <1>0, <2>1 DEF GoodRequest, Request
  <2>3. r \in Request /\ r.at = "open" /\ r.id = a.id /\ r.acc = a
    BY <1>0, <2>2 DEF Request, Steps
  <2> HIDE DEF a, r
  <2>4. /\ data' \in Seq(Account) /\ Distinct(data') /\ Ids(data') = Ids(data) \cup {a.id}
        /\ \A i \in DOMAIN data' :
             \/ i \in DOMAIN data /\ data'[i] = data[i]
             \/ data'[i] = a /\ a.id \notin Ids(data)
             \/ \E k \in DOMAIN data : data[k].id = a.id /\ data'[i] = Merged(a, data[k])
    BY <1>0, <2>1, <2>2, UpsertedLemma
  <2>5. ASSUME NEW k \in DOMAIN data, data[k].id = a.id
        PROVE  /\ OwnIn(Merged(a, data[k]), grants)
               /\ a.id \in Offline \ removed => Merged(a, data[k]).refresh # None
               /\ Merged(a, data[k]).id = a.id
    <3>1. /\ data[k] \in Account /\ OwnIn(data[k], grants)
          /\ a.id \in Offline \ removed => data[k].refresh # None
      BY <1>0, <2>5 DEF GoodList
    <3>2. /\ Merged(a, data[k]).id = a.id /\ Merged(a, data[k]).access = a.access
          /\ Merged(a, data[k]).refresh \in {a.refresh, data[k].refresh}
          /\ Merged(a, data[k]).refresh = None => data[k].refresh = None
      BY <2>2, <3>1, MergedLemma
    <3> QED
      BY <2>2, <2>5, <3>1, <3>2 DEF OwnIn
  <2>6. \A i \in DOMAIN data' :
            /\ OwnIn(data'[i], grants)
            /\ data'[i].id \in Offline \ removed => data'[i].refresh # None
    <3> SUFFICES ASSUME NEW i \in DOMAIN data'
                 PROVE  /\ OwnIn(data'[i], grants)
                        /\ data'[i].id \in Offline \ removed => data'[i].refresh # None
      OBVIOUS
    <3>1. CASE i \in DOMAIN data /\ data'[i] = data[i]
      BY <1>0, <3>1 DEF GoodList
    <3>2. CASE data'[i] = a /\ a.id \notin Ids(data)
      BY <2>2, <3>2
    <3>3. ASSUME NEW k \in DOMAIN data, data[k].id = a.id, data'[i] = Merged(a, data[k])
          PROVE  /\ OwnIn(data'[i], grants)
                 /\ data'[i].id \in Offline \ removed => data'[i].refresh # None
      BY <2>5, <3>3
    <3> QED
      BY <2>4, <3>1, <3>2, <3>3
  <2>7. GoodList(data', grants', removed')
    BY <2>1, <2>4, <2>6 DEF GoodList
  <2>8. GoodRequest(r, data', grants', removed')
    BY <2>1, <2>2, <2>3 DEF GoodRequest
  <2> QED
    BY <1>0, <1>00, <2>1, <2>3, <2>4, <2>7, <2>8, OneRequestMoves
<1>8. ASSUME NEW p \in Procs, OpenFails(p) \/ WriteFails(p) PROVE AccountsInv'
  <2>1. /\ up /\ req[p].at \in {"open", "write"} /\ req' = [req EXCEPT ![p] = Idle]
        /\ UNCHANGED <<data, disk, up, grants, expired, stored, gone, removed>>
    BY <1>8 DEF OpenFails, WriteFails, SaveFails, Goto, Idle
  <2>2. Idle \in Request /\ Idle.at = "idle" /\ Idle.acc = NoAccount
    BY DEF Idle, Request, Steps
  <2>3. GoodRequest(Idle, data', grants', removed')
    BY <2>2 DEF GoodRequest
  <2> QED
    BY <1>0, <1>00, <2>1, <2>2, <2>3, OneRequestMoves
<1>9. ASSUME NEW p \in Procs, Truncate(p) PROVE AccountsInv'
  <2> DEFINE r == [at |-> "write", id |-> req[p].id, acc |-> req[p].acc]
  <2>1. /\ up /\ req[p].at = "open" /\ req' = [req EXCEPT ![p] = r] /\ disk' = Torn
        /\ UNCHANGED <<data, up, grants, expired, stored, gone, removed>>
    BY <1>9 DEF Truncate, Goto, ghosts
  <2>2. r \in Request /\ r.at = "write" /\ r.id = req[p].id /\ r.acc = req[p].acc
    BY <1>0 DEF Request, Steps
  <2> HIDE DEF r
  <2>3. GoodRequest(r, data', grants', removed')
    BY <1>0, <2>1, <2>2 DEF GoodRequest
  <2> QED
    BY <1>0, <1>00, <2>1, <2>2, <2>3, OneRequestMoves
<1>10. ASSUME NEW p \in Procs, Write(p) PROVE AccountsInv'
  <2>1. /\ up /\ req[p].at = "write" /\ disk' = data
        /\ UNCHANGED <<data, up, grants, expired, removed>>
    BY <1>10 DEF Write
  <2>2. PICK r \in Request :
            /\ req' = [req EXCEPT ![p] = r]
            /\ r = Idle \/ /\ r.at = "returned" /\ r.id = req[p].id /\ r.acc = req[p].acc
                           /\ r.acc # NoAccount
    <3>1. CASE req[p].acc = NoAccount
      <4>1. req' = [req EXCEPT ![p] = Idle]
        BY <1>10, <3>1 DEF Write, SaveSucceeds, Goto, Idle
      <4>2. Idle \in Request
        BY DEF Idle, Request, Steps
      <4> QED
        BY <4>1, <4>2
    <3>2. CASE req[p].acc # NoAccount
      <4> DEFINE r == [at |-> "returned", id |-> req[p].id, acc |-> req[p].acc]
      <4>1. req' = [req EXCEPT ![p] = r]
        BY <1>10, <3>2 DEF Write, SaveSucceeds, Goto
      <4>2. r \in Request /\ r.at = "returned" /\ r.id = req[p].id /\ r.acc = req[p].acc
        BY <1>0 DEF Request, Steps
      <4> HIDE DEF r
      <4> QED
        BY <4>1, <4>2, <3>2
    <3> QED
      BY <3>1, <3>2
  <2>3. stored' \subseteq Users /\ gone' \subseteq Users
    <3>1. req[p].acc # NoAccount => req[p].acc.id \in Users
      BY <1>0 DEF Request, Account
    <3> QED
      BY <1>0, <1>10, <3>1 DEF Write, SaveSucceeds
  <2>4. GoodRequest(r, data', grants', removed')
    BY <1>0, <2>1, <2>2 DEF GoodRequest, Idle
  <2>5. r.at \notin {"open", "write"}
    BY <2>2 DEF Idle
  <2> QED
    BY <1>0, <1>00, <2>1, <2>2, <2>3, <2>4, <2>5, OneRequestMoves
<1>11. CASE Crash
  <2>1. /\ up' = FALSE /\ data' = <<>> /\ req' = [p \in Procs |-> Idle]
        /\ UNCHANGED <<disk, grants, expired, stored, gone, removed>>
    BY <1>11 DEF Crash, ghosts
  <2>2. \A p \in Procs : req'[p] = Idle
    BY <2>1
  <2>3. Idle \in Request /\ Idle.at = "idle" /\ Idle.acc = NoAccount
    BY DEF Idle, Request, Steps
  <2>4. TypeOK'
    <3>1. req' \in [Procs -> Request] /\ data' \in Seq(Account)
      BY <2>1, <2>3
    <3> QED
      BY <1>0, <2>1, <2>2, <2>3, <3>1 DEF TypeOK, Request
  <2>5. GoodList(data', grants', removed') /\ (disk' # Torn => GoodList(disk', grants', removed'))
    BY <2>1 DEF GoodList, Distinct, AccountsInv
  <2>6. \A p \in Procs : GoodRequest(req'[p], data', grants', removed')
    BY <2>2, <2>3 DEF GoodRequest
  <2> QED
    BY <2>2, <2>3, <2>4, <2>5, <2>6 DEF AccountsInv
<1>12. CASE Restart
  <2>1. /\ ~up /\ disk # Torn /\ up' = TRUE /\ data' = disk
        /\ UNCHANGED <<disk, req, grants, expired, stored, gone, removed>>
    BY <1>12 DEF Restart, ghosts
  <2>2. TypeOK'
    BY <1>0, <2>1 DEF TypeOK
  <2>3. GoodList(data', grants', removed') /\ GoodList(disk', grants', removed')
    BY <2>1 DEF AccountsInv
  <2>4. \A p \in Procs : GoodRequest(req'[p], data', grants', removed')
    BY <1>0, <2>1 DEF GoodRequest, AccountsInv
  <2> QED
    BY <2>1, <2>2, <2>3, <2>4 DEF AccountsInv
<1>13. CASE Expire
  <2>1. /\ expired' \subseteq DOMAIN grants
        /\ UNCHANGED <<data, disk, up, req, grants, stored, gone, removed>>
    BY <1>0, <1>13 DEF Expire, ghosts, TypeOK
  <2>2. TypeOK'
    BY <1>0, <2>1 DEF TypeOK
  <2> QED
    BY <2>1, <2>2 DEF AccountsInv
<1>14. CASE UNCHANGED vars
  <2>1. UNCHANGED <<data, disk, up, req, grants, expired, stored, gone, removed>>
    BY <1>14 DEF vars
  <2>2. TypeOK'
    BY <1>0, <2>1 DEF TypeOK
  <2> QED
    BY <2>1, <2>2 DEF AccountsInv
<1> QED
  BY <1>1, <1>2, <1>3, <1>4, <1>5, <1>6, <1>7, <1>8, <1>9, <1>10, <1>11, <1>12, <1>13, <1>14
     DEF Next

\* The invariant holds in every state.
LEMMA AccountsInvariant == Spec => []AccountsInv
<1>1. Init => AccountsInv
  BY AccountsInitially
<1>2. AccountsInv /\ [Next]_vars => AccountsInv'
  BY AccountsStep
<1> QED
  BY <1>1, <1>2, PTL DEF Spec

\* The accounts, in memory and in the file, and what every request holds are always well
\* typed, and at most one request saves, for any number of requests and grants
\* (auth.Store).
THEOREM TypeCorrect == Spec => []TypeOK
<1>1. AccountsInv => TypeOK
  BY DEF AccountsInv
<1> QED
  BY <1>1, AccountsInvariant, PTL

\* No account ever takes another's place or its tokens, however many logins, refreshes and
\* deletions interleave, and whatever fails or crashes (Upsert, EnsureValid).
THEOREM AccountsStayApart == Spec => []AccountsApart
<1>1. AccountsInv => AccountsApart
  BY AccountsInvImplies
<1> QED
  BY <1>1, AccountsInvariant, PTL

\* An account that had a refresh token and was never deleted has one for ever (Upsert,
\* EnsureValid).
THEOREM StaysRefreshable == Spec => []Refreshable
<1>1. AccountsInv => Refreshable
  BY AccountsInvImplies
<1> QED
  BY <1>1, AccountsInvariant, PTL

\* Whoever is served gets a token of the identity it asked for, which had not expired when
\* it was read or was granted for the request (EnsureValid, resolveAccount).
THEOREM ServedAsAsked == Spec => Served
<1> DEFINE Step == \A p \in Procs :
                     req'[p] # req[p] /\ req'[p].at = "returned" =>
                         /\ grants'[req'[p].acc.access] = req'[p].id
                         /\ req'[p].acc.access \notin expired \/ req[p].at = "write"
<1>1. AccountsInv /\ AccountsInv' /\ [Next]_vars => [Step]_vars
  <2> SUFFICES ASSUME AccountsInv, AccountsInv', Next, NEW p \in Procs,
                      req'[p] # req[p], req'[p].at = "returned"
               PROVE  /\ grants'[req'[p].acc.access] = req'[p].id
                      /\ req'[p].acc.access \notin expired \/ req[p].at = "write"
    BY Zenon
  <2>1. grants'[req'[p].acc.access] = req'[p].id
    <3>1. GoodRequest(req'[p], data', grants', removed')
      BY DEF AccountsInv
    <3> QED
      BY <3>1 DEF GoodRequest, OwnIn
  <2>2. req \in [Procs -> Request]
    BY DEF AccountsInv, TypeOK, Request
  <2>3. ASSUME NEW q \in Procs, NEW step, NEW id, NEW acc, Goto(q, step, id, acc)
        PROVE  q = p /\ step = "returned" /\ req'[p].acc = acc
    BY <2>2, <2>3 DEF Goto
  <2>4. ASSUME NEW q \in Procs, NEW u \in Users, Ask(q, u)
        PROVE  req'[p].acc.access \notin expired
    <3> DEFINE acc == data[First({i \in DOMAIN data : data[i].id = u})]
    <3> HIDE DEF acc
    <3>1. CASE ~Expired(acc)
      <4>1. Goto(q, "returned", u, acc)
        BY <2>4, <3>1 DEF Ask, acc
      <4>2. req'[p].acc = acc
        BY <4>1, <2>3
      <4> QED
        BY <4>2, <3>1 DEF Expired
    <3>2. CASE Expired(acc) /\ acc.refresh # None
      <4>1. Goto(q, "refresh", u, acc)
        BY <2>4, <3>2 DEF Ask, acc
      <4> QED
        BY <4>1, <2>3
    <3>3. CASE Expired(acc) /\ acc.refresh = None
      <4>1. Goto(q, "mark", u, acc)
        BY <2>4, <3>3 DEF Ask, acc
      <4> QED
        BY <4>1, <2>3
    <3> QED
      BY <3>1, <3>2, <3>3
  <2>5. ASSUME NEW q \in Procs, Write(q) PROVE req[p].at = "write"
    <3>1. q = p
      <4>1. CASE req[q].acc = NoAccount
        BY <2>3, <2>5, <4>1 DEF Write, SaveSucceeds
      <4>2. CASE req[q].acc # NoAccount
        BY <2>3, <2>5, <4>2 DEF Write, SaveSucceeds
      <4> QED
        BY <4>1, <4>2
    <3> QED
      BY <2>5, <3>1 DEF Write
  <2>6. ASSUME NEW q \in Procs, NEW u \in Users, Login(q, u) \/ DeleteAccount(q, u)
        PROVE  FALSE
    <3>1. Goto(q, "upsert", u, NewAccount(u, u \in Offline)) \/ Goto(q, "open", u, NoAccount)
      BY <2>6 DEF Login, DeleteAccount
    <3> QED
      BY <2>3, <3>1
  <2>7. ASSUME NEW q \in Procs,
               \/ Refreshed(q) \/ RefreshFails(q) \/ MarkExpired(q) \/ UpsertAccount(q)
               \/ OpenFails(q) \/ Truncate(q) \/ WriteFails(q)
        PROVE  FALSE
    <3>1. \E step \in {"upsert", "mark", "idle", "open", "write"} : \E id, acc :
            Goto(q, step, id, acc)
      <4>1. CASE Refreshed(q)
        BY <4>1 DEF Refreshed
      <4>2. CASE RefreshFails(q)
        BY <4>2 DEF RefreshFails
      <4>3. CASE MarkExpired(q)
        BY <4>3 DEF MarkExpired
      <4>4. CASE UpsertAccount(q)
        BY <4>4 DEF UpsertAccount
      <4>5. CASE OpenFails(q) \/ WriteFails(q)
        BY <4>5 DEF OpenFails, WriteFails, SaveFails
      <4>6. CASE Truncate(q)
        BY <4>6 DEF Truncate
      <4> QED
        BY <2>7, <4>1, <4>2, <4>3, <4>4, <4>5, <4>6
    <3> QED
      BY <2>3, <3>1
  <2>8. CASE Crash
    BY <2>8 DEF Crash, Idle
  <2>9. CASE Restart \/ Expire
    BY <2>9 DEF Restart, Expire
  <2> QED
    BY <2>1, <2>4, <2>5, <2>6, <2>7, <2>8, <2>9 DEF Next
<1>2. Spec => [][Step]_vars
  <2> HIDE DEF Step
  <2> QED
    BY <1>1, AccountsInvariant, PTL DEF Spec
<1> QED
  BY <1>2 DEF Served

-----------------------------------------------------------------------------
(* What callers were told, and the file. *)

\* Memory and the file, unless it is torn, have the accounts that were stored and none
\* that was deleted; and so has memory the change that a save under way is about. Memory
\* may be ahead of the file, when a save has failed, but never behind it.
KeptInv ==
    /\ up => stored \subseteq Ids(data) /\ gone \cap Ids(data) = {}
    /\ disk # Torn => stored \subseteq Ids(disk) /\ gone \cap Ids(disk) = {}
    /\ \A p \in Procs : req[p].at \in {"open", "write"} =>
            IF req[p].acc = NoAccount THEN req[p].id \notin Ids(data)
            ELSE req[p].acc.id \in Ids(data)

\* Every step preserves it: the list changes only while nothing is being saved.
LEMMA KeptStep == AccountsInv /\ KeptInv /\ [Next]_vars => KeptInv'
<1> SUFFICES ASSUME AccountsInv, KeptInv, [Next]_vars PROVE KeptInv'
  OBVIOUS
<1>0. /\ data \in Seq(Account) /\ Distinct(data) /\ stored \subseteq Users
      /\ req \in [Procs -> Request]
      /\ \A p \in Procs : GoodRequest(req[p], data, grants, removed)
  BY DEF AccountsInv, TypeOK, GoodList, Request
<1> DEFINE SaveKept(r, s) ==
             r.at \in {"open", "write"} =>
                IF r.acc = NoAccount THEN r.id \notin Ids(s) ELSE r.acc.id \in Ids(s)
<1>1. ASSUME NEW p \in Procs, NEW r, req' = [req EXCEPT ![p] = r],
             SaveKept(r, data'), data' = data \/ Unlocked
      PROVE  \A q \in Procs : SaveKept(req'[q], data')
  <2> SUFFICES ASSUME NEW q \in Procs, q # p PROVE SaveKept(req[q], data')
    BY <1>0, <1>1
  <2>1. SaveKept(req[q], data)
    BY DEF KeptInv
  <2> QED
    BY <1>1, <2>1 DEF Unlocked
<1>2. ASSUME NEW p \in Procs, NEW r, req' = [req EXCEPT ![p] = r],
             SaveKept(r, data), UNCHANGED <<data, disk, up, stored, gone>>
      PROVE  KeptInv'
  <2>1. \A q \in Procs : SaveKept(req'[q], data')
    BY <1>1, <1>2
  <2> QED
    BY <1>2, <2>1 DEF KeptInv
<1>3. ASSUME NEW p \in Procs, NEW step \in {"idle", "returned", "refresh", "mark", "upsert"},
             NEW id, NEW acc, Goto(p, step, id, acc),
             UNCHANGED <<data, disk, up, stored, gone>>
      PROVE  KeptInv'
  <2> DEFINE r == [at |-> step, id |-> id, acc |-> acc]
  <2>1. req' = [req EXCEPT ![p] = r] /\ r.at \notin {"open", "write"}
    BY <1>3 DEF Goto
  <2> HIDE DEF r
  <2> QED
    BY <1>2, <1>3, <2>1
<1>4. ASSUME NEW p \in Procs, NEW u \in Users, Login(p, u) PROVE KeptInv'
  BY <1>3, <1>4 DEF Login, ghosts
<1>5. ASSUME NEW p \in Procs, NEW u \in Users, Ask(p, u) PROVE KeptInv'
  <2> DEFINE acc == data[First({i \in DOMAIN data : data[i].id = u})]
  <2> HIDE DEF acc
  <2>1. \/ Goto(p, "returned", u, acc) \/ Goto(p, "refresh", u, acc)
        \/ Goto(p, "mark", u, acc)
    <3>1. CASE ~Expired(acc)
      BY <1>5, <3>1 DEF Ask, acc
    <3>2. CASE Expired(acc) /\ acc.refresh # None
      BY <1>5, <3>2 DEF Ask, acc
    <3>3. CASE Expired(acc) /\ acc.refresh = None
      BY <1>5, <3>3 DEF Ask, acc
    <3> QED
      BY <3>1, <3>2, <3>3
  <2>2. UNCHANGED <<data, disk, up, stored, gone>>
    BY <1>5 DEF Ask, ghosts
  <2> QED
    BY <1>3, <2>1, <2>2
<1>6. ASSUME NEW p \in Procs, NEW u \in Users, DeleteAccount(p, u) PROVE KeptInv'
  <2> DEFINE r == [at |-> "open", id |-> u, acc |-> NoAccount]
  <2>1. /\ Unlocked /\ req' = [req EXCEPT ![p] = r] /\ data' = Without(data, u)
        /\ stored' = stored \ {u} /\ UNCHANGED <<disk, up, gone>>
    BY <1>6 DEF DeleteAccount, Goto
  <2>2. Ids(data') = Ids(data) \ {u}
    BY <1>0, <2>1, WithoutLemma
  <2>3. SaveKept(r, data')
    BY <2>2
  <2> HIDE DEF r
  <2>4. \A q \in Procs : SaveKept(req'[q], data')
    BY <1>1, <2>1, <2>3
  <2> QED
    BY <2>1, <2>2, <2>4 DEF KeptInv
<1>7. ASSUME NEW p \in Procs, Refreshed(p) PROVE KeptInv'
  BY <1>3, <1>7 DEF Refreshed, ghosts
<1>8. ASSUME NEW p \in Procs, RefreshFails(p) PROVE KeptInv'
  BY <1>3, <1>8 DEF RefreshFails, ghosts
<1>9. ASSUME NEW p \in Procs, MarkExpired(p) PROVE KeptInv'
  <2> DEFINE a == req[p].acc
             hits == {i \in DOMAIN data : data[i].id = a.id}
             r == [at |-> IF hits = {} THEN "idle" ELSE "open",
                   id |-> NoAccount, acc |-> NoAccount]
  <2>1. /\ Unlocked /\ req[p].at = "mark" /\ req' = [req EXCEPT ![p] = r]
        /\ data' = IF hits = {} THEN data ELSE [data EXCEPT ![First(hits)] = a]
        /\ UNCHANGED <<disk, up, stored, gone>>
    BY <1>9 DEF MarkExpired, Goto, ghosts
  <2>2. a \in Account
    BY <1>0, <2>1 DEF GoodRequest, Request
  <2>3. data' \in Seq(Account) /\ Ids(data') = Ids(data)
    <3>1. CASE hits = {}
      BY <1>0, <2>1, <3>1
    <3>2. CASE hits # {}
      <4> DEFINE k == First(hits)
      <4>1. k \in DOMAIN data /\ data[k].id = a.id
        <5>1. hits \subseteq Nat
          BY <1>0
        <5>2. k \in hits
          BY <3>2, <5>1, FirstLemma
        <5> QED
          BY <5>2
      <4>2. data' = [data EXCEPT ![k] = a]
        BY <2>1, <3>2
      <4>3. data \in Seq(Account) /\ Distinct(data)
        BY <1>0
      <4> HIDE DEF a, k, hits
      <4> QED
        BY <2>2, <4>1, <4>2, <4>3, ReplacedLemma
    <3> QED
      BY <3>1, <3>2
  <2>4. NoAccount \notin Ids(data')
    <3>1. \A i \in DOMAIN data : data[i].id \in Users
      <4>1. data \in Seq(Account)
        BY <1>0
      <4>2. \A i \in DOMAIN data : data[i] \in Account
        BY <4>1
      <4> QED
        BY <4>2 DEF Account
    <3> QED
      BY <2>3, <3>1, TokenStoreAssumption DEF Ids
  <2>5. SaveKept(r, data')
    BY <2>4
  <2> HIDE DEF r
  <2>6. \A q \in Procs : SaveKept(req'[q], data')
    BY <1>1, <2>1, <2>5
  <2> QED
    BY <2>1, <2>3, <2>6 DEF KeptInv
<1>10. ASSUME NEW p \in Procs, UpsertAccount(p) PROVE KeptInv'
  <2> DEFINE a == req[p].acc
             r == [at |-> "open", id |-> req[p].id, acc |-> a]
  <2>1. /\ Unlocked /\ req[p].at = "upsert" /\ req' = [req EXCEPT ![p] = r]
        /\ data' = Upserted(data, a) /\ gone' = gone \ {a.id}
        /\ UNCHANGED <<disk, up, stored>>
    BY <1>10 DEF UpsertAccount, Goto
  <2>2. a \in Account /\ a # NoAccount
    BY <1>0, <2>1 DEF GoodRequest, Request
  <2>3. Ids(data') = Ids(data) \cup {a.id}
    <3> HIDE DEF a
    <3> QED
      BY <1>0, <2>1, <2>2, UpsertedLemma
  <2>4. SaveKept(r, data')
    BY <2>2, <2>3
  <2> HIDE DEF r, a
  <2>5. \A q \in Procs : SaveKept(req'[q], data')
    BY <1>1, <2>1, <2>4
  <2> QED
    BY <2>1, <2>3, <2>5 DEF KeptInv
<1>11. ASSUME NEW p \in Procs, OpenFails(p) \/ WriteFails(p) PROVE KeptInv'
  <2>1. /\ Goto(p, "idle", NoAccount, NoAccount)
        /\ UNCHANGED <<data, disk, up, stored, gone>>
    BY <1>11 DEF OpenFails, WriteFails, SaveFails
  <2> QED
    BY <1>3, <2>1
<1>12. ASSUME NEW p \in Procs, Truncate(p) PROVE KeptInv'
  <2> DEFINE r == [at |-> "write", id |-> req[p].id, acc |-> req[p].acc]
  <2>1. /\ req[p].at = "open" /\ req' = [req EXCEPT ![p] = r] /\ disk' = Torn
        /\ UNCHANGED <<data, up, stored, gone>>
    BY <1>12 DEF Truncate, Goto, ghosts
  <2>2. SaveKept(r, data')
    BY <2>1 DEF KeptInv
  <2> HIDE DEF r
  <2>3. \A q \in Procs : SaveKept(req'[q], data')
    BY <1>1, <2>1, <2>2
  <2> QED
    BY <2>1, <2>3 DEF KeptInv
<1>13. ASSUME NEW p \in Procs, Write(p) PROVE KeptInv'
  <2>1. /\ up /\ req[p].at = "write" /\ disk' = data /\ UNCHANGED <<data, up>>
        /\ SaveSucceeds(p)
    BY <1>13 DEF Write
  <2>2. IF req[p].acc = NoAccount THEN req[p].id \notin Ids(data)
        ELSE req[p].acc.id \in Ids(data)
    BY <2>1 DEF KeptInv
  <2>3. stored' \subseteq Ids(data) /\ gone' \cap Ids(data) = {}
    <3>1. CASE req[p].acc = NoAccount
      <4>1. stored' = stored /\ gone' = gone \cup ({req[p].id} \cap Users)
        BY <2>1, <3>1 DEF SaveSucceeds
      <4> QED
        BY <2>1, <2>2, <3>1, <4>1 DEF KeptInv
    <3>2. CASE req[p].acc # NoAccount
      <4>1. stored' = stored \cup {req[p].acc.id} /\ gone' = gone
        BY <2>1, <3>2 DEF SaveSucceeds
      <4> QED
        BY <2>1, <2>2, <3>2, <4>1 DEF KeptInv
    <3> QED
      BY <3>1, <3>2
  <2>4. PICK step, id, acc : step \in {"idle", "returned"} /\ Goto(p, step, id, acc)
    BY <2>1 DEF SaveSucceeds
  <2> DEFINE r == [at |-> step, id |-> id, acc |-> acc]
  <2>5. req' = [req EXCEPT ![p] = r] /\ r.at \notin {"open", "write"}
    BY <2>4 DEF Goto
  <2> HIDE DEF r
  <2>6. \A q \in Procs : SaveKept(req'[q], data')
    BY <1>1, <2>1, <2>5
  <2> QED
    BY <2>1, <2>3, <2>6 DEF KeptInv
<1>14. CASE Crash
  <2>1. /\ up' = FALSE /\ req' = [p \in Procs |-> Idle] /\ UNCHANGED <<disk, stored, gone>>
    BY <1>14 DEF Crash, ghosts
  <2>2. \A p \in Procs : req'[p].at \notin {"open", "write"}
    BY <2>1 DEF Idle
  <2> QED
    BY <2>1, <2>2 DEF KeptInv
<1>15. CASE Restart
  <2>1. /\ ~up /\ disk # Torn /\ data' = disk /\ UNCHANGED <<disk, req, stored, gone>>
    BY <1>15 DEF Restart, ghosts
  <2>2. \A p \in Procs : req[p].at \notin {"open", "write"}
    BY <2>1 DEF AccountsInv
  <2> QED
    BY <2>1, <2>2 DEF KeptInv
<1>16. CASE Expire \/ UNCHANGED vars
  <2>1. UNCHANGED <<data, disk, up, req, stored, gone>>
    BY <1>16 DEF Expire, vars, ghosts
  <2> QED
    BY <2>1 DEF KeptInv
<1> QED
  BY <1>4, <1>5, <1>6, <1>7, <1>8, <1>9, <1>10, <1>11, <1>12, <1>13, <1>14, <1>15, <1>16
     DEF Next

\* What was acknowledged survives: a server that starts has every account that was stored
\* and none that was deleted, wherever the one before it died (saveLocked, OpenStore).
THEOREM AcknowledgedSurvives == Spec => SurvivesRestart
<1>1. Init => KeptInv
  BY DEF Init, KeptInv, Ids, Idle
<1>2. AccountsInv /\ KeptInv /\ [Next]_vars => KeptInv'
  BY KeptStep
<1> DEFINE Step == ~up /\ up' => stored \subseteq Ids(data') /\ gone \cap Ids(data') = {}
<1>3. KeptInv /\ [Next]_vars => [Step]_vars
  <2> SUFFICES ASSUME KeptInv, Next, ~up, up'
               PROVE  stored \subseteq Ids(data') /\ gone \cap Ids(data') = {}
    BY Zenon
  <2>1. ASSUME NEW p \in Procs, NEW u \in Users,
               Login(p, u) \/ Ask(p, u) \/ DeleteAccount(p, u)
        PROVE  FALSE
    BY <2>1 DEF Login, Ask, DeleteAccount, Free
  <2>2. ASSUME NEW p \in Procs, Refreshed(p) \/ RefreshFails(p) \/ MarkExpired(p) \/ UpsertAccount(p)
        PROVE  FALSE
    BY <2>2 DEF Refreshed, RefreshFails, MarkExpired, UpsertAccount, Unlocked
  <2>3. ASSUME NEW p \in Procs, OpenFails(p) \/ Truncate(p) \/ Write(p) \/ WriteFails(p)
        PROVE  FALSE
    BY <2>3 DEF OpenFails, Truncate, Write, WriteFails
  <2>4. CASE Crash \/ Expire
    BY <2>4 DEF Crash, Expire
  <2>5. CASE Restart
    BY <2>5 DEF Restart, KeptInv
  <2> QED
    BY <2>1, <2>2, <2>3, <2>4, <2>5 DEF Next
<1>4. Spec => [][Step]_vars
  <2> HIDE DEF Step
  <2> QED
    BY <1>1, <1>2, <1>3, AccountsInvariant, PTL DEF Spec
<1> QED
  BY <1>4 DEF SurvivesRestart
=============================================================================
