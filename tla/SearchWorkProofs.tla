--------------------------- MODULE SearchWorkProofs ---------------------------
(***************************************************************************)
(* Proofs about SearchWork and UrlRegistry, for any workers, entities,      *)
(* pages, messages, limits and faults:                                     *)
(*   - type correctness;                                                   *)
(*   - a page is fetched under one fresh claim at a time, and not after    *)
(*     it was searched: the registry implements ExclusiveWork;             *)
(*   - a relevant searched page has its verdict, or a worker that will      *)
(*     record it, or its summary was lost before it was cached;            *)
(*   - the queue implements WorkDelivery;                                  *)
(*   - no write takes finds away while deliveries keep their visibility.   *)
(***************************************************************************)
EXTENDS SearchWork, FiniteSetTheorems, TLAPS

(***************************************************************************)
(* The pages.                                                              *)
(***************************************************************************)

\* What a worker has in hand when it is at r.pc.
UserOK(r) ==
  /\ r \in User
  /\ r.pc \notin {"idle", "next"} => r.url \in Urls
  /\ r.pc = "finalize" => r.final \in Finals[r.url] /\ r.out # "none"
  /\ r.pc = "record" => r.out # "none" /\ (r.out = "summary" => r.final \in Finals[r.url])

RegistryOK ==
  /\ reg \in [Urls -> Page]
  /\ verdict \in [Urls -> Verdict]
  /\ claims \in Nat
  /\ stale \in 0..claims
  /\ lost \subseteq Urls
  /\ \A u \in Urls : reg[u].no <= claims

UsersOK ==
  /\ user \in [Workers -> User]
  /\ \A w \in Workers :
       /\ UserOK(user[w])
       /\ user[w].no <= claims
       /\ user[w].pc = "reclaim" => user[w].no <= stale

\* w fetches its page under a claim that has not gone stale.
Holding(w) == user[w].pc \in {"fetch", "finalize"} /\ user[w].no > stale

\* Such a claim is in the registry, unless the page was found searched since.
HoldingOK ==
  \A w \in Workers : Holding(w) =>
    \/ reg[Url(w)].st = "searched"
    \/ reg[Url(w)].st = "in_progress" /\ reg[Url(w)].no = user[w].no

OneHolder ==
  \A w1, w2 \in Workers : Holding(w1) /\ Holding(w2) /\ Url(w1) = Url(w2) => w1 = w2

UrlInv == RegistryOK /\ UsersOK /\ HoldingOK /\ OneHolder /\ Landed

LEMMA IdleOK == UserOK(Idle)
  BY UrlAssumption DEF UserOK, User, Idle

\* A worker that may go from o to r without a write to table or cache; with
\* Quiet, it is still at the same entity.
Calm(o, r) ==
  /\ UserOK(r)
  /\ o.pc # "record"
  /\ r.no <= claims
  /\ r.pc = "reclaim" => r.no <= stale
  /\ r.pc \in {"fetch", "finalize"} => o.pc = "fetch" /\ r.url = o.url /\ r.no = o.no

Quiet(o, r) ==
  /\ Calm(o, r)
  /\ r.ent = o.ent
  /\ o.found \subseteq r.found

\* The records that the steps make.
LEMMA TurnOK ==
  ASSUME NEW r, UserOK(r), NEW c \in {"claim", "reclaim", "fetch", "record"},
         NEW n \in Nat, NEW o \in {"none", "REJECT", "summary"},
         r.pc \notin {"idle", "next"},
         c = "record" => o # "none" /\ (o = "summary" => r.final \in Finals[r.url])
  PROVE  UserOK([r EXCEPT !.pc = c, !.no = n, !.out = o])
  BY DEF UserOK, User

LEMMA DealtOK ==
  ASSUME NEW r, UserOK(r), NEW F \in SUBSET Urls
  PROVE  UserOK([r EXCEPT !.pc = "next", !.url = NoUrl, !.no = 0, !.final = NoUrl,
                          !.out = "none", !.found = @ \cup F])
<1> DEFINE q == [r EXCEPT !.pc = "next", !.url = NoUrl, !.no = 0, !.final = NoUrl,
                          !.out = "none", !.found = @ \cup F]
<1>1. q \in User
  BY DEF UserOK, User
<1>2. q.pc = "next"
  BY DEF UserOK, User
<1> QED
  BY <1>1, <1>2 DEF UserOK

LEMMA UserType ==
  ASSUME UsersOK, NEW w \in Workers
  PROVE  user[w] \in User /\ UserOK(user[w])
  BY DEF UsersOK

\* One worker goes on, nothing else changes.
LEMMA CalmKeeps ==
  ASSUME UrlInv, NEW w \in Workers, NEW r, Calm(user[w], r),
         user' = [user EXCEPT ![w] = r],
         UNCHANGED <<reg, verdict, claims, stale, lost>>
  PROVE  UrlInv'
<1>0. /\ user'[w] = r
      /\ \A x \in Workers : x # w => user'[x] = user[x]
      /\ user' \in [Workers -> User]
  BY DEF UrlInv, UsersOK, Calm, UserOK
<1>1. RegistryOK'
  BY DEF UrlInv, RegistryOK
<1>2. UsersOK'
  BY <1>0 DEF UrlInv, UsersOK, Calm
<1>3. \A x \in Workers : Holding(x)' =>
        Holding(x) /\ user'[x].url = user[x].url /\ user'[x].no = user[x].no
  BY <1>0 DEF Calm, Holding
<1>4. HoldingOK'
  BY <1>3 DEF UrlInv, HoldingOK, Url
<1>5. OneHolder'
  BY <1>3 DEF UrlInv, OneHolder, Url
<1>6. Landed'
  BY <1>0 DEF UrlInv, Landed, Calm, Url
<1> QED
  BY <1>1, <1>2, <1>4, <1>5, <1>6 DEF UrlInv

\* The steps of a page that touch neither the table nor the cache.
QuietStep(w) ==
  \/ \E u \in Urls : TakeSummary(w, u) \/ TakeReject(w, u) \/ Verify(w, u)
  \/ SkipOrDefer(w) \/ DeferDomain(w) \/ Go(w) \/ Observe(w) \/ ClaimLost(w)
  \/ ReclaimLost(w) \/ FetchContent(w) \/ FetchNothing(w) \/ FetchRaises(w)
  \/ FinalizeRaises(w)

LEMMA QuietSteps ==
  ASSUME UrlInv, NEW w \in Workers, QuietStep(w)
  PROVE  /\ \E r : Quiet(user[w], r) /\ user' = [user EXCEPT ![w] = r]
         /\ UNCHANGED <<reg, verdict, claims, stale, lost>>
<1> DEFINE o == user[w]
<1>t. UserOK(o) /\ o \in User /\ o.no \in Nat /\ o.no <= claims /\ o.found \subseteq Urls
  BY DEF UrlInv, UsersOK, User
<1>n. claims \in Nat /\ stale \in Nat
  BY DEF UrlInv, RegistryOK
<1>1. ASSUME NEW u \in Urls, TakeSummary(w, u)
      PROVE  \E r : Quiet(o, r) /\ user' = [user EXCEPT ![w] = r]
  <2> DEFINE r == [o EXCEPT !.left = @ \ {u}, !.found = @ \cup {u}]
  <2>1. r \in User /\ r.pc = "next" /\ r.no = o.no /\ r.ent = o.ent /\ r.found = o.found \cup {u}
    BY <1>1, <1>t DEF TakeSummary, User
  <2>2. Quiet(o, r)
    BY <2>1, <1>1, <1>t DEF Quiet, Calm, UserOK, TakeSummary
  <2> QED
    BY <2>2, <1>1 DEF TakeSummary
<1>2. ASSUME NEW u \in Urls, TakeReject(w, u)
      PROVE  \E r : Quiet(o, r) /\ user' = [user EXCEPT ![w] = r]
  <2> DEFINE r == [o EXCEPT !.left = @ \ {u}]
  <2>1. r \in User /\ r.pc = "next" /\ r.no = o.no /\ r.ent = o.ent /\ r.found = o.found
    BY <1>2, <1>t DEF TakeReject, User
  <2>2. Quiet(o, r)
    BY <2>1, <1>2, <1>t DEF Quiet, Calm, UserOK, TakeReject
  <2> QED
    BY <2>2, <1>2 DEF TakeReject
<1>3. ASSUME NEW u \in Urls, Verify(w, u)
      PROVE  \E r : Quiet(o, r) /\ user' = [user EXCEPT ![w] = r]
  <2>1. PICK accepts \in BOOLEAN :
          user' = [user EXCEPT ![w] =
            [o EXCEPT !.left = @ \ {u}, !.url = u,
                      !.pc = IF accepts THEN "decide" ELSE "record",
                      !.out = IF accepts THEN "none" ELSE "REJECT"]]
    BY <1>3 DEF Verify
  <2> DEFINE r == [o EXCEPT !.left = @ \ {u}, !.url = u,
                      !.pc = IF accepts THEN "decide" ELSE "record",
                      !.out = IF accepts THEN "none" ELSE "REJECT"]
  <2>2. /\ r \in User /\ r.pc \in {"decide", "record"} /\ r.no = o.no /\ r.ent = o.ent
        /\ r.found = o.found /\ r.url = u /\ (r.pc = "record" => r.out = "REJECT")
    BY <1>t DEF User
  <2>3. Quiet(o, r)
    BY <2>2, <1>3, <1>t DEF Quiet, Calm, UserOK, Verify
  <2> QED
    BY <2>1, <2>3
<1> DEFINE q == [o EXCEPT !.pc = "next", !.url = NoUrl, !.no = 0, !.final = NoUrl,
                          !.out = "none", !.found = @ \cup {}]
<1>4. ASSUME o.pc # "record" PROVE Quiet(o, q)
  <2>1. UserOK(q)
    BY <1>t, DealtOK
  <2>2. q.pc = "next" /\ q.no = 0 /\ q.ent = o.ent /\ q.found = o.found
    BY <1>t DEF User
  <2> QED
    BY <2>1, <2>2, <1>4, <1>n DEF Quiet, Calm
<1>5. CASE SkipOrDefer(w) \/ DeferDomain(w) \/ ClaimLost(w) \/ ReclaimLost(w) \/ FetchRaises(w)
  BY <1>4, <1>5 DEF SkipOrDefer, DeferDomain, ClaimLost, ReclaimLost, FetchRaises, Dealt
<1>6. ASSUME NEW c \in {"claim", "reclaim", "record"}, NEW n \in Nat,
             NEW out \in {"none", "REJECT", "summary"},
             o.pc \notin {"idle", "next", "record"}, n <= claims,
             c = "reclaim" => n <= stale,
             c = "record" => out # "none" /\ (out = "summary" => o.final \in Finals[o.url]),
             Turn(w, c, n, out)
      PROVE  \E r : Quiet(o, r) /\ user' = [user EXCEPT ![w] = r]
  <2> DEFINE r == [o EXCEPT !.pc = c, !.no = n, !.out = out]
  <2>1. UserOK(r)
    BY <1>t, <1>6, TurnOK
  <2>2. r.pc = c /\ r.no = n /\ r.ent = o.ent /\ r.found = o.found
    BY <1>t DEF User
  <2>3. Quiet(o, r)
    BY <2>1, <2>2, <1>6 DEF Quiet, Calm
  <2> QED
    BY <2>3, <1>6 DEF Turn
<1>7. CASE Go(w)
  BY <1>6, <1>7, <1>n DEF Go
<1>8. CASE Observe(w)
  <2>1. reg[o.url] \in Page /\ reg[o.url].no <= claims /\ reg[o.url].no \in Nat
    BY <1>8, <1>t DEF Observe, UserOK, UrlInv, RegistryOK, Page
  <2>2. reg[o.url].no <= stale
    BY <1>8, <2>1, <1>n DEF Observe, Fresh, Url
  <2> QED
    BY <1>6, <1>8, <2>1, <2>2 DEF Observe, Url
<1>9. CASE FetchContent(w)
  <2>1. PICK out \in {"REJECT", "summary"}, f \in Finals[Url(w)] :
          user' = [user EXCEPT ![w] = [o EXCEPT !.pc = "finalize", !.final = f, !.out = out]]
    BY <1>9 DEF FetchContent
  <2> DEFINE r == [o EXCEPT !.pc = "finalize", !.final = f, !.out = out]
  <2>2. f \in Finals[o.url] /\ o.url \in Urls /\ f \in Urls
    BY <1>9, <1>t, UrlAssumption DEF FetchContent, UserOK, Url
  <2>3. /\ r \in User /\ r.pc = "finalize" /\ r.no = o.no /\ r.ent = o.ent
        /\ r.found = o.found /\ r.url = o.url /\ r.final = f /\ r.out = out
    BY <1>t, <2>2 DEF User
  <2>4. Quiet(o, r)
    BY <2>2, <2>3, <1>9, <1>t DEF Quiet, Calm, UserOK, FetchContent
  <2> QED
    BY <2>1, <2>4, <1>9 DEF FetchContent
<1>10. CASE FetchNothing(w)
  BY <1>6, <1>10, <1>t DEF FetchNothing
<1>11. CASE FinalizeRaises(w)
  <2>1. o.out \in {"REJECT", "summary"} /\ o.final \in Finals[o.url]
    BY <1>11, <1>t DEF FinalizeRaises, UserOK, User
  <2> QED
    BY <1>6, <1>11, <2>1, <1>t DEF FinalizeRaises
<1>12. UNCHANGED <<reg, verdict, claims, stale, lost>>
  BY DEF QuietStep, TakeSummary, TakeReject, Verify, SkipOrDefer, DeferDomain, Go,
         Observe, ClaimLost, ReclaimLost, FetchContent, FetchNothing, FetchRaises,
         FinalizeRaises
<1> QED
  BY <1>1, <1>2, <1>3, <1>5, <1>7, <1>8, <1>9, <1>10, <1>11, <1>12 DEF QuietStep

-----------------------------------------------------------------------------
(* The steps that write the table or the cache.                            *)

\* A new claim on a page that nobody holds.
LEMMA ClaimKeeps ==
  ASSUME UrlInv, NEW w \in Workers, NEW r, NEW u \in Urls, ~Live(u),
         UserOK(r), user[w].pc # "record", r.no <= claims + 1,
         r.pc \in {"next", "fetch"},
         r.pc = "fetch" => r.url = u /\ r.no = claims + 1,
         user' = [user EXCEPT ![w] = r], PutClaim(u),
         UNCHANGED <<verdict, stale, lost>>
  PROVE  UrlInv'
<1>0. /\ user'[w] = r
      /\ \A x \in Workers : x # w => user'[x] = user[x]
      /\ user' \in [Workers -> User]
  BY DEF UrlInv, UsersOK, UserOK
<1>n. claims \in Nat /\ stale \in Nat /\ stale <= claims /\ claims' = claims + 1
  BY DEF UrlInv, RegistryOK, PutClaim
<1>m. \A x \in Workers : user[x].no \in Nat /\ user[x].no <= claims
  BY DEF UrlInv, UsersOK, User
<1>r. /\ reg' \in [Urls -> Page]
      /\ reg'[u] = [st |-> "in_progress", no |-> claims + 1, relevant |-> FALSE]
      /\ \A v \in Urls : v # u => reg'[v] = reg[v]
  <2>1. [st |-> "in_progress", no |-> claims + 1, relevant |-> FALSE] \in Page
    BY <1>n DEF Page
  <2> QED
    BY <2>1 DEF UrlInv, RegistryOK, PutClaim
<1>1. RegistryOK'
  <2>1. \A v \in Urls : reg'[v].no <= claims'
    BY <1>r, <1>n DEF UrlInv, RegistryOK, Page
  <2>2. stale' \in 0..claims'
    BY <1>n
  <2> QED
    BY <2>1, <2>2, <1>r, <1>n DEF UrlInv, RegistryOK
<1>2. UsersOK'
  <2>1. \A x \in Workers : user'[x].no <= claims'
    BY <1>0, <1>n, <1>m
  <2> QED
    BY <2>1, <1>0 DEF UrlInv, UsersOK
\* The page was not held.
<1>3. \A x \in Workers : Holding(x) => Url(x) # u
  BY <1>m, <1>n DEF UrlInv, HoldingOK, Live, Fresh, Holding
<1>4. \A x \in Workers : Holding(x)' =>
        \/ x = w /\ r.pc = "fetch"
        \/ x # w /\ Holding(x) /\ user'[x] = user[x]
  BY <1>0 DEF Holding
<1>5. HoldingOK'
  <2> SUFFICES ASSUME NEW x \in Workers, Holding(x)'
               PROVE  \/ reg'[user'[x].url].st = "searched"
                      \/ reg'[user'[x].url].st = "in_progress" /\ reg'[user'[x].url].no = user'[x].no
    BY DEF HoldingOK, Url
  <2>1. CASE x = w /\ r.pc = "fetch"
    BY <2>1, <1>0, <1>r
  <2>2. CASE x # w /\ Holding(x) /\ user'[x] = user[x]
    <3>1. user[x].url \in Urls /\ user[x].url # u
      BY <2>2, <1>3 DEF UrlInv, UsersOK, UserOK, Holding, Url
    <3> QED
      BY <3>1, <2>2, <1>r DEF UrlInv, HoldingOK, Url
  <2> QED
    BY <2>1, <2>2, <1>4
<1>6. OneHolder'
  <2> SUFFICES ASSUME NEW x \in Workers, NEW y \in Workers, Holding(x)', Holding(y)',
                      user'[x].url = user'[y].url
               PROVE  x = y
    BY DEF OneHolder, Url
  <2> QED
    BY <1>0, <1>3, <1>4 DEF UrlInv, OneHolder, Url
<1>7. Landed'
  BY <1>0, <1>r DEF UrlInv, Landed, Url
<1> QED
  BY <1>1, <1>2, <1>5, <1>6, <1>7 DEF UrlInv

LEMMA ClaimSteps ==
  ASSUME UrlInv, NEW w \in Workers, ClaimNew(w) \/ Reclaim(w) \/ ClaimRaises(w)
  PROVE  UrlInv'
<1> DEFINE o == user[w]
<1>t. UserOK(o) /\ o \in User /\ o.no \in Nat /\ o.no <= claims
  BY DEF UrlInv, UsersOK, User
<1>n. claims \in Nat /\ stale \in Nat /\ stale <= claims
  BY DEF UrlInv, RegistryOK
<1>u. o.url \in Urls
  BY <1>t DEF ClaimNew, Reclaim, ClaimRaises, UserOK
<1>f. ASSUME ~Live(o.url), PutClaim(o.url), Turn(w, "fetch", claims + 1, "none"),
             UNCHANGED <<verdict, stale, lost>>, o.pc \in {"claim", "reclaim"}
      PROVE  UrlInv'
  <2> DEFINE r == [o EXCEPT !.pc = "fetch", !.no = claims + 1, !.out = "none"]
  <2>0. claims + 1 \in Nat /\ claims + 1 <= claims + 1
    BY <1>n
  <2>1. UserOK(r)
    <3>1. o.pc \notin {"idle", "next"}
      BY <1>f
    <3> QED
      BY <2>0, <3>1, <1>t, TurnOK
  <2>2. r.pc = "fetch" /\ r.no = claims + 1 /\ r.url = o.url
    BY <1>t DEF User
  <2>3. user' = [user EXCEPT ![w] = r]
    BY <1>f DEF Turn
  <2> HIDE DEF r
  <2> QED
    BY <2>0, <2>1, <2>2, <2>3, <1>f, <1>u, ClaimKeeps
<1>1. CASE ClaimNew(w)
  BY <1>1, <1>f DEF ClaimNew, Live, Fresh, Url
<1>2. CASE Reclaim(w)
  <2>1. ~Live(o.url)
    BY <1>2, <1>t, <1>n DEF Reclaim, Live, Fresh, Url, UrlInv, UsersOK
  <2> QED
    BY <2>1, <1>2, <1>f DEF Reclaim, Url
<1>3. CASE ClaimRaises(w)
  <2> DEFINE r == [o EXCEPT !.pc = "next", !.url = NoUrl, !.no = 0, !.final = NoUrl,
                            !.out = "none", !.found = @ \cup {}]
  <2>1. UserOK(r)
    BY <1>t, DealtOK
  <2>2. r.pc = "next" /\ r.no = 0 /\ r.ent = o.ent /\ r.found = o.found
    BY <1>t DEF User
  <2>3. user' = [user EXCEPT ![w] = r]
    BY <1>3 DEF ClaimRaises, Dealt
  <2> HIDE DEF r
  <2>4. CASE UNCHANGED <<reg, claims>>
    <3>1. Quiet(o, r)
      BY <2>1, <2>2, <1>3, <1>n DEF Quiet, Calm, ClaimRaises
    <3> QED
      BY <2>3, <2>4, <3>1, <1>3, CalmKeeps DEF Quiet, ClaimRaises
  <2>5. CASE /\ \/ o.pc = "claim" /\ reg[o.url].st = "none"
                \/ /\ o.pc = "reclaim"
                   /\ reg[o.url].st = "in_progress" /\ reg[o.url].no = o.no
             /\ PutClaim(o.url)
    <3>1. ~Live(o.url)
      <4>1. o.pc = "reclaim" => o.no <= stale
        BY DEF UrlInv, UsersOK
      <4> QED
        BY <2>5, <4>1, <1>t, <1>n DEF Live, Fresh
    <3>2. r.no <= claims + 1
      BY <2>2, <1>n
    <3>3. o.pc # "record" /\ UNCHANGED <<verdict, stale, lost>>
      BY <1>3 DEF ClaimRaises
    <3> QED
      BY <2>1, <2>2, <2>3, <2>5, <3>1, <3>2, <3>3, <1>u, ClaimKeeps
  <2> QED
    BY <2>4, <2>5, <1>3 DEF ClaimRaises, Url
<1> QED
  BY <1>1, <1>2, <1>3

LEMMA FinalizeKeeps ==
  ASSUME UrlInv, NEW w \in Workers, Finalize(w)
  PROVE  UrlInv'
<1> DEFINE o == user[w]
           r == [o EXCEPT !.pc = "record", !.no = o.no, !.out = o.out]
           f == o.final
           p == [st |-> "searched", no |-> 0, relevant |-> o.out = "summary"]
<1>t. UserOK(o) /\ o \in User /\ o.no \in Nat /\ o.pc = "finalize"
  BY DEF UrlInv, UsersOK, User, Finalize
<1>o. o.out \in {"REJECT", "summary"} /\ f \in Finals[o.url] /\ f \in Urls
  BY <1>t, UrlAssumption DEF UserOK, User
<1>r. UserOK(r) /\ r.pc = "record" /\ r.no = o.no /\ r.out = o.out /\ r.final = f
  <2>1. UserOK(r)
    BY <1>t, <1>o, TurnOK
  <2> QED
    BY <2>1, <1>t DEF User
<1>0. /\ user'[w] = r
      /\ \A x \in Workers : x # w => user'[x] = user[x]
      /\ user' \in [Workers -> User]
  BY <1>r DEF UrlInv, UsersOK, UserOK, Finalize, Turn
<1>p. p \in Page
  BY DEF Page
<1>g. /\ reg' \in [Urls -> Page] /\ reg'[f] = p
      /\ \A v \in Urls : v # f => reg'[v] = reg[v]
  BY <1>o, <1>p DEF UrlInv, RegistryOK, Finalize
<1> HIDE DEF r
<1>n. UNCHANGED <<verdict, claims, stale, lost>>
  BY DEF Finalize
<1>1. RegistryOK'
  BY <1>g, <1>n DEF UrlInv, RegistryOK
<1>2. UsersOK'
  BY <1>0, <1>r, <1>n DEF UrlInv, UsersOK
<1>3. \A x \in Workers : Holding(x)' => x # w /\ Holding(x) /\ user'[x] = user[x]
  BY <1>0, <1>r, <1>n DEF Holding
<1>4. HoldingOK'
  <2> SUFFICES ASSUME NEW x \in Workers, Holding(x)'
               PROVE  \/ reg'[user'[x].url].st = "searched"
                      \/ reg'[user'[x].url].st = "in_progress" /\ reg'[user'[x].url].no = user'[x].no
    BY DEF HoldingOK, Url
  <2>1. user[x].url \in Urls
    BY <1>3 DEF UrlInv, UsersOK, UserOK, Holding
  <2> QED
    BY <2>1, <1>3, <1>g DEF UrlInv, HoldingOK, Url
<1>5. OneHolder'
  BY <1>3 DEF UrlInv, OneHolder, Url
<1>6. Landed'
  <2> SUFFICES ASSUME NEW t \in Urls \ lost, reg'[t].st = "searched", reg'[t].relevant
               PROVE  \/ \E u \in Urls : t \in Finals[u] /\ verdict[u].is # "none"
                      \/ \E x \in Workers : /\ user'[x].pc = "record" /\ user'[x].out = "summary"
                                            /\ user'[x].final = t
    BY <1>n DEF Landed
  <2>1. CASE t = f
    <3>1. p.relevant = (o.out = "summary")
      OBVIOUS
    <3>2. p.relevant
      BY <2>1, <1>g
    <3>3. o.out = "summary"
      BY <3>1, <3>2
    <3> QED
      BY <2>1, <3>3, <1>0, <1>r
  <2>2. CASE t # f
    BY <2>2, <1>0, <1>g, <1>t DEF UrlInv, Landed
  <2> QED
    BY <2>1, <2>2
<1> QED
  BY <1>1, <1>2, <1>4, <1>5, <1>6 DEF UrlInv

\* A worker that ends with a page neither fetches it nor claims it.
Rests(r) == UserOK(r) /\ r.pc \in {"idle", "next"} /\ r.no = 0

LEMMA RestKeeps ==
  ASSUME UrlInv, NEW w \in Workers, NEW r, Rests(r),
         user' = [user EXCEPT ![w] = r],
         verdict' \in [Urls -> Verdict], lost' \subseteq Urls,
         Landed', UNCHANGED <<reg, claims, stale>>
  PROVE  UrlInv'
<1>0. /\ user'[w] = r
      /\ \A x \in Workers : x # w => user'[x] = user[x]
      /\ user' \in [Workers -> User]
  BY DEF UrlInv, UsersOK, UserOK, Rests
<1>1. RegistryOK'
  BY DEF UrlInv, RegistryOK
<1>2. UsersOK'
  BY <1>0 DEF UrlInv, UsersOK, Rests, RegistryOK
<1>3. \A x \in Workers : Holding(x)' => x # w /\ Holding(x) /\ user'[x] = user[x]
  BY <1>0 DEF Holding, Rests
<1>4. HoldingOK'
  BY <1>3 DEF UrlInv, HoldingOK, Url
<1>5. OneHolder'
  BY <1>3 DEF UrlInv, OneHolder, Url
<1> QED
  BY <1>1, <1>2, <1>4, <1>5 DEF UrlInv

LEMMA RecordKeeps ==
  ASSUME UrlInv, NEW w \in Workers, Record(w)
  PROVE  UrlInv'
<1> DEFINE o == user[w]
           F == IF o.out = "summary" THEN {o.url} ELSE {}
           r == [o EXCEPT !.pc = "next", !.url = NoUrl, !.no = 0, !.final = NoUrl,
                          !.out = "none", !.found = @ \cup F]
           v == [is |-> o.out, of |-> o.ent]
<1>t. UserOK(o) /\ o \in User /\ o.pc = "record" /\ o.url \in Urls /\ o.out \in {"REJECT", "summary"}
  BY DEF UrlInv, UsersOK, UserOK, User, Record
<1>r. UserOK(r) /\ r.pc = "next" /\ r.no = 0
  <2>1. F \in SUBSET Urls
    BY <1>t
  <2>2. UserOK(r)
    BY <2>1, <1>t, DealtOK
  <2> QED
    BY <2>2, <1>t DEF User
<1>u. user' = [user EXCEPT ![w] = r]
  BY DEF Record, Dealt, Url
<1>v. v \in Verdict
  BY <1>t DEF Verdict, User
<1>g. /\ verdict' \in [Urls -> Verdict]
      /\ verdict'[o.url].is # "none"
      /\ \A u \in Urls : verdict[u].is # "none" => verdict'[u].is # "none"
  BY <1>t, <1>v DEF UrlInv, RegistryOK, Record, Url
<1>0. \A x \in Workers : x # w => user'[x] = user[x]
  BY <1>u DEF UrlInv, UsersOK
<1>1. Landed'
  <2> SUFFICES ASSUME NEW t \in Urls \ lost, reg[t].st = "searched", reg[t].relevant
               PROVE  \/ \E u \in Urls : t \in Finals[u] /\ verdict'[u].is # "none"
                      \/ \E x \in Workers : /\ user'[x].pc = "record" /\ user'[x].out = "summary"
                                            /\ user'[x].final = t
    BY DEF Landed, Record
  <2>1. CASE \E u \in Urls : t \in Finals[u] /\ verdict[u].is # "none"
    BY <2>1, <1>g
  <2>2. ASSUME NEW x \in Workers, user[x].pc = "record", user[x].out = "summary",
               user[x].final = t
        PROVE  \/ \E u \in Urls : t \in Finals[u] /\ verdict'[u].is # "none"
               \/ \E y \in Workers : /\ user'[y].pc = "record" /\ user'[y].out = "summary"
                                     /\ user'[y].final = t
    <3>1. CASE x = w
      BY <3>1, <2>2, <1>t, <1>g DEF UserOK
    <3>2. CASE x # w
      BY <3>2, <2>2, <1>0
    <3> QED
      BY <3>1, <3>2
  <2> QED
    BY <2>1, <2>2 DEF UrlInv, Landed
<1>2. UNCHANGED <<reg, claims, stale, lost>>
  BY DEF Record
<1>3. lost' \subseteq Urls
  BY <1>2 DEF UrlInv, RegistryOK
<1>4. Rests(r)
  BY <1>r DEF Rests
<1> HIDE DEF r
<1> QED
  BY <1>1, <1>2, <1>3, <1>4, <1>g, <1>u, RestKeeps

\* Landed survives a worker that loses its summary.
LEMMA ForgetKeeps ==
  ASSUME UrlInv, NEW w \in Workers, Forget(w), UNCHANGED <<reg, verdict>>,
         \A x \in Workers : x # w => user'[x] = user[x]
  PROVE  lost' \subseteq Urls /\ Landed'
<1> DEFINE o == user[w]
<1>1. /\ lost' \subseteq Urls
      /\ lost \subseteq lost'
      /\ o.pc = "record" /\ o.out = "summary" => o.final \in lost'
  <2>1. o.pc = "record" /\ o.out = "summary" => o.final \in Urls
    BY UrlAssumption DEF UserOK, UrlInv, UsersOK
  <2> QED
    BY <2>1 DEF Forget, UrlInv, RegistryOK
<1>2. Landed'
  <2> SUFFICES ASSUME NEW t \in Urls \ lost', reg[t].st = "searched", reg[t].relevant
               PROVE  \/ \E u \in Urls : t \in Finals[u] /\ verdict[u].is # "none"
                      \/ \E x \in Workers : /\ user'[x].pc = "record" /\ user'[x].out = "summary"
                                            /\ user'[x].final = t
    BY DEF Landed
  <2> QED
    BY <1>1 DEF UrlInv, Landed
<1> QED
  BY <1>1, <1>2

LEMMA RecordFailsKeeps ==
  ASSUME UrlInv, NEW w \in Workers, RecordFails(w)
  PROVE  UrlInv'
<1> DEFINE o == user[w]
           F == IF o.out = "summary" THEN {o.url} ELSE {}
           r == [o EXCEPT !.pc = "next", !.url = NoUrl, !.no = 0, !.final = NoUrl,
                          !.out = "none", !.found = @ \cup F]
<1>t. UserOK(o) /\ o \in User /\ o.url \in Urls
  BY DEF UrlInv, UsersOK, UserOK, RecordFails
<1>r. Rests(r)
  <2>1. F \in SUBSET Urls
    BY <1>t
  <2>2. UserOK(r)
    BY <2>1, <1>t, DealtOK
  <2> QED
    BY <2>2, <1>t DEF User, Rests
<1>u. user' = [user EXCEPT ![w] = r]
  BY DEF RecordFails, Dealt, Url
<1> HIDE DEF r
<1>1. \A x \in Workers : x # w => user'[x] = user[x]
  BY <1>u DEF UrlInv, UsersOK
<1>2. Forget(w) /\ UNCHANGED <<reg, verdict, claims, stale>>
  BY DEF RecordFails
<1>3. lost' \subseteq Urls /\ Landed'
  BY <1>1, <1>2, ForgetKeeps
<1>4. verdict' \in [Urls -> Verdict]
  BY <1>2 DEF UrlInv, RegistryOK
<1> QED
  BY <1>2, <1>3, <1>4, <1>r, <1>u, RestKeeps

LEMMA DropKeeps ==
  ASSUME UrlInv, NEW w \in Workers, Drop(w)
  PROVE  UrlInv'
<1>0. user' = [user EXCEPT ![w] = Idle] /\ UNCHANGED <<reg, verdict, claims, stale>>
  BY DEF Drop
<1>1. \A x \in Workers : x # w => user'[x] = user[x]
  BY <1>0 DEF UrlInv, UsersOK
<1>2. lost' \subseteq Urls /\ Landed'
  BY <1>0, <1>1, ForgetKeeps DEF Drop
<1>3. Rests(Idle)
  BY IdleOK DEF Rests, Idle
<1>4. verdict' \in [Urls -> Verdict]
  BY <1>0 DEF UrlInv, RegistryOK
<1> QED
  BY <1>0, <1>2, <1>3, <1>4, RestKeeps

LEMMA AgeKeeps == UrlInv /\ Age => UrlInv'
<1> SUFFICES ASSUME UrlInv, Age PROVE UrlInv'
  OBVIOUS
<1>0. UNCHANGED <<reg, verdict, user, claims, lost>> /\ stale' = claims
  BY DEF Age
<1>n. claims \in Nat /\ stale \in Nat /\ stale <= claims
  BY DEF UrlInv, RegistryOK
<1>1. RegistryOK'
  BY <1>0, <1>n DEF UrlInv, RegistryOK
<1>2. UsersOK'
  BY <1>0, <1>n DEF UrlInv, UsersOK, UserOK, User
<1>3. \A w \in Workers : ~Holding(w)'
  BY <1>0, <1>n DEF UrlInv, UsersOK, User, Holding
<1>4. HoldingOK' /\ OneHolder'
  BY <1>3 DEF HoldingOK, OneHolder
<1>5. Landed'
  BY <1>0 DEF UrlInv, Landed, Url
<1> QED
  BY <1>1, <1>2, <1>4, <1>5 DEF UrlInv

-----------------------------------------------------------------------------
(* All steps of a page.                                                    *)

LEMMA UrlInitOK == UrlInit => UrlInv
<1> SUFFICES ASSUME UrlInit PROVE UrlInv
  OBVIOUS
<1>1. RegistryOK
  BY DEF UrlInit, RegistryOK, Page, Verdict
<1>2. UsersOK
  <2>1. Idle \in User /\ Idle.no = 0 /\ Idle.pc = "idle"
    BY IdleOK DEF UserOK, Idle
  <2> QED
    BY <2>1, IdleOK, <1>1 DEF UrlInit, UsersOK, RegistryOK
<1>3. HoldingOK /\ OneHolder
  BY DEF UrlInit, Idle, HoldingOK, OneHolder, Holding
<1>4. Landed
  BY DEF UrlInit, Landed
<1> QED
  BY <1>1, <1>2, <1>3, <1>4 DEF UrlInv

LEMMA UrlSame == UrlInv /\ UNCHANGED urlVars => UrlInv'
<1> SUFFICES ASSUME UrlInv, UNCHANGED urlVars PROVE UrlInv'
  OBVIOUS
<1>1. RegistryOK' /\ UsersOK' /\ Landed'
  BY DEF UrlInv, urlVars, RegistryOK, UsersOK, UserOK, Landed, Url
<1>2. HoldingOK' /\ OneHolder'
  BY DEF UrlInv, urlVars, HoldingOK, OneHolder, Holding, Url
<1> QED
  BY <1>1, <1>2 DEF UrlInv

LEMMA UrlStepKeeps ==
  ASSUME UrlInv, NEW w \in Workers, UrlStep(w) \/ UrlFault(w)
  PROVE  UrlInv'
<1>1. CASE QuietStep(w)
  BY <1>1, QuietSteps, CalmKeeps DEF Quiet
<1>2. CASE ClaimNew(w) \/ Reclaim(w) \/ ClaimRaises(w)
  BY <1>2, ClaimSteps
<1>3. CASE Finalize(w)
  BY <1>3, FinalizeKeeps
<1>4. CASE Record(w) \/ RecordFails(w)
  BY <1>4, RecordKeeps, RecordFailsKeeps
<1> QED
  BY <1>1, <1>2, <1>3, <1>4 DEF UrlStep, UrlFault, QuietStep

\* The worker stays with its entity and loses no find of it.
Mine(w) ==
  /\ \A x \in Workers : x # w => user'[x] = user[x]
  /\ user'[w].ent = user[w].ent
  /\ user[w].found \subseteq user'[w].found

LEMMA TurnMine ==
  ASSUME UsersOK, NEW w \in Workers, NEW c, NEW n, NEW o, Turn(w, c, n, o)
  PROVE  Mine(w)
<1>1. user[w] \in User
  BY DEF UsersOK
<1> QED
  BY <1>1 DEF Turn, Mine, UsersOK, User

LEMMA DealtMine ==
  ASSUME UsersOK, NEW w \in Workers, NEW F, Dealt(w, F)
  PROVE  Mine(w)
<1>1. user[w] \in User
  BY DEF UsersOK
<1>2. /\ user'[w] = [user[w] EXCEPT !.pc = "next", !.url = NoUrl, !.no = 0,
                       !.final = NoUrl, !.out = "none", !.found = @ \cup F]
      /\ \A x \in Workers : x # w => user'[x] = user[x]
  BY DEF Dealt, UsersOK
<1>3. user'[w].ent = user[w].ent /\ user'[w].found = user[w].found \cup F
  BY <1>1, <1>2 DEF User
<1> QED
  BY <1>2, <1>3 DEF Mine

LEMMA UrlStepMine ==
  ASSUME UrlInv, NEW w \in Workers, UrlStep(w) \/ UrlFault(w)
  PROVE  Mine(w)
<1>0. UsersOK
  BY DEF UrlInv
<1>1. CASE QuietStep(w)
  <2>1. PICK r : Quiet(user[w], r) /\ user' = [user EXCEPT ![w] = r]
    BY <1>1, QuietSteps
  <2> QED
    BY <2>1, <1>0 DEF Quiet, Mine, UsersOK
<1>2. CASE ClaimNew(w) \/ Reclaim(w) \/ Finalize(w)
  BY <1>0, <1>2, TurnMine DEF ClaimNew, Reclaim, Finalize
<1>3. CASE ClaimRaises(w) \/ Record(w) \/ RecordFails(w)
  BY <1>0, <1>3, DealtMine DEF ClaimRaises, Record, RecordFails
<1> QED
  BY <1>1, <1>2, <1>3 DEF UrlStep, UrlFault, QuietStep

(***************************************************************************)
(* The work.                                                               *)
(***************************************************************************)

WorkTypeOK ==
  /\ msg \in [Msgs -> Message]
  /\ work \in [Workers -> Work]
  /\ entity \in [Entities -> Entity]
  /\ desired \in 0..MaxPool
  /\ scaler \in [pc : {"idle", "update"}, to : 0..MaxPool]
  /\ faults \in 0..MaxFaults
  /\ late \subseteq Entities

\* What a worker has in hand at each point.
WorkerOK(w) ==
  /\ Busy(w) => work[w].msg \in Msgs /\ msg[work[w].msg].tries > 0
  /\ work[w].pc \in {"off", "poll", "open", "delete"} => user[w].pc = "idle"
  /\ work[w].pc = "save" => user[w].pc = "next"
  /\ work[w].pc \in {"enrich", "save"} => user[w].ent = Of[work[w].msg]
  /\ work[w].pc = "delete" => entity[Of[work[w].msg]].searched

WorkOK == \A w \in Workers : WorkerOK(w)

Pending(m) == msg[m].st \in {"unsent", "chosen"}

MsgOK == \A m \in Msgs : Pending(m) => msg[m].tries = 0

\* An entity that is not late has one message and one worker at most, and the
\* finds in hand include those of the record.
LateMsgs ==
  \A m, n \in Msgs : m # n /\ Of[m] = Of[n] /\ Of[m] \notin late => Pending(m) \/ Pending(n)

LateHeld ==
  \A w \in Workers : Busy(w) /\ Of[work[w].msg] \notin late =>
    msg[work[w].msg].st = "inflight" /\ work[w].receipt = msg[work[w].msg].tries

LateOne ==
  \A x, y \in Workers :
    Busy(x) /\ Busy(y) /\ Of[work[x].msg] = Of[work[y].msg] /\ Of[work[x].msg] \notin late => x = y

LateFinds ==
  \A w \in Workers : work[w].pc \in {"enrich", "save"} /\ user[w].ent \notin late =>
    entity[user[w].ent].finds \subseteq user[w].found

Inv ==
  /\ UrlInv /\ WorkTypeOK /\ WorkOK /\ MsgOK
  /\ LateMsgs /\ LateHeld /\ LateOne /\ LateFinds

LEMMA InvImpliesTypes == Inv => TypeOK
  BY DEF Inv, UrlInv, RegistryOK, UsersOK, WorkTypeOK, TypeOK, UrlTypeOK

LEMMA OffType == Off \in Work
  BY SearchAssumption DEF Off, Work

LEMMA InitInv == Init => Inv
<1> SUFFICES ASSUME Init PROVE Inv
  OBVIOUS
<1>1. UrlInv
  BY UrlInitOK DEF Init
<1>2. WorkTypeOK
  BY OffType, SearchAssumption DEF Init, WorkTypeOK, Message, Entity
<1>3. \A w \in Workers : work[w].pc = "off" /\ user[w].pc = "idle"
  BY DEF Init, UrlInit, Off, Idle
<1>4. WorkOK /\ LateHeld /\ LateOne /\ LateFinds
  BY <1>3 DEF WorkOK, WorkerOK, LateHeld, LateOne, LateFinds, Busy
<1>5. MsgOK /\ LateMsgs
  BY DEF Init, MsgOK, LateMsgs, Pending
<1> QED
  BY <1>1, <1>2, <1>4, <1>5 DEF Inv

-----------------------------------------------------------------------------
(* Types.                                                                  *)

LEMMA WorkTypes ==
  ASSUME WorkTypeOK, NEW w \in Workers
  PROVE  /\ work[w] \in Work
         /\ work[w].pc \in {"off", "poll", "open", "enrich", "save", "delete"}
         /\ work[w].receipt \in 0..MaxReceive
         /\ work[w].stopping \in BOOLEAN
  BY DEF WorkTypeOK, Work

\* One worker goes on to c.
LEMMA AtFacts ==
  ASSUME WorkTypeOK, NEW w \in Workers,
         NEW c \in {"off", "poll", "open", "enrich", "save", "delete"}, At(w, c)
  PROVE  /\ work' \in [Workers -> Work]
         /\ work'[w].pc = c /\ work'[w].msg = work[w].msg
         /\ work'[w].receipt = work[w].receipt /\ work'[w].stopping = work[w].stopping
         /\ \A x \in Workers : x # w => work'[x] = work[x]
<1>1. work[w] \in Work
  BY DEF WorkTypeOK
<1>2. [work[w] EXCEPT !.pc = c] \in Work
  BY <1>1 DEF Work
<1>3. work' = [work EXCEPT ![w] = [work[w] EXCEPT !.pc = c]]
  BY DEF At
<1> QED
  BY <1>1, <1>2, <1>3 DEF WorkTypeOK, Work

\* A message changes where it is.
LEMMA MsgFacts ==
  ASSUME WorkTypeOK, NEW m \in Msgs,
         NEW s \in {"unsent", "chosen", "visible", "inflight", "deleted", "dead"},
         msg' = [msg EXCEPT ![m].st = s]
  PROVE  /\ msg' \in [Msgs -> Message]
         /\ msg'[m].st = s /\ msg'[m].tries = msg[m].tries
         /\ \A n \in Msgs : n # m => msg'[n] = msg[n]
<1>1. msg[m] \in Message
  BY DEF WorkTypeOK
<1>2. [msg[m] EXCEPT !.st = s] \in Message
  BY <1>1 DEF Message
<1>3. msg' = [msg EXCEPT ![m] = [msg[m] EXCEPT !.st = s]]
  OBVIOUS
<1> QED
  BY <1>1, <1>2, <1>3 DEF WorkTypeOK, Message

\* A message is received.
LEMMA ReceiveFacts ==
  ASSUME Inv, NEW w \in Workers, NEW m \in Msgs, Receive(w, m)
  PROVE  /\ msg' \in [Msgs -> Message]
         /\ msg'[m].st = "inflight" /\ msg'[m].tries = msg[m].tries + 1
         /\ \A n \in Msgs : n # m => msg'[n] = msg[n]
         /\ work' \in [Workers -> Work]
         /\ work'[w].pc = "open" /\ work'[w].msg = m /\ work'[w].receipt = msg[m].tries + 1
         /\ \A x \in Workers : x # w => work'[x] = work[x]
<1>1. /\ msg[m] \in Message /\ msg[m].tries \in Nat /\ msg[m].tries < MaxReceive
      /\ msg[m].tries + 1 \in 0..MaxReceive
  BY SearchAssumption DEF Inv, WorkTypeOK, Message, Receive, Receivable
<1>2. work[w] \in Work
  BY DEF Inv, WorkTypeOK
<1>3. [st |-> "inflight", tries |-> msg[m].tries + 1] \in Message
  BY <1>1 DEF Message
<1> DEFINE r == [work[w] EXCEPT !.pc = "open", !.msg = m, !.receipt = msg[m].tries + 1]
<1>4. r \in Work /\ r.pc = "open" /\ r.msg = m /\ r.receipt = msg[m].tries + 1
  BY <1>1, <1>2 DEF Work
<1>5. msg' = [msg EXCEPT ![m] = [st |-> "inflight", tries |-> msg[m].tries + 1]]
  BY DEF Receive
<1>6. work' = [work EXCEPT ![w] = r]
  BY DEF Receive
<1>7. msg \in [Msgs -> Message] /\ work \in [Workers -> Work]
  BY DEF Inv, WorkTypeOK
<1> HIDE DEF r
<1>8. /\ msg' \in [Msgs -> Message]
      /\ msg'[m] = [st |-> "inflight", tries |-> msg[m].tries + 1]
      /\ \A n \in Msgs : n # m => msg'[n] = msg[n]
  BY <1>3, <1>5, <1>7
<1>9. /\ work' \in [Workers -> Work] /\ work'[w] = r
      /\ \A x \in Workers : x # w => work'[x] = work[x]
  BY <1>4, <1>6, <1>7
<1> QED
  BY <1>4, <1>8, <1>9

\* The entity is saved.
LEMMA SaveFacts ==
  ASSUME Inv, NEW w \in Workers, Save(w)
  PROVE  /\ user[w].ent \in Entities /\ user[w].ent = Of[work[w].msg]
         /\ work[w].msg \in Msgs
         /\ entity' \in [Entities -> Entity]
         /\ entity'[user[w].ent].searched /\ entity'[user[w].ent].finds = user[w].found
         /\ \A e \in Entities : e # user[w].ent => entity'[e] = entity[e]
<1>1. work[w].msg \in Msgs /\ user[w].ent = Of[work[w].msg]
  BY DEF Inv, WorkOK, WorkerOK, Save, Busy
<1>2. user[w].ent \in Entities
  BY <1>1, SearchAssumption
<1>3. user[w].found \subseteq Urls
  BY DEF Inv, UrlInv, UsersOK, User
<1>4. [searched |-> TRUE, finds |-> user[w].found] \in Entity
  BY <1>3 DEF Entity
<1>5. entity' = [entity EXCEPT ![user[w].ent] = [searched |-> TRUE, finds |-> user[w].found]]
  BY DEF Save
<1> QED
  BY <1>1, <1>2, <1>4, <1>5 DEF Inv, WorkTypeOK

LEMMA BacklogType == Backlog \in Nat
<1>1. IsFiniteSet({m \in Msgs : msg[m].st \in {"visible", "inflight"}})
  BY SearchAssumption, FS_Subset
<1> QED
  BY <1>1, FS_CardinalityType DEF Backlog

LEMMA DesiredType ==
  ASSUME NEW b \in Nat
  PROVE  DesiredFor(b) \in 0..MaxPool
<1>1. (b + PerWorker - 1) \div PerWorker \in Int
  BY SearchAssumption
<1> QED
  BY <1>1, SearchAssumption DEF DesiredFor, Least, Greatest

\* The steps of one worker and its service.
WorkerAction(w) ==
  \/ \E m \in Msgs : Receive(w, m)
  \/ Open(w) \/ Enrich(w) \/ EnrichFaulty(w) \/ Enriched(w) \/ Retry(w) \/ Save(w)
  \/ Delete(w) \/ Exit(w) \/ Start(w) \/ Stop(w) \/ Kill(w) \/ Crash(w)

MsgAction(m) == Choose(m) \/ Send(m) \/ Lapse(m) \/ LapseHeld(m) \/ Redrive(m)

OtherAction == Measure \/ Update \/ ScaleFails \/ (Age /\ UNCHANGED workVars)

LEMMA NextCases ==
  ASSUME [Next]_vars
  PROVE  \/ \E w \in Workers : WorkerAction(w)
         \/ \E m \in Msgs : MsgAction(m)
         \/ OtherAction
         \/ UNCHANGED vars
  BY DEF Next, WorkerAction, MsgAction, OtherAction, WorkerStep, ServiceStep, QueueStep, ScalerStep

LEMMA WorkerTypes ==
  ASSUME Inv, NEW w \in Workers, WorkerAction(w)
  PROVE  WorkTypeOK'
<1> USE SearchAssumption
<1>i. WorkTypeOK
  BY DEF Inv
<1>1. ASSUME NEW m \in Msgs, Receive(w, m) PROVE WorkTypeOK'
  <2>1. msg' \in [Msgs -> Message] /\ work' \in [Workers -> Work]
    BY <1>1, ReceiveFacts
  <2> QED
    BY <1>1, <2>1, <1>i DEF Receive, WorkTypeOK
<1>2. CASE Open(w)
  <2>1. work' \in [Workers -> Work]
    BY <1>2, <1>i, AtFacts DEF Open
  <2> QED
    BY <1>2, <2>1, <1>i DEF Open, WorkTypeOK
<1>3. CASE Enrich(w) \/ EnrichFaulty(w)
  BY <1>3, <1>i DEF Enrich, EnrichFaulty, Fault, workVars, WorkTypeOK
<1>4. CASE Enriched(w) \/ Retry(w)
  <2>1. work' \in [Workers -> Work]
    BY <1>4, <1>i, AtFacts DEF Enriched, Retry
  <2> QED
    BY <1>4, <2>1, <1>i DEF Enriched, Retry, WorkTypeOK
<1>5. CASE Save(w)
  <2>1. work' \in [Workers -> Work]
    BY <1>5, <1>i, AtFacts DEF Save
  <2> QED
    BY <1>5, <2>1, <1>i, SaveFacts DEF Save, WorkTypeOK
<1>6. CASE Delete(w)
  <2>1. work' \in [Workers -> Work]
    BY <1>6, <1>i, AtFacts DEF Delete
  <2>2. work[w].msg \in Msgs
    BY <1>6 DEF Delete, Inv, WorkOK, WorkerOK, Busy
  <2>3. msg' \in [Msgs -> Message]
    <3> DEFINE m == work[w].msg
    <3>1. msg[m].st \in {"unsent", "chosen", "visible", "inflight", "deleted", "dead"}
      BY <2>2, <1>i DEF WorkTypeOK, Message
    <3>2. \/ \E s \in {"deleted", "dead"} : msg' = [msg EXCEPT ![m].st = s]
          \/ UNCHANGED msg
      BY <1>6 DEF Delete
    <3> QED
      BY <3>2, <2>2, <1>i, MsgFacts DEF WorkTypeOK
  <2> QED
    BY <1>6, <2>1, <2>3, <1>i DEF Delete, WorkTypeOK
<1>7. CASE Exit(w) \/ Kill(w) \/ Crash(w)
  <2>1. work' \in [Workers -> Work]
    BY <1>7, <1>i, OffType DEF Exit, Kill, Crash, WorkTypeOK
  <2> QED
    BY <1>7, <2>1, <1>i DEF Exit, Kill, Crash, Fault, WorkTypeOK
<1>8. CASE Start(w)
  <2>1. work' \in [Workers -> Work]
    BY <1>8, <1>i, AtFacts DEF Start
  <2> QED
    BY <1>8, <2>1, <1>i DEF Start, WorkTypeOK
<1>9. CASE Stop(w)
  <2>1. [work[w] EXCEPT !.stopping = TRUE] \in Work
    BY <1>i, WorkTypes DEF Work
  <2>2. work' \in [Workers -> Work]
    BY <1>9, <2>1, <1>i DEF Stop, WorkTypeOK
  <2> QED
    BY <1>9, <2>2, <1>i DEF Stop, WorkTypeOK
<1> QED
  BY <1>1, <1>2, <1>3, <1>4, <1>5, <1>6, <1>7, <1>8, <1>9 DEF WorkerAction

LEMMA MsgTypes ==
  ASSUME Inv, NEW m \in Msgs, MsgAction(m)
  PROVE  WorkTypeOK'
<1>i. WorkTypeOK
  BY DEF Inv
<1>1. msg' \in [Msgs -> Message]
  BY <1>i, MsgFacts DEF MsgAction, Choose, Send, Lapse, LapseHeld, Redrive
<1>2. Of[m] \in Entities
  BY SearchAssumption
<1> QED
  BY <1>1, <1>2, <1>i, SearchAssumption
  DEF MsgAction, Choose, Send, Lapse, LapseHeld, Redrive, Fault, WorkTypeOK

LEMMA OtherTypes == Inv /\ OtherAction => WorkTypeOK'
<1> SUFFICES ASSUME Inv, OtherAction PROVE WorkTypeOK'
  OBVIOUS
<1>i. WorkTypeOK
  BY DEF Inv
<1>1. CASE Measure
  <2>1. DesiredFor(Backlog) \in 0..MaxPool
    BY BacklogType, DesiredType
  <2> QED
    BY <1>1, <2>1, <1>i DEF Measure, WorkTypeOK
<1>2. CASE Update
  BY <1>2, <1>i, SearchAssumption DEF Update, WorkTypeOK
<1>3. CASE ScaleFails
  BY <1>3, <1>i, SearchAssumption DEF ScaleFails, Fault, WorkTypeOK
<1>4. CASE UNCHANGED workVars
  BY <1>4, <1>i DEF workVars, WorkTypeOK
<1> QED
  BY <1>1, <1>2, <1>3, <1>4 DEF OtherAction

-----------------------------------------------------------------------------
(* The pages, as the work goes on.                                         *)

LEMMA OpenBegins ==
  ASSUME Inv, NEW w \in Workers, Open(w)
  PROVE  LET m == work[w].msg
             e == Of[m]
             r == [Idle EXCEPT !.pc = "next", !.ent = e, !.left = Results[e] \ entity[e].finds,
                               !.found = entity[e].finds]
         IN  /\ m \in Msgs /\ e \in Entities
             /\ \/ At(w, "poll") /\ UNCHANGED user
                \/ At(w, "delete") /\ entity[e].searched /\ UNCHANGED user
                \/ At(w, "enrich") /\ user' = [user EXCEPT ![w] = r] /\ Calm(user[w], r)
<1> DEFINE m == work[w].msg
           e == Of[m]
           r == [Idle EXCEPT !.pc = "next", !.ent = e, !.left = Results[e] \ entity[e].finds,
                             !.found = entity[e].finds]
<1>1. m \in Msgs /\ user[w].pc = "idle"
  BY DEF Inv, WorkOK, WorkerOK, Open, Busy
<1>2. e \in Entities
  BY <1>1, SearchAssumption
<1>3. entity[e].finds \subseteq Urls /\ Results[e] \subseteq Urls
  BY <1>2, UrlAssumption DEF Inv, WorkTypeOK, Entity
<1>4. r \in User /\ r.pc = "next" /\ r.no = 0
  BY <1>2, <1>3, UrlAssumption DEF User, Idle
<1>5. 0 <= claims
  BY DEF Inv, UrlInv, RegistryOK
<1>6. Calm(user[w], r)
  BY <1>1, <1>4, <1>5 DEF Calm, UserOK
<1> QED
  BY <1>1, <1>2, <1>6 DEF Open, Begin

LEMMA WorkerUrlInv ==
  ASSUME Inv, NEW w \in Workers, WorkerAction(w)
  PROVE  UrlInv'
<1>i. UrlInv
  BY DEF Inv
<1>1. CASE Open(w)
  <2>1. UNCHANGED <<reg, verdict, claims, stale, lost>>
    BY <1>1 DEF Open
  <2>2. CASE UNCHANGED user
    BY <2>1, <2>2, <1>i, UrlSame DEF urlVars
  <2>3. CASE ~ UNCHANGED user
    <3>1. PICK r : user' = [user EXCEPT ![w] = r] /\ Calm(user[w], r)
      BY <1>1, <2>3, OpenBegins
    <3> QED
      BY <2>1, <3>1, <1>i, CalmKeeps
  <2> QED
    BY <2>2, <2>3
<1>2. CASE Enrich(w) \/ EnrichFaulty(w)
  BY <1>2, <1>i, UrlStepKeeps DEF Enrich, EnrichFaulty
<1>3. CASE Retry(w) \/ Kill(w) \/ Crash(w)
  BY <1>3, <1>i, DropKeeps DEF Retry, Kill, Crash
<1>4. CASE Save(w)
  <2>1. user[w].pc = "next"
    BY <1>4 DEF Inv, WorkOK, WorkerOK, Save
  <2>2. Calm(user[w], Idle)
    <3>1. 0 <= claims
      BY <1>i DEF UrlInv, RegistryOK
    <3>2. Idle.pc = "idle" /\ Idle.no = 0
      BY DEF Idle
    <3> QED
      BY <2>1, <3>1, <3>2, IdleOK DEF Calm
  <2> QED
    BY <1>4, <2>2, <1>i, CalmKeeps DEF Save
<1>5. CASE \/ \E m \in Msgs : Receive(w, m)
           \/ Enriched(w) \/ Delete(w) \/ Exit(w) \/ Start(w) \/ Stop(w)
  <2>1. UNCHANGED urlVars
    BY <1>5 DEF Receive, Enriched, Delete, Exit, Start, Stop
  <2> QED
    BY <2>1, <1>i, UrlSame
<1> QED
  BY <1>1, <1>2, <1>3, <1>4, <1>5 DEF WorkerAction

LEMMA MsgUrlInv ==
  ASSUME Inv, NEW m \in Msgs, MsgAction(m)
  PROVE  UrlInv'
<1>1. UNCHANGED urlVars
  BY DEF MsgAction, Choose, Send, Lapse, LapseHeld, Redrive
<1> QED
  BY <1>1, UrlSame DEF Inv

LEMMA OtherUrlInv == Inv /\ OtherAction => UrlInv'
<1> SUFFICES ASSUME Inv, OtherAction PROVE UrlInv'
  OBVIOUS
<1>1. CASE Age
  BY <1>1, AgeKeeps DEF Inv
<1>2. CASE Measure \/ Update \/ ScaleFails
  BY <1>2, UrlSame DEF Inv, Measure, Update, ScaleFails
<1> QED
  BY <1>1, <1>2 DEF OtherAction

-----------------------------------------------------------------------------
(* What the steps of a worker leave alone.                                 *)

\* The other workers, their pages and messages stay as they are.
LEMMA OthersStay ==
  ASSUME Inv, NEW w \in Workers, WorkerAction(w)
  PROVE  /\ \A x \in Workers : x # w => work'[x] = work[x] /\ user'[x] = user[x]
         /\ \A m \in Msgs : msg'[m] # msg[m] =>
              \/ Receive(w, m)
              \/ Delete(w) /\ m = work[w].msg /\ msg'[m].tries = msg[m].tries
         /\ \A m \in Msgs : msg'[m].tries >= msg[m].tries
         /\ \A e \in Entities : entity'[e] # entity[e] => Save(w) /\ e = user[w].ent
         /\ UNCHANGED late
<1>i. WorkTypeOK /\ UsersOK
  BY DEF Inv, UrlInv
<1>n. \A m \in Msgs : msg[m].tries \in Nat
  BY <1>i, SearchAssumption DEF WorkTypeOK, Message
<1>1. \A x \in Workers : x # w => work'[x] = work[x]
  BY <1>i DEF WorkerAction, Receive, Open, Enrich, EnrichFaulty, Enriched, Retry, Save,
              Delete, Exit, Start, Stop, Kill, Crash, At, workVars, WorkTypeOK
<1>2. \A x \in Workers : x # w => user'[x] = user[x]
  <2>1. CASE Enrich(w) \/ EnrichFaulty(w)
    BY <2>1, UrlStepMine DEF Enrich, EnrichFaulty, Mine, Inv
  <2>2. CASE Open(w) \/ Retry(w) \/ Save(w) \/ Kill(w) \/ Crash(w)
    BY <2>2, <1>i DEF Open, Begin, Retry, Save, Kill, Crash, Drop, UsersOK
  <2>3. CASE \/ \E m \in Msgs : Receive(w, m)
             \/ Enriched(w) \/ Delete(w) \/ Exit(w) \/ Start(w) \/ Stop(w)
    BY <2>3 DEF Receive, Enriched, Delete, Exit, Start, Stop, urlVars
  <2> QED
    BY <2>1, <2>2, <2>3 DEF WorkerAction
<1>3. /\ \A m \in Msgs : msg'[m] # msg[m] =>
           \/ Receive(w, m)
           \/ Delete(w) /\ m = work[w].msg /\ msg'[m].tries = msg[m].tries
      /\ \A m \in Msgs : msg'[m].tries >= msg[m].tries
  <2>1. ASSUME NEW n \in Msgs, Receive(w, n)
        PROVE  /\ \A m \in Msgs : msg'[m] # msg[m] => Receive(w, m)
               /\ \A m \in Msgs : msg'[m].tries >= msg[m].tries
    BY <2>1, <1>n, ReceiveFacts
  <2>2. CASE Delete(w)
    <3>1. work[w].msg \in Msgs
      BY <2>2 DEF Delete, Inv, WorkOK, WorkerOK, Busy
    <3>2. msg[work[w].msg].st \in {"unsent", "chosen", "visible", "inflight", "deleted", "dead"}
      BY <3>1, <1>i DEF WorkTypeOK, Message
    <3>3. \/ \E s \in {"deleted", "dead"} : msg' = [msg EXCEPT ![work[w].msg].st = s]
          \/ UNCHANGED msg
      BY <2>2 DEF Delete
    <3>4. CASE UNCHANGED msg
      BY <3>4, <1>n
    <3>5. ASSUME NEW s \in {"deleted", "dead"}, msg' = [msg EXCEPT ![work[w].msg].st = s]
          PROVE  \A m \in Msgs : msg'[m].tries = msg[m].tries /\ (msg'[m] # msg[m] => m = work[w].msg)
      BY <3>1, <3>5, <1>i, MsgFacts
    <3> QED
      BY <2>2, <3>3, <3>4, <3>5, <1>n
  <2>3. CASE UNCHANGED msg
    BY <2>3, <1>n
  <2> QED
    BY <2>1, <2>2, <2>3
    DEF WorkerAction, Open, Enrich, EnrichFaulty, Enriched, Retry, Save, Exit, Start, Stop,
        Kill, Crash, workVars
<1>4. \A e \in Entities : entity'[e] # entity[e] => Save(w) /\ e = user[w].ent
  <2>1. CASE Save(w)
    BY <2>1, SaveFacts
  <2>2. CASE UNCHANGED entity
    BY <2>2
  <2> QED
    BY <2>1, <2>2
    DEF WorkerAction, Receive, Open, Enrich, EnrichFaulty, Enriched, Retry, Delete, Exit,
        Start, Stop, Kill, Crash, workVars
<1>5. UNCHANGED late
  BY DEF WorkerAction, Receive, Open, Enrich, EnrichFaulty, Enriched, Retry, Save, Delete,
         Exit, Start, Stop, Kill, Crash, workVars
<1> QED
  BY <1>1, <1>2, <1>3, <1>4, <1>5

\* What one step does to its worker.
LEMMA OwnStep ==
  ASSUME Inv, NEW w \in Workers, WorkerAction(w)
  PROVE  \/ \E m \in Msgs : Receive(w, m)
         \/ /\ Busy(w) /\ work'[w].msg = work[w].msg /\ work'[w].receipt = work[w].receipt
            /\ \/ work'[w].pc = work[w].pc /\ user' = user
               \/ work[w].pc = "enrich" /\ work'[w].pc = "enrich" /\ Mine(w)
               \/ Open(w) /\ (At(w, "enrich") \/ At(w, "delete"))
               \/ Enriched(w) /\ work'[w].pc = "save"
               \/ Save(w) /\ work'[w].pc = "delete"
         \/ work'[w].pc \in {"off", "poll"} /\ user'[w].pc = "idle"
<1>i. WorkTypeOK /\ UsersOK
  BY DEF Inv, UrlInv
<1>d. Idle.pc = "idle"
  BY DEF Idle
<1>1. CASE Open(w)
  <2>1. work[w].pc = "open" /\ Busy(w) /\ user[w].pc = "idle"
    BY <1>1 DEF Open, Busy, Inv, WorkOK, WorkerOK
  <2>2. CASE At(w, "poll") /\ UNCHANGED user
    BY <2>1, <2>2, <1>i, AtFacts
  <2>3. CASE At(w, "enrich") \/ At(w, "delete")
    BY <1>1, <2>1, <2>3, <1>i, AtFacts
  <2> QED
    BY <1>1, <2>2, <2>3, OpenBegins
<1>2. CASE Enrich(w) \/ EnrichFaulty(w)
  <2>1. UNCHANGED work /\ work[w].pc = "enrich" /\ Busy(w)
    BY <1>2 DEF Enrich, EnrichFaulty, workVars, Busy
  <2>2. Mine(w)
    BY <1>2, UrlStepMine DEF Enrich, EnrichFaulty, Inv
  <2> QED
    BY <2>1, <2>2
<1>3. CASE Enriched(w)
  BY <1>3, <1>i, AtFacts DEF Enriched, Busy
<1>4. CASE Save(w)
  BY <1>4, <1>i, AtFacts DEF Save, Busy
<1>5. CASE Retry(w)
  <2>1. work'[w].pc = "poll"
    BY <1>5, <1>i, AtFacts DEF Retry
  <2> QED
    BY <1>5, <2>1, <1>i, <1>d DEF Retry, Drop, UsersOK
<1>6. CASE Delete(w)
  <2>1. work'[w].pc = "poll"
    BY <1>6, <1>i, AtFacts DEF Delete
  <2>2. user'[w].pc = "idle"
    BY <1>6 DEF Delete, urlVars, Inv, WorkOK, WorkerOK
  <2> QED
    BY <2>1, <2>2
<1>7. CASE Exit(w)
  <2>1. user'[w].pc = "idle"
    BY <1>7 DEF Exit, urlVars, Inv, WorkOK, WorkerOK
  <2> QED
    BY <1>7, <2>1, <1>i DEF Exit, WorkTypeOK, Off
<1>8. CASE Start(w)
  <2>1. work'[w].pc = "poll"
    BY <1>8, <1>i, AtFacts DEF Start
  <2>2. user'[w].pc = "idle"
    BY <1>8 DEF Start, urlVars, Inv, WorkOK, WorkerOK
  <2> QED
    BY <2>1, <2>2
<1>9. CASE Stop(w)
  <2>1. work[w] \in Work
    BY <1>i DEF WorkTypeOK
  <2>2. work'[w] = [work[w] EXCEPT !.stopping = TRUE]
    BY <1>9, <1>i DEF Stop, WorkTypeOK
  <2>3. /\ work'[w].pc = work[w].pc /\ work'[w].msg = work[w].msg
        /\ work'[w].receipt = work[w].receipt /\ user' = user
    BY <1>9, <2>1, <2>2 DEF Stop, urlVars, Work
  <2>4. work[w].pc \in {"off", "poll"} => user[w].pc = "idle"
    BY DEF Inv, WorkOK, WorkerOK
  <2>5. Busy(w) \/ work[w].pc \in {"off", "poll"}
    BY <1>i, WorkTypes DEF Busy
  <2> QED
    BY <2>3, <2>4, <2>5
<1>10. CASE Kill(w) \/ Crash(w)
  BY <1>10, <1>i, <1>d DEF Kill, Crash, Drop, WorkTypeOK, UsersOK, Off
<1> QED
  BY <1>1, <1>2, <1>3, <1>4, <1>5, <1>6, <1>7, <1>8, <1>9, <1>10 DEF WorkerAction

LEMMA WorkerWorkOK ==
  ASSUME Inv, NEW w \in Workers, WorkerAction(w)
  PROVE  WorkOK'
<1>i. WorkOK /\ WorkTypeOK /\ UsersOK
  BY DEF Inv, UrlInv
<1>n. \A m \in Msgs : msg[m].tries \in Nat /\ msg'[m].tries \in Nat
  BY <1>i, WorkerTypes, SearchAssumption DEF WorkTypeOK, Message
<1>e. \A e \in Entities : entity[e].searched => entity'[e].searched
  BY OthersStay, SaveFacts
<1>1. ASSUME NEW x \in Workers, work'[x].pc = work[x].pc, work'[x].msg = work[x].msg,
             user'[x].ent = user[x].ent,
             work[x].pc # "enrich" => user'[x].pc = user[x].pc
      PROVE  WorkerOK(x)'
  <2>1. Busy(x)' => Busy(x)
    BY <1>1 DEF Busy
  <2>2. Busy(x)' => work'[x].msg \in Msgs /\ msg'[work'[x].msg].tries > 0
    BY <1>1, <2>1, <1>i, <1>n, OthersStay DEF WorkOK, WorkerOK
  <2>3. work'[x].pc = "delete" => entity'[Of[work'[x].msg]].searched
    <3>1. work[x].pc = "delete" => work[x].msg \in Msgs /\ entity[Of[work[x].msg]].searched
      BY <1>i DEF WorkOK, WorkerOK, Busy
    <3> QED
      BY <1>1, <3>1, <1>e, SearchAssumption
  <2> QED
    BY <1>1, <2>2, <2>3, <1>i DEF WorkOK, WorkerOK
<1>2. ASSUME NEW x \in Workers, x # w
      PROVE  WorkerOK(x)'
  BY <1>1, <1>2, OthersStay
<1>3. WorkerOK(w)'
  <2>1. ASSUME NEW m \in Msgs, Receive(w, m)
        PROVE  WorkerOK(w)'
    <3>1. user'[w].pc = "idle"
      BY <2>1, <1>i DEF Receive, urlVars, WorkOK, WorkerOK
    <3> QED
      BY <2>1, <3>1, <1>n, ReceiveFacts DEF WorkerOK
  <2>2. CASE work'[w].msg = work[w].msg /\ work'[w].pc = work[w].pc /\ user' = user
    BY <2>2, <1>1
  <2>3. CASE /\ work'[w].msg = work[w].msg /\ Mine(w)
             /\ work[w].pc = "enrich" /\ work'[w].pc = "enrich"
    BY <2>3, <1>1 DEF Mine
  <2>b. Busy(w) => work[w].msg \in Msgs /\ msg'[work[w].msg].tries > 0
    BY <1>i, <1>n, OthersStay DEF WorkOK, WorkerOK
  <2>4. CASE Busy(w) /\ Open(w) /\ At(w, "delete")
    <3>1. work'[w].pc = "delete" /\ work'[w].msg = work[w].msg
      BY <2>4, <1>i, AtFacts
    <3>2. UNCHANGED <<user, entity>> /\ entity[Of[work[w].msg]].searched /\ user[w].pc = "idle"
      <4>1. ~At(w, "poll") /\ ~At(w, "enrich")
        BY <3>1, <1>i, AtFacts
      <4> QED
        BY <2>4, <4>1, <1>i, OpenBegins DEF Open, WorkOK, WorkerOK
    <3> QED
      BY <3>1, <3>2, <2>4, <2>b DEF WorkerOK
  <2>5. CASE Busy(w) /\ Open(w) /\ At(w, "enrich")
    <3>1. work'[w].pc = "enrich" /\ work'[w].msg = work[w].msg
      BY <2>5, <1>i, AtFacts
    <3>2. user'[w].ent = Of[work[w].msg]
      <4>1. ~At(w, "poll") /\ ~At(w, "delete")
        BY <3>1, <1>i, AtFacts
      <4> DEFINE e == Of[work[w].msg]
                 r == [Idle EXCEPT !.pc = "next", !.ent = e, !.left = Results[e] \ entity[e].finds,
                                   !.found = entity[e].finds]
      <4>2. user' = [user EXCEPT ![w] = r]
        BY <2>5, <4>1, OpenBegins
      <4>3. r.ent = e
        BY DEF Idle
      <4> QED
        BY <4>2, <4>3, <1>i DEF UsersOK
    <3> QED
      BY <3>1, <3>2, <2>5, <2>b DEF WorkerOK
  <2>6. CASE Busy(w) /\ Enriched(w) /\ work'[w].pc = "save" /\ work'[w].msg = work[w].msg
    <3>1. user' = user /\ user[w].pc = "next" /\ work[w].pc = "enrich"
      BY <2>6 DEF Enriched, urlVars
    <3> QED
      BY <3>1, <2>6, <2>b, <1>i DEF WorkOK, WorkerOK
  <2>7. CASE Busy(w) /\ Save(w) /\ work'[w].pc = "delete" /\ work'[w].msg = work[w].msg
    <3>1. user'[w].pc = "idle"
      BY <2>7, <1>i DEF Save, UsersOK, Idle
    <3>2. entity'[Of[work[w].msg]].searched
      BY <2>7, SaveFacts
    <3> QED
      BY <3>1, <3>2, <2>7, <2>b DEF WorkerOK
  <2>8. CASE work'[w].pc \in {"off", "poll"} /\ user'[w].pc = "idle"
    BY <2>8 DEF Busy, WorkerOK
  <2> QED
    BY <2>1, <2>2, <2>3, <2>4, <2>5, <2>6, <2>7, <2>8, OwnStep
<1> QED
  BY <1>2, <1>3 DEF WorkOK

LEMMA WorkerMsgOK ==
  ASSUME Inv, NEW w \in Workers, WorkerAction(w)
  PROVE  MsgOK' /\ (\A m \in Msgs : Pending(m) => Pending(m)')
<1>1. ASSUME NEW m \in Msgs
      PROVE  /\ Pending(m)' => msg'[m].tries = 0
             /\ Pending(m) => Pending(m)'
  <2>1. CASE msg'[m] = msg[m]
    BY <2>1 DEF Inv, MsgOK, Pending
  <2>2. CASE Receive(w, m)
    BY <2>2, ReceiveFacts DEF Pending, Receive, Receivable
  <2>3. CASE Delete(w) /\ m = work[w].msg
    <3>1. msg[m].tries > 0 /\ ~Pending(m)
      BY <2>3 DEF Inv, WorkOK, WorkerOK, MsgOK, Busy, Delete
    <3>2. msg'[m].st \in {msg[m].st, "dead", "deleted"}
      <4>1. msg[m] \in Message
        BY DEF Inv, WorkTypeOK
      <4>2. \/ UNCHANGED msg
            \/ msg' = [msg EXCEPT ![m].st = IF msg[m].st = "dead" THEN msg[m].st ELSE "deleted"]
        BY <2>3 DEF Delete
      <4> QED
        BY <4>1, <4>2 DEF Inv, WorkTypeOK, Message
    <3> QED
      BY <3>1, <3>2 DEF Pending
  <2> QED
    BY <2>1, <2>2, <2>3, OthersStay
<1> QED
  BY <1>1 DEF MsgOK

LEMMA WorkerLate ==
  ASSUME Inv, NEW w \in Workers, WorkerAction(w)
  PROVE  LateMsgs' /\ LateHeld' /\ LateOne' /\ LateFinds'
<1>i. WorkTypeOK /\ UsersOK /\ WorkOK /\ LateMsgs /\ LateHeld /\ LateOne /\ LateFinds /\ MsgOK
  BY DEF Inv, UrlInv
<1>l. late' = late
  BY OthersStay
<1>o. \A x \in Workers : x # w => work'[x] = work[x] /\ user'[x] = user[x]
  BY OthersStay
<1>m. \A x \in Workers : Busy(x) => work[x].msg \in Msgs /\ Of[work[x].msg] \in Entities
  BY <1>i, SearchAssumption DEF WorkOK, WorkerOK
<1>1. LateMsgs'
  <2>1. \A m \in Msgs : Receive(w, m) => ~Pending(m)
    BY DEF Receive, Receivable, Pending
  <2>2. Delete(w) => ~Pending(work[w].msg)
    BY <1>i DEF Delete, Busy, WorkOK, WorkerOK, MsgOK
  <2>3. \A m \in Msgs : Pending(m) => Pending(m)'
    BY WorkerMsgOK
  <2> QED
    BY <2>3, <1>i, <1>l DEF LateMsgs
\* A message that w changes is held by nobody else.
<1>2. ASSUME NEW x \in Workers, x # w, Busy(x), Of[work[x].msg] \notin late
      PROVE  msg'[work[x].msg] = msg[work[x].msg]
  <2>1. msg[work[x].msg].st = "inflight" /\ work[x].msg \in Msgs
    BY <1>2, <1>i, <1>m DEF LateHeld
  <2>2. ~Receive(w, work[x].msg)
    BY <2>1 DEF Receive, Receivable
  <2>3. ~(Delete(w) /\ work[x].msg = work[w].msg)
    BY <1>2, <1>i DEF LateOne, Delete, Busy
  <2> QED
    BY <2>1, <2>2, <2>3, OthersStay
\* A message that w receives is of an entity that nobody else is at.
<1>3. ASSUME NEW x \in Workers, x # w, Busy(x), NEW m \in Msgs, Receive(w, m),
             Of[work[x].msg] = Of[m]
      PROVE  Of[m] \in late
  <2> SUFFICES ASSUME Of[m] \notin late PROVE FALSE
    OBVIOUS
  <2>1. msg[work[x].msg].st = "inflight" /\ work[x].msg \in Msgs
    BY <1>3, <1>i, <1>m DEF LateHeld
  <2>2. msg[m].st = "visible"
    BY <1>3 DEF Receive, Receivable
  <2> QED
    BY <2>1, <2>2, <1>3, <1>i DEF LateMsgs, Pending
<1>4. LateHeld'
  <2> SUFFICES ASSUME NEW x \in Workers, Busy(x)', Of[work'[x].msg] \notin late
               PROVE  /\ msg'[work'[x].msg].st = "inflight"
                      /\ work'[x].receipt = msg'[work'[x].msg].tries
    BY <1>l DEF LateHeld
  <2>1. CASE x # w
    BY <2>1, <1>2, <1>o, <1>i DEF LateHeld, Busy
  <2>2. ASSUME x = w, NEW m \in Msgs, Receive(w, m)
        PROVE  msg'[work'[x].msg].st = "inflight" /\ work'[x].receipt = msg'[work'[x].msg].tries
    BY <2>2, ReceiveFacts
  <2>3. CASE x = w /\ \A m \in Msgs : ~Receive(w, m)
    <3>1. Busy(w) /\ work'[w].msg = work[w].msg /\ work'[w].receipt = work[w].receipt
      BY <2>3, OwnStep DEF Busy
    <3>2. ~Delete(w)
      BY <2>3, <1>i, AtFacts DEF Delete, Busy
    <3>3. msg'[work[w].msg] = msg[work[w].msg]
      BY <2>3, <3>1, <3>2, <1>m, OthersStay
    <3> QED
      BY <2>3, <3>1, <3>3, <1>i DEF LateHeld
  <2> QED
    BY <2>1, <2>2, <2>3
<1>5. LateOne'
  <2> SUFFICES ASSUME NEW x \in Workers, NEW y \in Workers, Busy(x)', Busy(y)', x = w, y # w,
                      Of[work'[x].msg] = Of[work'[y].msg], Of[work'[x].msg] \notin late
               PROVE  FALSE
    <3>1. ASSUME NEW x \in Workers, NEW y \in Workers, Busy(x)', Busy(y)', x # w, y # w,
                 Of[work'[x].msg] = Of[work'[y].msg], Of[work'[x].msg] \notin late
          PROVE  x = y
      BY <3>1, <1>o, <1>i DEF LateOne, Busy
    <3> QED
      BY <3>1, <1>l DEF LateOne
  <2>1. Busy(y) /\ work'[y].msg = work[y].msg
    BY <1>o DEF Busy
  <2>2. ASSUME NEW m \in Msgs, Receive(w, m) PROVE FALSE
    BY <2>1, <2>2, <1>3, ReceiveFacts
  <2>3. CASE \A m \in Msgs : ~Receive(w, m)
    <3>1. Busy(w) /\ work'[w].msg = work[w].msg
      BY <2>3, OwnStep DEF Busy
    <3> QED
      BY <2>1, <3>1, <1>i DEF LateOne
  <2> QED
    BY <2>2, <2>3
<1>6. LateFinds'
  <2> SUFFICES ASSUME NEW x \in Workers, work'[x].pc \in {"enrich", "save"}, user'[x].ent \notin late
               PROVE  entity'[user'[x].ent].finds \subseteq user'[x].found
    BY <1>l DEF LateFinds
  <2>1. CASE x # w
    <3>1. /\ work[x].pc \in {"enrich", "save"} /\ user[x].ent = Of[work[x].msg]
          /\ Busy(x) /\ user'[x] = user[x] /\ user[x].ent \in Entities
      BY <2>1, <1>o, <1>m, <1>i DEF Busy, WorkOK, WorkerOK
    <3>2. ~(Save(w) /\ user[x].ent = user[w].ent)
      BY <2>1, <3>1, <1>i, SaveFacts DEF LateOne, Save, Busy
    <3>3. entity'[user[x].ent] = entity[user[x].ent]
      BY <3>1, <3>2, OthersStay
    <3> QED
      BY <3>1, <3>3, <1>i DEF LateFinds
  <2>2. CASE x = w
    <3>0. ~Save(w)
      BY <2>2, <1>i, AtFacts DEF Save
    <3>1. UNCHANGED entity \/ \A e \in Entities : entity'[e] = entity[e]
      BY <3>0, OthersStay
    <3>2. CASE work'[w].pc = work[w].pc /\ user' = user
      <4>1. user[w].ent \in Entities
        BY <2>2, <3>2, <1>m, <1>i DEF Busy, WorkOK, WorkerOK
      <4> QED
        BY <2>2, <3>1, <3>2, <4>1, <1>i DEF LateFinds
    <3>3. CASE work[w].pc = "enrich" /\ Mine(w)
      <4>1. user[w].ent \in Entities
        BY <3>3, <1>m, <1>i DEF Busy, WorkOK, WorkerOK
      <4> QED
        BY <2>2, <3>1, <3>3, <4>1, <1>i DEF LateFinds, Mine
    <3>4. CASE Open(w)
      <4> DEFINE e == Of[work[w].msg]
                 r == [Idle EXCEPT !.pc = "next", !.ent = e, !.left = Results[e] \ entity[e].finds,
                                   !.found = entity[e].finds]
      <4>1. ~At(w, "poll") /\ ~At(w, "delete")
        BY <2>2, <1>i, AtFacts
      <4>2. user' = [user EXCEPT ![w] = r] /\ e \in Entities
        BY <3>4, <4>1, OpenBegins
      <4>3. r.ent = e /\ r.found = entity[e].finds
        BY DEF Idle
      <4> QED
        BY <2>2, <3>1, <4>2, <4>3, <1>i DEF UsersOK
    <3>5. CASE Enriched(w)
      <4>1. user' = user /\ work[w].pc = "enrich"
        BY <3>5 DEF Enriched, urlVars
      <4>2. user[w].ent \in Entities
        BY <4>1, <1>m, <1>i DEF Busy, WorkOK, WorkerOK
      <4> QED
        BY <2>2, <3>1, <4>1, <4>2, <1>i DEF LateFinds
    <3>6. ASSUME NEW m \in Msgs, Receive(w, m) PROVE FALSE
      BY <2>2, <3>6, ReceiveFacts
    <3> QED
      BY <2>2, <3>0, <3>2, <3>3, <3>4, <3>5, <3>6, OwnStep
  <2> QED
    BY <2>1, <2>2
<1> QED
  BY <1>1, <1>4, <1>5, <1>6

-----------------------------------------------------------------------------
(* The steps of the queue and the producer, and the others.                *)

LEMMA MsgStep ==
  ASSUME Inv, NEW m \in Msgs, MsgAction(m)
  PROVE  /\ UNCHANGED <<urlVars, work, entity>>
         /\ \A n \in Msgs : n # m => msg'[n] = msg[n]
         /\ msg'[m].tries = msg[m].tries
         /\ Pending(m)' => Pending(m)
         /\ late \subseteq late'
         /\ Pending(m) /\ ~Pending(m)' => Send(m)
         /\ msg[m].st = "inflight" => Of[m] \in late' \/ ~Held(m)
<1>i. WorkTypeOK
  BY DEF Inv
<1>1. UNCHANGED <<urlVars, work, entity>>
  BY DEF MsgAction, Choose, Send, Lapse, LapseHeld, Redrive
<1>2. PICK s \in {"chosen", "visible", "dead"} : msg' = [msg EXCEPT ![m].st = s]
  BY DEF MsgAction, Choose, Send, Lapse, LapseHeld, Redrive
<1>3. /\ msg'[m].st = s /\ msg'[m].tries = msg[m].tries
      /\ \A n \in Msgs : n # m => msg'[n] = msg[n]
  BY <1>2, <1>i, MsgFacts
<1>4. late \subseteq late'
  BY DEF MsgAction, Choose, Send, Lapse, LapseHeld, Redrive
<1>5. CASE Choose(m)
  <2>1. s = "chosen"
    BY <1>2, <1>3, <1>5, <1>i, MsgFacts DEF Choose
  <2> QED
    BY <2>1, <1>1, <1>3, <1>4, <1>5 DEF Choose, Pending
<1>6. CASE Send(m)
  BY <1>1, <1>3, <1>4, <1>6 DEF Send, Pending
<1>7. CASE Lapse(m) \/ LapseHeld(m) \/ Redrive(m)
  <2>1. s \in {"visible", "dead"}
    BY <1>2, <1>3, <1>7, <1>i, MsgFacts DEF Lapse, LapseHeld, Redrive
  <2>2. ~Pending(m)
    BY <1>7 DEF Lapse, LapseHeld, Redrive, Pending
  <2>3. ~Pending(m)'
    BY <2>1, <1>3 DEF Pending
  <2>4. msg[m].st = "inflight" => Of[m] \in late' \/ ~Held(m)
    BY <1>7 DEF Lapse, LapseHeld, Redrive
  <2> QED
    BY <2>2, <2>3, <2>4, <1>1, <1>3, <1>4
<1> QED
  BY <1>5, <1>6, <1>7 DEF MsgAction

LEMMA MsgInv ==
  ASSUME Inv, NEW m \in Msgs, MsgAction(m)
  PROVE  Inv'
<1>i. WorkTypeOK /\ WorkOK /\ MsgOK /\ LateMsgs /\ LateHeld /\ LateOne /\ LateFinds
  BY DEF Inv
<1>u. /\ UNCHANGED <<user, work, entity>> /\ late \subseteq late'
      /\ \A n \in Msgs : msg'[n].tries = msg[n].tries
  BY MsgStep DEF urlVars
<1>b. \A x \in Workers : Busy(x)' <=> Busy(x)
  BY <1>u DEF Busy
<1>1. UrlInv' /\ WorkTypeOK'
  BY MsgUrlInv, MsgTypes
<1>2. WorkOK'
  BY <1>i, <1>u, <1>b DEF WorkOK, WorkerOK
<1>3. MsgOK'
  <2>1. \A n \in Msgs : Pending(n)' => Pending(n)
    BY MsgStep DEF Pending
  <2> QED
    BY <2>1, <1>i, <1>u DEF MsgOK
<1>4. LateMsgs'
  <2> SUFFICES ASSUME NEW x \in Msgs, NEW y \in Msgs, x # y, Of[x] = Of[y], Of[x] \notin late',
                      ~Pending(x)', ~Pending(y)'
               PROVE  FALSE
    BY DEF LateMsgs
  <2>1. ASSUME NEW n \in Msgs, n # m, Of[n] = Of[m], ~Pending(n)', ~Pending(m)', Of[m] \notin late'
        PROVE  FALSE
    <3>1. ~Pending(n)
      BY <2>1, MsgStep DEF Pending
    <3>2. Pending(m)
      BY <2>1, <3>1, <1>i, <1>u DEF LateMsgs
    <3>3. Send(m)
      BY <2>1, <3>2, MsgStep
    <3>4. msg[n].st # "unsent"
      BY <3>1 DEF Pending
    <3> QED
      BY <2>1, <3>3, <3>4 DEF Send
  <2>2. CASE x # m /\ y # m
    BY <2>2, <1>i, <1>u, MsgStep DEF LateMsgs, Pending
  <2> QED
    BY <2>1, <2>2
\* The message of a busy worker whose entity is not late is held.
<1>5. ASSUME NEW x \in Workers, Busy(x), Of[work[x].msg] \notin late'
      PROVE  work[x].msg # m
  <2> SUFFICES ASSUME work[x].msg = m PROVE FALSE
    OBVIOUS
  <2>1. msg[m].st = "inflight" /\ work[x].receipt = msg[m].tries
    BY <1>5, <1>i, <1>u DEF LateHeld
  <2>2. Held(m)
    BY <1>5, <2>1 DEF Held
  <2> QED
    BY <1>5, <2>1, <2>2, MsgStep
<1>6. LateHeld'
  <2> SUFFICES ASSUME NEW x \in Workers, Busy(x), Of[work[x].msg] \notin late'
               PROVE  /\ msg'[work[x].msg].st = "inflight"
                      /\ work[x].receipt = msg'[work[x].msg].tries
    BY <1>u, <1>b DEF LateHeld
  <2>1. work[x].msg \in Msgs
    BY <1>i DEF WorkOK, WorkerOK
  <2> QED
    BY <2>1, <1>5, <1>i, <1>u, MsgStep DEF LateHeld
<1>7. LateOne' /\ LateFinds'
  BY <1>i, <1>u, <1>b DEF LateOne, LateFinds
<1> QED
  BY <1>1, <1>2, <1>3, <1>4, <1>6, <1>7 DEF Inv

LEMMA SameInv ==
  ASSUME Inv, UNCHANGED <<user, msg, work, entity, late>>, UrlInv', WorkTypeOK'
  PROVE  Inv'
<1>1. WorkOK' /\ MsgOK'
  BY DEF Inv, WorkOK, WorkerOK, Busy, MsgOK, Pending
<1>2. LateMsgs' /\ LateHeld'
  BY DEF Inv, LateMsgs, LateHeld, Pending, Busy
<1>3. LateOne' /\ LateFinds'
  BY DEF Inv, LateOne, LateFinds, Busy
<1> QED
  BY <1>1, <1>2, <1>3 DEF Inv

LEMMA NextInv == Inv /\ [Next]_vars => Inv'
<1> SUFFICES ASSUME Inv, [Next]_vars PROVE Inv'
  OBVIOUS
<1>1. ASSUME NEW w \in Workers, WorkerAction(w) PROVE Inv'
  BY <1>1, WorkerUrlInv, WorkerTypes, WorkerWorkOK, WorkerMsgOK, WorkerLate DEF Inv
<1>2. ASSUME NEW m \in Msgs, MsgAction(m) PROVE Inv'
  BY <1>2, MsgInv
<1>3. CASE OtherAction
  <2>1. UNCHANGED <<user, msg, work, entity, late>>
    BY <1>3 DEF OtherAction, Measure, Update, ScaleFails, Age, urlVars, workVars
  <2> QED
    BY <2>1, <1>3, OtherUrlInv, OtherTypes, SameInv
<1>4. CASE UNCHANGED vars
  <2>1. UNCHANGED urlVars /\ UNCHANGED workVars
    BY <1>4 DEF vars
  <2>2. UrlInv' /\ WorkTypeOK'
    BY <2>1, UrlSame DEF Inv, WorkTypeOK, workVars
  <2> QED
    BY <2>1, <2>2, SameInv DEF urlVars, workVars
<1> QED
  BY <1>1, <1>2, <1>3, <1>4, NextCases

LEMMA Invariance == Spec => []Inv
<1> QED
  BY InitInv, NextInv, PTL DEF Spec

(***************************************************************************)
(* The theorems.                                                           *)
(***************************************************************************)

\* TypeOK: every behaviour keeps the types.
THEOREM TypeCorrect == Spec => []TypeOK
  BY Invariance, InvImpliesTypes, PTL

\* FetchedOnce: under fresh claims a page is fetched by one worker at a time.
THEOREM OneFetch == Spec => []FetchedOnce
<1>1. Inv => FetchedOnce
  <2> SUFFICES ASSUME Inv, NEW u \in Urls
               PROVE  Cardinality({w \in Workers :
                        user[w].pc \in {"fetch", "finalize"} /\ Url(w) = u /\ user[w].no > stale}) <= 1
    BY DEF FetchedOnce
  <2> DEFINE S == {w \in Workers :
                     user[w].pc \in {"fetch", "finalize"} /\ Url(w) = u /\ user[w].no > stale}
  <2>1. \A x, y \in S : x = y
    BY DEF Inv, UrlInv, OneHolder, Holding
  <2>2. CASE S = {}
    BY <2>2, FS_EmptySet
  <2>3. ASSUME NEW x \in S PROVE Cardinality(S) <= 1
    <3>1. S = {x}
      BY <2>1, <2>3
    <3>2. Cardinality({x}) = 1
      BY FS_Singleton
    <3> HIDE DEF S
    <3> QED
      BY <3>1, <3>2
  <2> QED
    BY <2>2, <2>3
<1> QED
  BY <1>1, Invariance, PTL

(***************************************************************************)
(* The registry implements ExclusiveWork.                                  *)
(***************************************************************************)

\* Whoever holds a page has held it before.
NobodyBegins == \A x \in Workers : Holding(x)' => Holding(x) /\ Url(x)' = Url(x)

LEMMA Leaves ==
  ASSUME UrlInv', NobodyBegins, Searched \subseteq Searched'
  PROVE  Fetches!Next
<1>1. Fetching' \subseteq Fetching
  BY DEF NobodyBegins, Fetching, Holding
<1>2. Searched' \in SUBSET Urls
  BY DEF Searched
<1> QED
  BY <1>1, <1>2 DEF Fetches!Next, Fetches!Leave

\* One worker goes on to r, which holds no page that it did not hold.
LEMMA OneMoves ==
  ASSUME UrlInv, NEW w \in Workers, NEW r, UNCHANGED stale, user' = [user EXCEPT ![w] = r],
         r.pc \in {"fetch", "finalize"} =>
           user[w].pc = "fetch" /\ r.url = user[w].url /\ r.no = user[w].no
  PROVE  NobodyBegins
<1>1. user'[w] = r /\ \A x \in Workers : x # w => user'[x] = user[x]
  BY DEF UrlInv, UsersOK
<1> QED
  BY <1>1 DEF NobodyBegins, Holding, Url

\* A claim that is won is on a page that nobody holds and nobody has searched.
LEMMA ClaimTakes ==
  ASSUME UrlInv, UrlInv', NEW w \in Workers, ClaimNew(w) \/ Reclaim(w)
  PROVE  Fetches!Next
<1> DEFINE u == Url(w)
           r == [user[w] EXCEPT !.pc = "fetch", !.no = claims + 1, !.out = "none"]
<1>t. UserOK(user[w]) /\ user[w] \in User /\ claims \in Nat /\ stale \in Nat /\ stale <= claims
  BY DEF UrlInv, UsersOK, RegistryOK
<1>u. u \in Urls
  BY <1>t DEF ClaimNew, Reclaim, UserOK, Url
<1>0. /\ user[w].pc \in {"claim", "reclaim"}
      /\ reg[u].st # "searched"
      /\ PutClaim(u) /\ UNCHANGED stale
      /\ user' = [user EXCEPT ![w] = r]
  BY DEF ClaimNew, Reclaim, Turn
<1>r. r.pc = "fetch" /\ r.no = claims + 1 /\ r.url = u
  BY <1>t DEF User, Url
<1>1. user'[w] = r /\ \A x \in Workers : x # w => user'[x] = user[x]
  BY <1>0 DEF UrlInv, UsersOK
<1> HIDE DEF r, u
<1>2. Holding(w)' /\ Url(w)' = u /\ ~Holding(w)
  BY <1>0, <1>1, <1>r, <1>t DEF Holding, Url
<1>3. \A x \in Workers : x # w => (Holding(x)' <=> Holding(x)) /\ Url(x)' = Url(x)
  BY <1>0, <1>1 DEF Holding, Url
<1>4. Fetching' = Fetching \cup {<<w, u>>}
  <2>1. Fetching = {<<x, Url(x)>> : x \in {x \in Workers : Holding(x)}}
    BY DEF Fetching, Holding
  <2>2. Fetching' = {<<x, Url(x)'>> : x \in {x \in Workers : Holding(x)'}}
    BY DEF Fetching, Holding
  <2> QED
    BY <2>1, <2>2, <1>2, <1>3
<1>5. \A x \in Workers : <<x, u>> \notin Fetching
  <2> SUFFICES ASSUME NEW x \in Workers, Holding(x), Url(x) = u PROVE FALSE
    BY DEF Fetching, Holding
  <2>1. x # w /\ Holding(x)' /\ Url(x)' = u
    BY <1>2, <1>3
  <2> QED
    BY <2>1, <1>2 DEF UrlInv, OneHolder
<1>6. Searched' = Searched /\ u \notin Searched
  <2>1. /\ reg'[u].st = "in_progress"
        /\ \A v \in Urls : v # u => reg'[v] = reg[v]
    BY <1>0, <1>u DEF PutClaim, UrlInv, RegistryOK
  <2> QED
    BY <2>1, <1>0 DEF Searched
<1>7. Fetches!Take(w, u)
  BY <1>4, <1>5, <1>6 DEF Fetches!Take
<1> QED
  BY <1>7, <1>u DEF Fetches!Next

\* A claim that is lost or not answered may be on the page, but nobody holds it.
LEMMA ClaimRaisesLeaves ==
  ASSUME UrlInv, UrlInv', NEW w \in Workers, ClaimRaises(w)
  PROVE  Fetches!Next
<1> DEFINE r == [user[w] EXCEPT !.pc = "next", !.url = NoUrl, !.no = 0, !.final = NoUrl,
                                !.out = "none", !.found = @ \cup {}]
<1>1. user[w] \in User
  BY DEF UrlInv, UsersOK
<1>2. r.pc = "next" /\ user' = [user EXCEPT ![w] = r] /\ UNCHANGED stale
  BY <1>1 DEF ClaimRaises, Dealt, User
<1> HIDE DEF r
<1>3. NobodyBegins
  BY <1>2, OneMoves
<1>4. Searched \subseteq Searched'
  <2>1. CASE UNCHANGED reg
    BY <2>1 DEF Searched
  <2>2. CASE reg[Url(w)].st # "searched" /\ PutClaim(Url(w))
    BY <2>2 DEF PutClaim, Searched, UrlInv, RegistryOK
  <2> QED
    BY <2>1, <2>2 DEF ClaimRaises
<1> QED
  BY <1>3, <1>4, Leaves

LEMMA FinalizeLeaves ==
  ASSUME UrlInv, UrlInv', NEW w \in Workers, Finalize(w)
  PROVE  Fetches!Next
<1> DEFINE r == [user[w] EXCEPT !.pc = "record", !.no = user[w].no, !.out = user[w].out]
<1>1. user[w] \in User /\ UserOK(user[w])
  BY DEF UrlInv, UsersOK
<1>2. r.pc = "record" /\ user' = [user EXCEPT ![w] = r] /\ UNCHANGED stale
  BY <1>1 DEF Finalize, Turn, User
<1> HIDE DEF r
<1>3. NobodyBegins
  BY <1>2, OneMoves
<1>4. Searched \subseteq Searched'
  BY DEF Finalize, Searched, UrlInv, RegistryOK
<1> QED
  BY <1>3, <1>4, Leaves

LEMMA RecordLeaves ==
  ASSUME UrlInv, UrlInv', NEW w \in Workers, Record(w) \/ RecordFails(w)
  PROVE  Fetches!Next
<1> DEFINE F == IF user[w].out = "summary" THEN {Url(w)} ELSE {}
           r == [user[w] EXCEPT !.pc = "next", !.url = NoUrl, !.no = 0, !.final = NoUrl,
                                !.out = "none", !.found = @ \cup F]
<1>1. user[w] \in User
  BY DEF UrlInv, UsersOK
<1>2. r.pc = "next" /\ user' = [user EXCEPT ![w] = r] /\ UNCHANGED <<stale, reg>>
  BY <1>1 DEF Record, RecordFails, Dealt, User
<1> HIDE DEF r
<1>3. NobodyBegins
  BY <1>2, OneMoves
<1> QED
  BY <1>2, <1>3, Leaves DEF Searched

LEMMA PageFetches ==
  ASSUME UrlInv, UrlInv', NEW w \in Workers, UrlStep(w) \/ UrlFault(w)
  PROVE  Fetches!Next
<1>1. CASE QuietStep(w)
  <2>1. PICK r : Quiet(user[w], r) /\ user' = [user EXCEPT ![w] = r]
    BY <1>1, QuietSteps
  <2>2. UNCHANGED <<reg, stale>>
    BY <1>1, QuietSteps
  <2>3. NobodyBegins
    BY <2>1, <2>2, OneMoves DEF Quiet, Calm
  <2> QED
    BY <2>2, <2>3, Leaves DEF Searched
<1> QED
  BY <1>1, ClaimTakes, ClaimRaisesLeaves, FinalizeLeaves, RecordLeaves
  DEF UrlStep, UrlFault, QuietStep

LEMMA WorkerFetches ==
  ASSUME Inv, UrlInv', NEW w \in Workers, WorkerAction(w)
  PROVE  Fetches!Next
<1>i. UrlInv
  BY DEF Inv
<1>1. CASE Open(w)
  <2>1. UNCHANGED <<reg, stale>>
    BY <1>1 DEF Open
  <2>2. CASE UNCHANGED user
    BY <2>1, <2>2, Leaves DEF NobodyBegins, Holding, Url, Searched
  <2>3. CASE ~ UNCHANGED user
    <3>1. PICK r : user' = [user EXCEPT ![w] = r] /\ Calm(user[w], r)
      BY <1>1, <2>3, OpenBegins
    <3>2. NobodyBegins
      BY <2>1, <3>1, <1>i, OneMoves DEF Calm
    <3> QED
      BY <2>1, <3>2, Leaves DEF Searched
  <2> QED
    BY <2>2, <2>3
<1>2. CASE Enrich(w) \/ EnrichFaulty(w)
  BY <1>2, <1>i, PageFetches DEF Enrich, EnrichFaulty
<1>3. CASE Retry(w) \/ Kill(w) \/ Crash(w) \/ Save(w)
  <2>1. user' = [user EXCEPT ![w] = Idle] /\ UNCHANGED <<reg, stale>>
    BY <1>3 DEF Retry, Kill, Crash, Save, Drop
  <2>2. NobodyBegins
    <3>1. Idle.pc = "idle"
      BY DEF Idle
    <3> QED
      BY <2>1, <3>1, <1>i, OneMoves
  <2> QED
    BY <2>1, <2>2, Leaves DEF Searched
<1>4. CASE \/ \E m \in Msgs : Receive(w, m)
           \/ Enriched(w) \/ Delete(w) \/ Exit(w) \/ Start(w) \/ Stop(w)
  <2>1. UNCHANGED <<user, reg, stale>>
    BY <1>4 DEF Receive, Enriched, Delete, Exit, Start, Stop, urlVars
  <2> QED
    BY <2>1, Leaves DEF NobodyBegins, Holding, Url, Searched
<1> QED
  BY <1>1, <1>2, <1>3, <1>4 DEF WorkerAction

\* FetchesExclude: a page is fetched under one fresh claim at a time, until it
\* is searched and never after.
THEOREM FetchesAreExclusive == Spec => FetchesExclude
<1>1. Init => Fetches!Init
  BY DEF Init, UrlInit, Idle, Fetches!Init, Fetching, Searched
<1>2. Inv /\ [Next]_vars => [Fetches!Next]_<<Fetching, Searched>>
  <2> SUFFICES ASSUME Inv, [Next]_vars PROVE Fetches!Next
    OBVIOUS
  <2>i. UrlInv /\ UrlInv'
    BY NextInv DEF Inv
  <2>1. ASSUME NEW w \in Workers, WorkerAction(w) PROVE Fetches!Next
    BY <2>1, <2>i, WorkerFetches
  <2>2. CASE Age
    <3>1. /\ UNCHANGED <<user, reg>> /\ stale' = claims
          /\ claims \in Nat /\ \A x \in Workers : user[x].no \in Nat /\ user[x].no <= claims
      BY <2>2, <2>i DEF Age, UrlInv, RegistryOK, UsersOK, User
    <3>2. NobodyBegins
      BY <3>1 DEF NobodyBegins, Holding
    <3> QED
      BY <2>i, <3>1, <3>2, Leaves DEF Searched
  <2>3. CASE \/ \E m \in Msgs : MsgAction(m)
             \/ Measure \/ Update \/ ScaleFails
             \/ UNCHANGED vars
    <3>1. UNCHANGED <<user, reg, stale>>
      BY <2>3 DEF MsgAction, Choose, Send, Lapse, LapseHeld, Redrive, Measure, Update,
                  ScaleFails, urlVars, vars
    <3> QED
      BY <2>i, <3>1, Leaves DEF NobodyBegins, Holding, Url, Searched
  <2> QED
    BY <2>1, <2>2, <2>3, NextCases DEF OtherAction
<1> QED
  BY <1>1, <1>2, Invariance, PTL DEF Spec, FetchesExclude, Fetches!Spec

\* Landed: a relevant searched page has its verdict, or a worker at hand, or its
\* summary was lost on the way to the cache.
THEOREM VerdictLands == Spec => []Landed
<1>1. Inv => Landed
  BY DEF Inv, UrlInv
<1> QED
  BY <1>1, Invariance, PTL

\* FindsKept: while the deliveries of an entity keep their visibility, no write
\* of its record takes a find away.
THEOREM NoFindLost == Spec => FindsKept
<1> DEFINE Kept == \A e \in Entities \ late : entity[e].finds \subseteq entity'[e].finds
<1>1. Inv /\ [Next]_vars => Kept
  <2> SUFFICES ASSUME Inv, [Next]_vars, NEW e \in Entities \ late
               PROVE  entity[e].finds \subseteq entity'[e].finds
    OBVIOUS
  <2>1. ASSUME NEW w \in Workers, WorkerAction(w)
        PROVE  entity[e].finds \subseteq entity'[e].finds
    <3>1. CASE Save(w) /\ e = user[w].ent
      BY <3>1, SaveFacts DEF Inv, LateFinds, Save
    <3> QED
      BY <2>1, <3>1, OthersStay
  <2>2. ASSUME NEW m \in Msgs, MsgAction(m)
        PROVE  entity[e].finds \subseteq entity'[e].finds
    BY <2>2, MsgStep
  <2>3. CASE OtherAction \/ UNCHANGED vars
    BY <2>3 DEF OtherAction, Measure, Update, ScaleFails, workVars, vars
  <2> QED
    BY <2>1, <2>2, <2>3, NextCases
<1>2. Inv /\ [Next]_vars => [Kept]_vars
  BY <1>1
<1> QED
  BY <1>2, Invariance, PTL DEF Spec, FindsKept

\* Delivered: the queue implements WorkDelivery.
LEMMA InQueueFacts ==
  ASSUME WorkTypeOK, NEW m \in Msgs
  PROVE  /\ InQueue(m) = "unsent" <=> msg[m].st \in {"unsent", "chosen"}
         /\ InQueue(m) = "queued" <=> msg[m].st \in {"visible", "inflight"}
         /\ InQueue(m) = "done" <=> msg[m].st = "deleted"
         /\ InQueue(m) = "dead" <=> msg[m].st = "dead"
<1>1. msg[m].st \in {"unsent", "chosen", "visible", "inflight", "deleted", "dead"}
  BY DEF WorkTypeOK, Message
<1> QED
  BY <1>1 DEF InQueue

THEOREM QueueDelivers == Spec => Delivered
<1> DEFINE q == [m \in Msgs |-> InQueue(m)]
           t == [m \in Msgs |-> msg[m].tries]
           d == {e \in Entities : entity[e].searched}
<1>1. Init => Delivery!Init
  <2> SUFFICES ASSUME Init PROVE Delivery!Init
    OBVIOUS
  <2>1. \A m \in Msgs : InQueue(m) = "unsent"
    BY InitInv, InQueueFacts DEF Inv, Init
  <2> QED
    BY <2>1 DEF Init, Delivery!Init
<1>2. Inv /\ [Next]_vars => [Delivery!Next]_<<q, t, d>>
  <2> SUFFICES ASSUME Inv, [Next]_vars PROVE Delivery!Next \/ UNCHANGED <<q, t, d>>
    OBVIOUS
  <2>i. WorkTypeOK /\ WorkTypeOK'
    BY NextInv DEF Inv
  <2>t. \A n \in Msgs : msg[n].tries \in Nat
    BY <2>i, SearchAssumption DEF WorkTypeOK, Message
  \* What one message does to q and t.
  <2>m. ASSUME NEW m \in Msgs, \A n \in Msgs : n # m => msg'[n] = msg[n]
        PROVE  /\ q' = [q EXCEPT ![m] = InQueue(m)']
               /\ msg'[m].tries = msg[m].tries => t' = t
               /\ InQueue(m)' = InQueue(m) => q' = q
    <3>1. \A n \in Msgs : n # m => InQueue(n)' = InQueue(n)
      BY <2>m DEF InQueue
    <3> HIDE DEF InQueue
    <3> QED
      BY <2>m, <3>1
  <2>1. ASSUME NEW w \in Workers, WorkerAction(w)
        PROVE  Delivery!Next \/ UNCHANGED <<q, t, d>>
    <3>1. ASSUME NEW m \in Msgs, Receive(w, m) PROVE Delivery!Deliver(m)
      <4>1. InQueue(m) = "queued" /\ InQueue(m)' = "queued" /\ msg[m].tries < MaxReceive
        BY <3>1, <2>i, InQueueFacts, ReceiveFacts DEF Receive, Receivable, InQueue
      <4>2. q' = q
        BY <3>1, <4>1, <2>m, ReceiveFacts
      <4>3. t' = [t EXCEPT ![m] = @ + 1]
        BY <3>1, ReceiveFacts
      <4>4. d' = d
        BY <3>1 DEF Receive
      <4> QED
        BY <4>1, <4>2, <4>3, <4>4 DEF Delivery!Deliver
    <3>2. CASE Save(w)
      <4>1. PICK m \in Msgs : m = work[w].msg /\ user[w].ent = Of[m]
        BY <3>2, SaveFacts
      <4>2. d' = d \cup {Of[m]}
        BY <3>2, <4>1, SaveFacts
      <4>3. msg[m].tries > 0
        BY <3>2, <4>1 DEF Save, Busy, Inv, WorkOK, WorkerOK
      <4>4. msg' = msg
        BY <3>2 DEF Save
      <4>5. q' = q /\ t' = t
        BY <4>4 DEF InQueue
      <4>6. Delivery!Search(m)
        BY <4>1, <4>2, <4>3, <4>5 DEF Delivery!Search
      <4> QED
        BY <4>1, <4>6 DEF Delivery!Next
    <3>3. CASE Delete(w)
      <4>1. PICK m \in Msgs :
              /\ m = work[w].msg /\ msg[m].tries > 0
              /\ entity[Of[m]].searched /\ ~Pending(m)
        BY <3>3 DEF Delete, Busy, Inv, WorkOK, WorkerOK, MsgOK
      <4>2. UNCHANGED entity
        BY <3>3 DEF Delete
      <4>3. Of[m] \in d /\ d' = d
        BY <4>1, <4>2, SearchAssumption
      <4>4. CASE UNCHANGED msg
        BY <4>3, <4>4 DEF InQueue
      <4>5. CASE msg' = [msg EXCEPT ![m].st = IF @ = "dead" THEN @ ELSE "deleted"]
        <5>0. PICK s \in {"deleted", "dead"} :
                /\ msg' = [msg EXCEPT ![m].st = s]
                /\ s = "dead" <=> msg[m].st = "dead"
          BY <4>5
        <5>1. /\ msg'[m].st = s /\ msg'[m].tries = msg[m].tries
              /\ \A n \in Msgs : n # m => msg'[n] = msg[n]
          BY <5>0, <4>1, <2>i, MsgFacts
        <5>2. t' = t
          BY <5>1, <4>1, <2>m
        <5>3. CASE msg[m].st \in {"dead", "deleted"}
          <6>1. InQueue(m)' = InQueue(m)
            BY <5>0, <5>1, <5>3 DEF InQueue
          <6> QED
            BY <6>1, <5>1, <5>2, <4>1, <4>3, <2>m
        <5>4. CASE msg[m].st \in {"visible", "inflight"}
          <6>1. InQueue(m) = "queued" /\ InQueue(m)' = "done"
            BY <5>0, <5>1, <5>4 DEF InQueue
          <6>2. q' = [q EXCEPT ![m] = "done"] /\ q[m] = "queued"
            BY <6>1, <5>1, <4>1, <2>m
          <6>3. Delivery!Settle(m)
            BY <6>2, <5>2, <4>3 DEF Delivery!Settle
          <6> QED
            BY <6>3, <4>1 DEF Delivery!Next
        <5> QED
          BY <5>3, <5>4, <4>1, <2>i DEF WorkTypeOK, Message, Pending
      <4> QED
        BY <3>3, <4>1, <4>4, <4>5 DEF Delete
    <3>4. CASE UNCHANGED <<msg, entity>>
      BY <3>4 DEF InQueue
    <3>5. (\E m \in Msgs : Receive(w, m)) => Delivery!Next
      BY <3>1 DEF Delivery!Next
    <3> HIDE DEF q, t, d
    <3> QED
      BY <2>1, <3>2, <3>3, <3>4, <3>5
      DEF WorkerAction, Open, Enrich, EnrichFaulty, Enriched, Retry, Exit, Start, Stop, Kill,
          Crash, workVars
  <2>2. ASSUME NEW m \in Msgs, MsgAction(m)
        PROVE  Delivery!Next \/ UNCHANGED <<q, t, d>>
    <3>1. /\ \A n \in Msgs : n # m => msg'[n] = msg[n]
          /\ msg'[m].tries = msg[m].tries /\ UNCHANGED entity
      BY <2>2, MsgStep
    <3>2. t' = t /\ d' = d
      BY <3>1, <2>m
    <3>3. CASE Choose(m) \/ Lapse(m) \/ LapseHeld(m)
      <4>1. \/ msg[m].st = "unsent" /\ msg' = [msg EXCEPT ![m].st = "chosen"]
            \/ msg[m].st = "inflight" /\ msg' = [msg EXCEPT ![m].st = "visible"]
        BY <3>3 DEF Choose, Lapse, LapseHeld
      <4>2. \/ msg[m].st = "unsent" /\ msg'[m].st = "chosen"
            \/ msg[m].st = "inflight" /\ msg'[m].st = "visible"
        BY <4>1, <2>i, MsgFacts
      <4>3. InQueue(m)' = InQueue(m)
        BY <4>2 DEF InQueue
      <4> QED
        BY <4>3, <3>1, <3>2, <2>m
    <3>4. CASE Send(m)
      <4>1. msg[m].st = "chosen" /\ msg' = [msg EXCEPT ![m].st = "visible"]
        BY <3>4 DEF Send
      <4>2. msg'[m].st = "visible"
        BY <4>1, <2>i, MsgFacts
      <4>3. InQueue(m) = "unsent" /\ InQueue(m)' = "queued"
        BY <4>1, <4>2 DEF InQueue
      <4>4. q' = [q EXCEPT ![m] = "queued"] /\ q[m] = "unsent"
        BY <4>3, <3>1, <2>m
      <4>5. Delivery!Send(m)
        BY <4>4, <3>2 DEF Delivery!Send
      <4> QED
        BY <4>5 DEF Delivery!Next
    <3>5. CASE Redrive(m)
      <4>1. /\ msg[m].st = "visible" /\ msg[m].tries = MaxReceive
            /\ msg' = [msg EXCEPT ![m].st = "dead"]
        BY <3>5 DEF Redrive
      <4>2. msg'[m].st = "dead"
        BY <4>1, <2>i, MsgFacts
      <4>3. InQueue(m) = "queued" /\ InQueue(m)' = "dead"
        BY <4>1, <4>2 DEF InQueue
      <4>4. q' = [q EXCEPT ![m] = "dead"] /\ q[m] = "queued" /\ t[m] = MaxReceive
        BY <4>1, <4>3, <3>1, <2>m
      <4>5. Delivery!PutAside(m)
        BY <4>4, <3>2 DEF Delivery!PutAside
      <4> QED
        BY <4>5 DEF Delivery!Next
    <3> QED
      BY <2>2, <3>3, <3>4, <3>5 DEF MsgAction
  <2>3. CASE OtherAction \/ UNCHANGED vars
    <3>1. UNCHANGED <<msg, entity>>
      BY <2>3 DEF OtherAction, Measure, Update, ScaleFails, workVars, vars
    <3> QED
      BY <3>1 DEF InQueue
  <2> QED
    BY <2>1, <2>2, <2>3, NextCases
<1> QED
  BY <1>1, <1>2, Invariance, PTL DEF Spec, Delivered, Delivery!Spec

===============================================================================
