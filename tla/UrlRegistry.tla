----------------------------- MODULE UrlRegistry -----------------------------
(***************************************************************************)
(* The URL registry url#{...}, the cache of URL verdicts, and the way one   *)
(* discovered page is processed: look up the verdict, have Grok verify the  *)
(* result, decide, claim or reclaim, fetch, summarise, finalize the         *)
(* registry record, cache the verdict.  Workers process entities that may   *)
(* share pages; one step per access to the table or the cache.              *)
(*                                                                         *)
(* This module has the steps of one page, SearchWork the work around them.  *)
(* The 90 days of retention are longer than any run: nothing expires.  The  *)
(* failure counter of a page that is gone is left out: the claim resets it  *)
(* and no fetch writes it while its own claim stands.                       *)
(***************************************************************************)
EXTENDS Naturals, FiniteSets

CONSTANTS
  Workers,    \* the worker tasks
  Entities,   \* the entity records
  Urls,       \* the pages
  NoUrl, NoEntity,
  Results,    \* what the search returns for an entity
  Finals,     \* where a fetch of each page may end, after redirects
  MaxAged     \* bound: claims that may go stale

ASSUME UrlAssumption ==
  /\ NoUrl \notin Urls
  /\ NoEntity \notin Entities
  /\ Results \in [Entities -> SUBSET Urls]
  /\ Finals \in [Urls -> SUBSET Urls]
  /\ MaxAged \in Nat

VARIABLES
  reg,      \* the registry
  verdict,  \* the cache of verdicts, and for which entity each was given
  user,     \* what each worker is doing with a page
  claims,   \* how many claims there have been: the time of the last one
  stale,    \* the claims up to this one are older than CLAIM_STALE_SECONDS
  lost      \* history: pages whose summary did not reach the cache

urlVars == <<reg, verdict, user, claims, stale, lost>>

Page == [st : {"none", "in_progress", "searched"}, no : Nat, relevant : BOOLEAN]
Verdict == [is : {"none", "REJECT", "summary"}, of : Entities \cup {NoEntity}]
User == [pc : {"idle", "next", "decide", "claim", "reclaim", "fetch", "finalize", "record"},
         ent : Entities \cup {NoEntity}, url : Urls \cup {NoUrl}, left : SUBSET Urls,
         found : SUBSET Urls, no : Nat, final : Urls \cup {NoUrl}, out : {"none", "REJECT", "summary"}]

Idle == [pc |-> "idle", ent |-> NoEntity, url |-> NoUrl, left |-> {},
         found |-> {}, no |-> 0, final |-> NoUrl, out |-> "none"]

UrlTypeOK ==
  /\ reg \in [Urls -> Page]
  /\ verdict \in [Urls -> Verdict]
  /\ user \in [Workers -> User]
  /\ claims \in Nat
  /\ stale \in 0..claims
  /\ lost \subseteq Urls

UrlInit ==
  /\ reg = [u \in Urls |-> [st |-> "none", no |-> 0, relevant |-> FALSE]]
  /\ verdict = [u \in Urls |-> [is |-> "none", of |-> NoEntity]]
  /\ user = [w \in Workers |-> Idle]
  /\ claims = 0
  /\ stale = 0
  /\ lost = {}

Url(w) == user[w].url

\* The entity e, read with its finds, is to be enriched.
Begin(w, e, finds) ==
  user' = [user EXCEPT ![w] =
    [Idle EXCEPT !.pc = "next", !.ent = e, !.left = Results[e] \ finds, !.found = finds]]

\* The page of w is dealt with; it was a find or not.
Dealt(w, finds) ==
  user' = [user EXCEPT ![w] =
    [user[w] EXCEPT !.pc = "next", !.url = NoUrl, !.no = 0, !.final = NoUrl,
              !.out = "none", !.found = @ \cup finds]]

\* The worker goes on to c with the page.
Turn(w, c, no, out) ==
  user' = [user EXCEPT ![w] = [user[w] EXCEPT !.pc = c, !.no = no, !.out = out]]

-----------------------------------------------------------------------------
(* process_positive_url: the cached verdict, then Grok's.                   *)

TakeSummary(w, u) ==
  /\ user[w].pc = "next"
  /\ u \in user[w].left
  /\ verdict[u].is = "summary"
  /\ user' = [user EXCEPT ![w] = [user[w] EXCEPT !.left = @ \ {u}, !.found = @ \cup {u}]]
  /\ UNCHANGED <<reg, verdict, claims, stale, lost>>

TakeReject(w, u) ==
  /\ user[w].pc = "next"
  /\ u \in user[w].left
  /\ verdict[u].is = "REJECT"
  /\ user' = [user EXCEPT ![w] = [user[w] EXCEPT !.left = @ \ {u}]]
  /\ UNCHANGED <<reg, verdict, claims, stale, lost>>

\* _verify_result accepts or rejects the page for this entity.
Verify(w, u) ==
  /\ user[w].pc = "next"
  /\ u \in user[w].left
  /\ verdict[u].is = "none"
  /\ \E accepts \in BOOLEAN :
       user' = [user EXCEPT ![w] =
         [user[w] EXCEPT !.left = @ \ {u}, !.url = u,
                   !.pc = IF accepts THEN "decide" ELSE "record",
                   !.out = IF accepts THEN "none" ELSE "REJECT"]]
  /\ UNCHANGED <<reg, verdict, claims, stale, lost>>

-----------------------------------------------------------------------------
(* decide.                                                                  *)

Fresh(u) == reg[u].st = "in_progress" /\ reg[u].no > stale
Live(u) == reg[u].st = "searched" \/ Fresh(u)

\* SKIP_KNOWN or DEFER_INPROGRESS.
SkipOrDefer(w) ==
  /\ user[w].pc = "decide"
  /\ Live(Url(w))
  /\ Dealt(w, {})
  /\ UNCHANGED <<reg, verdict, claims, stale, lost>>

\* DEFER_DOMAIN: a page of the domain, of this phase or of another that uses
\* the registry, was claimed less than POLITENESS_SECONDS ago.
DeferDomain(w) ==
  /\ user[w].pc = "decide"
  /\ ~Live(Url(w))
  /\ Dealt(w, {})
  /\ UNCHANGED <<reg, verdict, claims, stale, lost>>

Go(w) ==
  /\ user[w].pc = "decide"
  /\ ~Live(Url(w))
  /\ Turn(w, "claim", 0, "none")
  /\ UNCHANGED <<reg, verdict, claims, stale, lost>>

-----------------------------------------------------------------------------
(* claim.                                                                   *)

\* The record says that the page is being fetched since now.
PutClaim(u) ==
  /\ claims' = claims + 1
  /\ reg' = [reg EXCEPT ![u] = [st |-> "in_progress", no |-> claims + 1, relevant |-> FALSE]]

\* attribute_not_exists(cache_key) holds.
ClaimNew(w) ==
  /\ user[w].pc = "claim"
  /\ reg[Url(w)].st = "none"
  /\ PutClaim(Url(w))
  /\ Turn(w, "fetch", claims + 1, "none")
  /\ UNCHANGED <<verdict, stale, lost>>

\* It does not, and the record read then is that of a stale claim.
Observe(w) ==
  /\ user[w].pc = "claim"
  /\ reg[Url(w)].st = "in_progress"
  /\ ~Fresh(Url(w))
  /\ Turn(w, "reclaim", reg[Url(w)].no, "none")
  /\ UNCHANGED <<reg, verdict, claims, stale, lost>>

ClaimLost(w) ==
  /\ user[w].pc = "claim"
  /\ Live(Url(w))
  /\ Dealt(w, {})
  /\ UNCHANGED <<reg, verdict, claims, stale, lost>>

\* Mutant of Reclaim: without the optimistic lock.
ReclaimAnyway(w) ==
  /\ user[w].pc = "reclaim"
  /\ PutClaim(Url(w))
  /\ Turn(w, "fetch", claims + 1, "none")
  /\ UNCHANGED <<verdict, stale, lost>>

\* The write is conditional on the bytes observed.
Reclaim(w) ==
  /\ user[w].pc = "reclaim"
  /\ reg[Url(w)].st = "in_progress"
  /\ reg[Url(w)].no = user[w].no
  /\ PutClaim(Url(w))
  /\ Turn(w, "fetch", claims + 1, "none")
  /\ UNCHANGED <<verdict, stale, lost>>

ReclaimLost(w) ==
  /\ user[w].pc = "reclaim"
  /\ reg[Url(w)].st = "searched" \/ reg[Url(w)].no # user[w].no
  /\ Dealt(w, {})
  /\ UNCHANGED <<reg, verdict, claims, stale, lost>>

\* The first or the second put raises, be it after the item was written:
\* "claim lost".
ClaimRaises(w) ==
  /\ user[w].pc \in {"claim", "reclaim"}
  /\ \/ user[w].pc = "claim" /\ reg[Url(w)].st = "none" /\ PutClaim(Url(w))
     \/ /\ user[w].pc = "reclaim"
        /\ reg[Url(w)].st = "in_progress" /\ reg[Url(w)].no = user[w].no
        /\ PutClaim(Url(w))
     \/ UNCHANGED <<reg, claims>>
  /\ Dealt(w, {})
  /\ UNCHANGED <<verdict, stale, lost>>

\* CLAIM_STALE_SECONDS pass.
Age ==
  /\ stale < claims
  /\ claims <= MaxAged
  /\ stale' = claims
  /\ UNCHANGED <<reg, verdict, user, claims, lost>>

-----------------------------------------------------------------------------
(* fetch and what follows.                                                  *)

\* A page or a snapshot of it, from which Grok makes a summary or nothing.
FetchContent(w) ==
  /\ user[w].pc = "fetch"
  /\ \E out \in {"REJECT", "summary"}, f \in Finals[Url(w)] :
       user' = [user EXCEPT ![w] = [user[w] EXCEPT !.pc = "finalize", !.final = f, !.out = out]]
  /\ UNCHANGED <<reg, verdict, claims, stale, lost>>

\* Gone, walled, rate-limited or unreachable, and no snapshot: the claim is
\* left as it is and the verdict will be REJECT.
FetchNothing(w) ==
  /\ user[w].pc = "fetch"
  /\ Turn(w, "record", user[w].no, "REJECT")
  /\ UNCHANGED <<reg, verdict, claims, stale, lost>>

\* An exception: DEFERRED.
FetchRaises(w) ==
  /\ user[w].pc = "fetch"
  /\ Dealt(w, {})
  /\ UNCHANGED <<reg, verdict, claims, stale, lost>>

\* finalize_searched writes the record of the page's final URL.
Finalize(w) ==
  /\ user[w].pc = "finalize"
  /\ reg' = [reg EXCEPT ![user[w].final] =
       [st |-> "searched", no |-> 0, relevant |-> user[w].out = "summary"]]
  /\ Turn(w, "record", user[w].no, user[w].out)
  /\ UNCHANGED <<verdict, claims, stale, lost>>

\* Its write raises: a warning.
FinalizeRaises(w) ==
  /\ user[w].pc = "finalize"
  /\ Turn(w, "record", user[w].no, user[w].out)
  /\ UNCHANGED <<reg, verdict, claims, stale, lost>>

\* Mutant of Record: only rejections are cached.
RecordReject(w) ==
  /\ user[w].pc = "record"
  /\ verdict' = IF user[w].out = "REJECT"
                  THEN [verdict EXCEPT ![Url(w)] = [is |-> "REJECT", of |-> user[w].ent]]
                  ELSE verdict
  /\ Dealt(w, IF user[w].out = "summary" THEN {Url(w)} ELSE {})
  /\ UNCHANGED <<reg, claims, stale, lost>>

\* _cache_url_verdict; with a summary the page is a find.
Record(w) ==
  /\ user[w].pc = "record"
  /\ verdict' = [verdict EXCEPT ![Url(w)] = [is |-> user[w].out, of |-> user[w].ent]]
  /\ Dealt(w, IF user[w].out = "summary" THEN {Url(w)} ELSE {})
  /\ UNCHANGED <<reg, claims, stale, lost>>

\* The summary that w was about to cache is not cached.
Forget(w) ==
  lost' = IF user[w].pc = "record" /\ user[w].out = "summary"
            THEN lost \cup {user[w].final} ELSE lost

\* The write of the verdict raises, which nobody is told: the page is a find of
\* this entity all the same.
RecordFails(w) ==
  /\ user[w].pc = "record"
  /\ Forget(w)
  /\ Dealt(w, IF user[w].out = "summary" THEN {Url(w)} ELSE {})
  /\ UNCHANGED <<reg, verdict, claims, stale>>

\* The worker dies, or the entity is given up.
Drop(w) ==
  /\ user' = [user EXCEPT ![w] = Idle]
  /\ Forget(w)
  /\ UNCHANGED <<reg, verdict, claims, stale>>

UrlStep(w) ==
  \/ \E u \in Urls : TakeSummary(w, u) \/ TakeReject(w, u) \/ Verify(w, u)
  \/ SkipOrDefer(w) \/ DeferDomain(w) \/ Go(w)
  \/ ClaimNew(w) \/ Observe(w) \/ ClaimLost(w) \/ Reclaim(w) \/ ReclaimLost(w)
  \/ FetchContent(w) \/ FetchNothing(w) \/ FetchRaises(w)
  \/ Finalize(w) \/ Record(w)

UrlFault(w) == ClaimRaises(w) \/ FinalizeRaises(w) \/ RecordFails(w)

-----------------------------------------------------------------------------
(* Properties.                                                              *)

\* claim: "closes the concurrency race".  A page is fetched by one worker at a
\* time, unless the claim of another has gone stale.
FetchedOnce ==
  \A u \in Urls :
    Cardinality({w \in Workers :
      user[w].pc \in {"fetch", "finalize"} /\ Url(w) = u /\ user[w].no > stale}) <= 1

\* The fetches under claims that are not stale, and the pages that need none.
Fetching ==
  {<<w, Url(w)>> : w \in {w \in Workers :
     user[w].pc \in {"fetch", "finalize"} /\ user[w].no > stale}}

Searched == {u \in Urls : reg[u].st = "searched"}

Fetches == INSTANCE ExclusiveWork WITH
  Items <- Urls,
  working <- Fetching,
  finished <- Searched

\* A page is fetched under one claim at a time, and a page that is searched is
\* not fetched again, also if another page has led to it.
FetchesExclude == Fetches!Spec

\* finalize_searched says "searched always implies data landed", which is not
\* so if the worker is lost, or its write of the verdict, before the summary is
\* cached.  Nothing else parts the two, neither redirects nor other workers at
\* the page: it has a verdict under a URL that leads to it, or a worker that is
\* about to cache one.
Landed ==
  \A t \in Urls \ lost :
    reg[t].st = "searched" /\ reg[t].relevant =>
      \/ \E u \in Urls : t \in Finals[u] /\ verdict[u].is # "none"
      \/ \E w \in Workers : user[w].pc = "record" /\ user[w].out = "summary" /\ user[w].final = t
===============================================================================
