---------------------------- MODULE AccessProofs ----------------------------
(***************************************************************************)
(* What holds of the ways into the application and of what a portal is set *)
(* up with, however many people, requests, tabs, pulls and employees there *)
(* are: of the rate limit (RateLimit), of the tokens of a portal           *)
(* (PortalTokens), of the sessions of a browser (Sessions), of the         *)
(* accounts (UserDirectory), of the plan of a portal and the requests for  *)
(* it (PlansAndLeads), of the page «Настройка под портал» with the         *)
(* overview that reads what it saves (PortalSetup), and of the menu, links *)
(* and guards of the pages (Navigation).                                   *)
(*                                                                         *)
(* Each part has its inductive invariant (RateInv, TokenInv, SessionsInv,  *)
(* DirectoryInv, PlansInv, SetupInv, WaysInv), a lemma per action that can *)
(* disturb it, and the theorem that its specification has the property a   *)
(* run checks.  WaysInv counts the redirects that are still to come on the *)
(* way from a path; what the guards and the menu say of each page is in    *)
(* lemmas of their own (GuardsAre, MenuOpens, PageLinksLead).              *)
(***************************************************************************)
EXTENDS PortalTokens, Sessions, UserDirectory, RateLimit, PlansAndLeads, PortalSetup,
        Navigation, FiniteSetTheorems, SequenceTheorems, TLAPS

RateSpec == RateInit /\ [][RateNext]_rateVars

Full == Capacity * PerSecond

Grants == [at : Nat, cost : Nat, total : Nat]

RateTypeOK ==
  /\ tick \in Nat
  /\ bucket \in [tokens : Nat, updatedAt : Nat]
  /\ bucket.tokens <= Full /\ bucket.updatedAt <= tick
  /\ granted \in Seq(Grants)
  /\ waiting \in [cost : Nat, from : Nat]
  /\ told \in BOOLEAN

(* From any request let through on, what was let through is missing from a *)
(* full bucket, except for what has come back since.                       *)
BucketPays ==
  \A i \in DOMAIN granted :
    /\ granted[i].at <= bucket.updatedAt
    /\ PerSecond * (Total - granted[i].total + granted[i].cost) + bucket.tokens
         <= Full + bucket.updatedAt - granted[i].at

(* When the wait that was told ends, the bucket has what is needed.        *)
WaitSuffices ==
  waiting.cost # 0 =>
    /\ waiting.cost \in Costs
    /\ bucket.updatedAt <= waiting.from
    /\ waiting.cost * PerSecond <= bucket.tokens + waiting.from - bucket.updatedAt

RateInv == RateTypeOK /\ BucketPays /\ WaitSuffices /\ LimitAsPromised

-----------------------------------------------------------------------------
(* Tokens.                                                                 *)

TokenSpec == TokenInit /\ [][TokenNext]_tokenVars

Pair == [by : People, fresh : BOOLEAN, usable : BOOLEAN, alive : BOOLEAN]

Ref == Nat \cup {None}

Row == [exists : BOOLEAN, era : Nat, active : BOOLEAN, auth : Ref, refresh : Ref]

PCs ==
  {"none", "look", "upsert", "count", "seed", "call", "reread", "oauth", "store", "reload"}

Req ==
  [op : {"none", "open", "page"}, pc : PCs, user : People \cup {None}, pair : Ref, keep : BOOLEAN,
   saw : Ref, era : Nat, auth : Ref, refresh : Ref, retried : BOOLEAN, calls : Int]

IsPair(p) == p = None \/ p \in DOMAIN pairs

TokenTypeOK ==
  /\ pairs \in Seq(Pair) /\ portal \in Row /\ reqs \in [Requests -> Req]
  /\ seeds \in Nat /\ stocked \in BOOLEAN /\ overtaken \in SUBSET Requests /\ revived \in BOOLEAN
  /\ IsPair(portal.auth)
  /\ \A r \in Requests :
       IsPair(reqs[r].pair) /\ IsPair(reqs[r].saw) /\ IsPair(reqs[r].auth) /\ IsPair(reqs[r].refresh)

Dead(p) == p # None => ~pairs[p].alive

RowSound ==
  /\ portal.refresh = portal.auth
  /\ ~portal.exists => portal.auth = None /\ ~portal.active
  /\ ~portal.active => Dead(portal.auth)
  /\ \A r \in Requests : reqs[r].era <= portal.era

(* The pair only this request knows: the opener's, or the one a refresh    *)
(* has brought.                                                            *)
OwnOf(q) ==
  IF q.pc \in {"look", "upsert"} THEN q.pair ELSE IF q.pc = "store" THEN q.auth ELSE None

Own(r) == OwnOf(reqs[r])

OwnIsOwn ==
  \A r \in Requests : Own(r) # None =>
    /\ pairs[Own(r)].usable /\ portal.auth # Own(r)
    /\ \A q \in Requests : reqs[q].refresh # Own(r) /\ (Own(q) = Own(r) => q = r)

OpenersSound ==
  \A r \in Requests :
    /\ reqs[r].pc \in {"look", "upsert"} =>
         reqs[r].pair # None /\ pairs[reqs[r].pair].by = reqs[r].user /\ reqs[r].refresh = None
    /\ reqs[r].pc = "upsert" =>
         IF reqs[r].keep THEN reqs[r].saw # None
         ELSE reqs[r].user \notin Admins => Dead(reqs[r].saw)

RefreshersSound ==
  \A r \in Requests :
    /\ reqs[r].pc \in {"oauth", "store"} => reqs[r].refresh # None /\ reqs[r].refresh = reqs[r].saw
    /\ reqs[r].pc = "store" =>
         /\ reqs[r].auth # None /\ pairs[reqs[r].auth].by = pairs[reqs[r].saw].by
         /\ ~portal.active => Dead(reqs[r].auth)
    /\ ~Here(r) \/ ~portal.active => Dead(reqs[r].refresh)

(* Who is about to add the defaults to a portal that has categories was    *)
(* overtaken by them.                                                      *)
SeedersSound ==
  \A r \in Requests : reqs[r].pc = "seed" /\ Here(r) /\ stocked => r \in overtaken

TokenInv ==
  /\ TokenTypeOK /\ RowSound /\ OwnIsOwn /\ OpenersSound /\ RefreshersSound /\ SeedersSound
  /\ RefreshTokenWorks /\ ActiveHasToken

-----------------------------------------------------------------------------
(* Sessions.                                                               *)

SessionsSpec == SessionsInit /\ [][SessionsNext]_sessionVars

Token == [user : Visitors, n : Nat, until : Nat]

Held == Token \cup {NoToken}

Tab == [pc : {"closed", "redirected", "loaded", "ready"}, url : Held, newest : Nat]

Jar == [session : [token : Held, until : Nat], csrf : Nat, operator : Nat]

SessionsTypeOK ==
  /\ takesCookies \in BOOLEAN /\ hour \in Nat /\ openings \in Nat
  /\ jar \in Jar
  /\ store \in Held
  /\ tabs \in [Tabs -> Tab]

(* The tokens the browser holds.                                           *)
Around == ({store, jar.session.token} \cup {tabs[t].url : t \in Tabs}) \ {NoToken}

TokensSound ==
  /\ \A k \in Around : k.n <= openings /\ k.until <= hour + Life
  /\ \A t \in Tabs : tabs[t].newest <= openings

(* The cookie is of the last opening and lives as long as its token, which *)
(* outlives every other; or no token is good any more.                     *)
CookieIsLast ==
  IF takesCookies
    THEN \/ /\ jar.session.token # NoToken /\ jar.session.token.n = openings
            /\ \A k \in Around : k.until <= jar.session.until
            /\ jar.session.until = jar.session.token.until
         \/ \A k \in Around : k.until <= hour
    ELSE jar.session = NoCookie

(* The scripts of a page that is ready have a token to send.               *)
ReadyHasToken ==
  /\ \A t \in Tabs : /\ tabs[t].pc = "redirected" => tabs[t].url # NoToken
                     /\ tabs[t].pc = "loaded" => tabs[t].url # NoToken \/ store # NoToken
                     /\ tabs[t].pc = "ready" => store # NoToken
  /\ verdict.of = "fetch" => verdict.answer # "forbidden"

SessionsInv == SessionsTypeOK /\ TokensSound /\ CookieIsLast /\ ReadyHasToken

-----------------------------------------------------------------------------
(* The limiter.                                                            *)

(* Seconds rounded up are enough.                                          *)
LEMMA CeilingSuffices ==
  ASSUME NEW x \in Nat
  PROVE  CeilSeconds(x) \in Nat /\ x <= CeilSeconds(x) * PerSecond
<1> DEFINE y == x + PerSecond - 1
<1>1. y \in Nat /\ PerSecond \in Nat /\ PerSecond > 0 BY RateAssumption
<1>2. y = PerSecond * (y \div PerSecond) + (y % PerSecond) /\ y % PerSecond \in 0 .. PerSecond - 1
      /\ y \div PerSecond \in Nat
  BY <1>1
<1>3. x <= PerSecond * (y \div PerSecond) BY <1>1, <1>2
<1> QED BY <1>1, <1>2, <1>3 DEF CeilSeconds


(* What a request finds in the bucket, and what it leaves there.           *)
LEMMA BucketRefills ==
  ASSUME RateTypeOK
  PROVE  /\ Full \in Nat /\ Refilled(bucket) \in Nat
         /\ Refilled(bucket) <= Full /\ Refilled(bucket) <= bucket.tokens + tick - bucket.updatedAt
         /\ \A n \in Nat : n <= Full /\ n <= bucket.tokens + tick - bucket.updatedAt => n <= Refilled(bucket)
<1> DEFINE b == bucket.tokens + (tick - bucket.updatedAt)
<1>1. Full \in Nat /\ b \in Nat BY RateAssumption DEF Full, RateTypeOK
<1>2. \E m \in {Full, b} : \A n \in {Full, b} : m <= n
  <2>1. CASE Full <= b BY <1>1, <2>1
  <2>2. CASE b <= Full BY <1>1, <2>2
  <2> QED BY <1>1, <2>1, <2>2
<1>3. Refilled(bucket) \in {Full, b} /\ Refilled(bucket) <= Full /\ Refilled(bucket) <= b
  BY <1>2 DEF Refilled, Min, Full
<1> QED BY <1>1, <1>3

LEMMA AskStep ==
  ASSUME RateInv, NEW cost \in Costs, Ask(cost)
  PROVE  RateInv'
<1> DEFINE tokens == Refilled(bucket)
           need == cost * PerSecond
<1> HIDE DEF tokens, need
<1>a. /\ cost \in Nat /\ cost > 0 /\ cost <= Capacity /\ PerSecond \in Nat /\ PerSecond > 0 /\ Capacity \in Nat
  BY RateAssumption
<1>b. need \in Nat /\ need <= Full /\ need > 0 /\ Full \in Nat
  BY <1>a DEF need, Full
<1>t. RateTypeOK BY DEF RateInv
<1>c. /\ tokens \in Nat /\ tokens <= Full /\ tokens <= bucket.tokens + tick - bucket.updatedAt
      /\ \A n \in Nat : n <= Full /\ n <= bucket.tokens + tick - bucket.updatedAt => n <= tokens
  BY <1>t, BucketRefills DEF tokens
<1>d. /\ tick \in Nat /\ bucket.tokens \in Nat /\ bucket.updatedAt \in Nat /\ bucket.updatedAt <= tick
      /\ granted \in Seq(Grants) /\ waiting.cost \in Nat /\ waiting.from \in Nat
  BY <1>t DEF RateTypeOK
<1>e. \A i \in DOMAIN granted : granted[i] \in Grants /\ granted[i].at \in Nat /\ granted[i].cost \in Nat /\ granted[i].total \in Nat
  <2> TAKE i \in DOMAIN granted
  <2>1. granted[i] \in Grants BY <1>d
  <2> QED BY <2>1 DEF Grants
<1>h. /\ tick \in Nat /\ bucket.tokens \in Nat /\ bucket.updatedAt \in Nat /\ bucket.updatedAt <= tick
      /\ tokens \in Nat /\ tokens <= bucket.tokens + tick - bucket.updatedAt
  BY <1>c, <1>d
<1>f. Total \in Nat BY <1>d, <1>e DEF Total
<1>g. /\ tick' = tick
      /\ told' = (~(tokens >= need) /\ waiting.cost = cost /\ tick >= waiting.from)
  BY DEF Ask, tokens, need
<1>n. ~told' /\ told' \in BOOLEAN
  <2> SUFFICES ASSUME waiting.cost = cost, tick >= waiting.from PROVE tokens >= need
    BY <1>g
  <2>1. bucket.updatedAt <= waiting.from /\ need <= bucket.tokens + waiting.from - bucket.updatedAt
    BY <1>a DEF RateInv, WaitSuffices, need
  <2> QED BY <2>1, <1>b, <1>c, <1>d
<1>1. CASE tokens >= need
  <2>1. /\ bucket' = [tokens |-> tokens - need, updatedAt |-> tick]
        /\ granted' = Append(granted, Grant(cost)) /\ waiting' = NobodyWaits
    BY <1>1 DEF Ask, tokens, need
  <2> DEFINE g == Grant(cost)
  <2>2. g \in Grants /\ g.at = tick /\ g.cost = cost /\ g.total = Total + cost
    BY <1>a, <1>d, <1>f DEF Grant, Grants
  <2> HIDE DEF g
  <2>3. granted' = Append(granted, g) BY <2>1 DEF g
  <2>4. /\ granted' \in Seq(Grants) /\ DOMAIN granted' = 1 .. Len(granted) + 1
        /\ granted'[Len(granted) + 1] = g /\ granted' # <<>> /\ Len(granted') = Len(granted) + 1
        /\ \A i \in DOMAIN granted : i \in DOMAIN granted' /\ granted'[i] = granted[i]
        /\ \A i \in DOMAIN granted' : i \in DOMAIN granted \/ i = Len(granted) + 1
    BY <2>2, <2>3, <1>d
  <2>5. Total' = Total + cost BY <2>2, <2>4 DEF Total
  <2>6. RateTypeOK'
    <3>1. bucket' \in [tokens : Nat, updatedAt : Nat] /\ bucket'.tokens <= Full /\ bucket'.updatedAt <= tick'
      BY <2>1, <1>1, <1>b, <1>c, <1>d, <1>g
    <3>2. waiting' \in [cost : Nat, from : Nat] BY <2>1 DEF NobodyWaits
    <3> QED BY <3>1, <3>2, <2>4, <1>g, <1>d, <1>n DEF RateTypeOK
  <2>7. ASSUME NEW i \in DOMAIN granted
        PROVE  /\ granted[i].at <= tick
               /\ PerSecond * (Total + cost - granted[i].total + granted[i].cost) + (tokens - need)
                    <= Full + tick - granted[i].at
    <3> DEFINE k == Total - granted[i].total + granted[i].cost
    <3>1. granted[i].at <= bucket.updatedAt
          /\ PerSecond * k + bucket.tokens <= Full + bucket.updatedAt - granted[i].at
      BY DEF RateInv, BucketPays
    <3>2. k \in Int BY <1>e, <1>f
    <3> HIDE DEF k
    <3>3. PerSecond * (k + cost) = PerSecond * k + need BY <3>2, <1>a DEF need
    <3>4. PerSecond * k \in Int BY <3>2, <1>a
    <3> DEFINE owed == PerSecond * k
    <3>5. PerSecond * (k + cost) + (tokens - need) <= Full + tick - granted[i].at
      <4>1. owed \in Int /\ PerSecond * (k + cost) = owed + need BY <3>3, <3>4
      <4>2. owed + bucket.tokens <= Full + bucket.updatedAt - granted[i].at BY <3>1
      <4> HIDE DEF owed
      <4>3. granted[i].at \in Nat BY <1>e
      <4>4. owed + need + (tokens - need) <= Full + tick - granted[i].at
        BY <4>1, <4>2, <4>3, <1>b, <1>h
      <4> QED BY <4>1, <4>4
    <3>6. k + cost = Total + cost - granted[i].total + granted[i].cost
      BY <1>a, <1>e, <1>f DEF k
    <3> QED BY <3>1, <3>5, <3>6, <1>d, <1>e
  <2>8. BucketPays'
    <3> SUFFICES ASSUME NEW i \in DOMAIN granted'
                 PROVE  /\ granted'[i].at <= bucket'.updatedAt
                        /\ PerSecond * (Total' - granted'[i].total + granted'[i].cost) + bucket'.tokens
                             <= Full + bucket'.updatedAt - granted'[i].at
      BY DEF BucketPays, Full
    <3>0. bucket'.tokens = tokens - need /\ bucket'.updatedAt = tick BY <2>1
    <3>1. CASE i \in DOMAIN granted
      <4>1. granted'[i] = granted[i] BY <3>1, <2>4
      <4>2. Total' - granted'[i].total + granted'[i].cost = Total + cost - granted[i].total + granted[i].cost
        BY <4>1, <3>1, <2>5, <1>a, <1>e, <1>f
      <4>3. /\ granted[i].at <= tick
            /\ PerSecond * (Total + cost - granted[i].total + granted[i].cost) + (tokens - need)
                 <= Full + tick - granted[i].at
        BY <3>1, <2>7
      <4> QED BY <3>0, <4>1, <4>2, <4>3
    <3>2. CASE i = Len(granted) + 1
      <4>1. granted'[i] = g BY <2>4, <3>2
      <4>2. Total' - g.total + g.cost = cost BY <2>2, <2>5, <1>a, <1>f
      <4>3. PerSecond * cost = need BY <1>a DEF need
      <4> QED BY <4>1, <4>2, <4>3, <3>0, <2>2, <1>b, <1>c, <1>d
    <3> QED BY <3>1, <3>2, <2>4
  <2>9. WaitSuffices' BY <2>1 DEF WaitSuffices, NobodyWaits
  <2>10. BurstBound'
    <3> SUFFICES ASSUME NEW i \in DOMAIN granted', NEW j \in DOMAIN granted', i <= j
                 PROVE  PerSecond * (granted'[j].total - granted'[i].total + granted'[i].cost)
                          <= PerSecond * Capacity + granted'[j].at - granted'[i].at
      BY DEF BurstBound, Spent
    <3>0. PerSecond * Capacity = Full BY <1>a DEF Full
    <3>1. CASE j \in DOMAIN granted
      <4>1. i \in DOMAIN granted BY <3>1, <2>4, <1>d
      <4>2. granted'[i] = granted[i] /\ granted'[j] = granted[j] BY <3>1, <4>1, <2>4
      <4>3. PerSecond * (granted[j].total - granted[i].total + granted[i].cost)
                          <= PerSecond * Capacity + granted[j].at - granted[i].at
        BY <3>1, <4>1 DEF RateInv, LimitAsPromised, BurstBound, Spent
      <4> QED BY <4>2, <4>3
    <3>2. CASE j = Len(granted) + 1 /\ i \in DOMAIN granted
      <4>1. granted'[i] = granted[i] /\ granted'[j] = g BY <3>2, <2>4
      <4>2. PerSecond * (Total + cost - granted[i].total + granted[i].cost) + (tokens - need)
                    <= Full + tick - granted[i].at
        BY <3>2, <2>7
      <4> DEFINE k == Total + cost - granted[i].total + granted[i].cost
                 spent == PerSecond * k
      <4>3. granted[i].at \in Nat /\ k \in Int BY <3>2, <1>a, <1>e, <1>f
      <4>4. spent \in Int BY <4>3, <1>a
      <4>5. g.total - granted'[i].total + granted'[i].cost = k
        BY <4>1, <3>2, <2>2, <1>a, <1>e, <1>f
      <4>6. spent + (tokens - need) <= Full + tick - granted[i].at BY <4>2
      <4> HIDE DEF spent, k
      <4>7. spent <= Full + tick - granted[i].at
        <5> DEFINE left == tokens - need
        <5>1. left \in Nat BY <1>1, <1>b, <1>c
        <5> HIDE DEF left
        <5>2. spent + left <= Full + tick - granted[i].at BY <4>6 DEF left
        <5> QED BY <5>1, <5>2, <4>3, <4>4, <1>b, <1>h
      <4>8. PerSecond * k <= Full + g.at - granted[i].at BY <4>7, <2>2 DEF spent
      <4> QED BY <4>1, <4>5, <4>8, <3>0
    <3>3. CASE j = Len(granted) + 1 /\ i = Len(granted) + 1
      <4>1. granted'[i] = g /\ granted'[j] = g BY <3>3, <2>4
      <4>2. g.total - g.total + g.cost = cost BY <2>2, <1>a, <1>f
      <4>3. PerSecond * cost = need BY <1>a DEF need
      <4> QED BY <4>1, <4>2, <4>3, <3>0, <2>2, <1>b, <1>d
    <3> QED BY <3>1, <3>2, <3>3, <2>4
  <2> QED BY <2>6, <2>8, <2>9, <2>10, <1>n DEF RateInv, LimitAsPromised, RetryAfterEnough
<1>2. CASE ~(tokens >= need)
  <2> DEFINE wait == RetryAfter(cost, tokens) * PerSecond
  <2>1. /\ bucket' = [tokens |-> tokens, updatedAt |-> tick]
        /\ granted' = granted /\ waiting' = [cost |-> cost, from |-> tick + wait]
    BY <1>2 DEF Ask, tokens, need
  <2>2. wait \in Nat /\ need - tokens <= wait
    <3>1. need - tokens \in Nat BY <1>2, <1>b, <1>c
    <3>2. wait = CeilSeconds(need - tokens) * PerSecond BY DEF RetryAfter, need
    <3>3. CeilSeconds(need - tokens) \in Nat /\ need - tokens <= CeilSeconds(need - tokens) * PerSecond
      BY <3>1, CeilingSuffices
    <3> QED BY <3>2, <3>3, <1>a
  <2> HIDE DEF wait
  <2>3. Total' = Total BY <2>1 DEF Total
  <2>4. RateTypeOK'
    BY <2>1, <2>2, <1>a, <1>c, <1>d, <1>g, <1>n DEF RateTypeOK
  <2>5. BucketPays'
    <3> SUFFICES ASSUME NEW i \in DOMAIN granted
                 PROVE  /\ granted[i].at <= tick
                        /\ PerSecond * (Total - granted[i].total + granted[i].cost) + tokens
                             <= Full + tick - granted[i].at
      BY <2>1, <2>3 DEF BucketPays, Full
    <3>1. granted[i].at <= bucket.updatedAt
          /\ PerSecond * (Total - granted[i].total + granted[i].cost) + bucket.tokens <= Full + bucket.updatedAt - granted[i].at
      BY DEF RateInv, BucketPays
    <3> DEFINE k == Total - granted[i].total + granted[i].cost
               owed == PerSecond * k
    <3>2. granted[i].at \in Nat /\ k \in Int BY <1>e, <1>f
    <3>3. owed \in Int BY <3>2, <1>a
    <3>4. owed + bucket.tokens <= Full + bucket.updatedAt - granted[i].at BY <3>1
    <3> HIDE DEF owed, k
    <3>5. owed + tokens <= Full + tick - granted[i].at BY <3>2, <3>3, <3>4, <1>b, <1>h
    <3>6. granted[i].at <= tick BY <3>1, <3>2, <1>h
    <3> QED BY <3>5, <3>6 DEF owed, k
  <2>6. WaitSuffices'
    BY <2>1, <2>2, <1>a, <1>b, <1>c, <1>d DEF WaitSuffices, need
  <2>7. BurstBound' BY <2>1 DEF RateInv, LimitAsPromised, BurstBound, Spent
  <2> QED BY <2>4, <2>5, <2>6, <2>7, <1>n DEF RateInv, LimitAsPromised, RetryAfterEnough
<1> QED BY <1>1, <1>2

LEMMA RateInitInv == RateInit => RateInv
<1> SUFFICES ASSUME RateInit PROVE RateInv OBVIOUS
<1>1. Full \in Nat BY RateAssumption DEF Full
<1>2. RateTypeOK
  <2>1. granted \in Seq(Grants) BY DEF RateInit
  <2>2. bucket \in [tokens : Nat, updatedAt : Nat] /\ bucket.tokens <= Full /\ bucket.updatedAt <= tick /\ tick \in Nat
    BY <1>1 DEF RateInit, Full
  <2>3. waiting \in [cost : Nat, from : Nat] /\ told \in BOOLEAN BY DEF RateInit, NobodyWaits
  <2> QED BY <2>1, <2>2, <2>3 DEF RateTypeOK
<1>3. BucketPays /\ WaitSuffices /\ LimitAsPromised
  BY DEF RateInit, BucketPays, WaitSuffices, NobodyWaits, LimitAsPromised, BurstBound, RetryAfterEnough
<1> QED BY <1>2, <1>3 DEF RateInv

LEMMA RateStep == RateInv /\ [RateNext]_rateVars => RateInv'
<1> SUFFICES ASSUME RateInv, [RateNext]_rateVars PROVE RateInv' OBVIOUS
<1>1. CASE TimePasses
  <2>1. PICK d \in Jumps : tick + d <= LastTick /\ tick' = tick + d /\ UNCHANGED <<bucket, granted, waiting, told>>
    BY <1>1 DEF TimePasses
  <2>2. tick' \in Nat /\ tick' >= tick BY <2>1, JumpsAssumption DEF RateInv, RateTypeOK
  <2>3. RateTypeOK' BY <2>1, <2>2 DEF RateInv, RateTypeOK
  <2>4. Total' = Total BY <2>1 DEF Total
  <2> QED BY <2>1, <2>3, <2>4 DEF RateInv, BucketPays, WaitSuffices, LimitAsPromised, BurstBound, Spent, RetryAfterEnough
<1>2. ASSUME NEW cost \in Costs, Ask(cost) PROVE RateInv' BY <1>2, AskStep
<1>3. CASE UNCHANGED rateVars
  BY <1>3 DEF rateVars, RateInv, RateTypeOK, BucketPays, Total, WaitSuffices, LimitAsPromised, BurstBound, Spent, RetryAfterEnough
<1> QED BY <1>1, <1>2, <1>3 DEF RateNext

(* Between any two requests let through, no more passes than the burst and *)
(* what came back meanwhile, and a client that waits as it was told is let *)
(* through, for every capacity, rate, mixture of costs and spacing of      *)
(* requests (lib/rate-limit).                                              *)
THEOREM LimitIsAsPromised == RateSpec => []LimitAsPromised
<1>1. RateInv => LimitAsPromised BY DEF RateInv
<1> QED BY <1>1, RateInitInv, RateStep, PTL DEF RateSpec


-----------------------------------------------------------------------------
(* Sessions.                                                               *)

LEMMA NoTokenApart == NoToken \notin Token /\ Life \in Nat /\ OperatorLife \in Nat
BY SessionsAssumption DEF Token

LEMMA AroundIsTokens ==
  ASSUME SessionsTypeOK
  PROVE  \A k \in Around : k \in Token /\ k # NoToken /\ k.n \in Nat /\ k.until \in Nat
<1>1. store \in Held /\ jar.session.token \in Held /\ \A t \in Tabs : tabs[t].url \in Held
  BY DEF SessionsTypeOK, Jar, Tab
<1>2. \A k \in Around : k \in Token /\ k # NoToken BY <1>1 DEF Around, Held
<1> QED BY <1>2 DEF Token

(* A browser with cookies that finds none has no token that is still good. *)
LEMMA NoCookieNoToken ==
  ASSUME SessionsInv, takesCookies, OfSession(jar) = NoToken
  PROVE  \A k \in Around : k.until <= hour
<1>1. CASE \A k \in Around : k.until <= hour BY <1>1
<1>2. CASE /\ jar.session.token # NoToken
           /\ \A k \in Around : k.until <= jar.session.until
  <2>1. /\ hour \in Nat /\ jar.session.until \in Nat /\ SessionsTypeOK
    BY DEF SessionsInv, SessionsTypeOK, Jar
  <2>2. jar.session.until <= hour BY <1>2, <2>1 DEF OfSession
  <2> QED BY <1>2, <2>1, <2>2, AroundIsTokens
<1> QED BY <1>1, <1>2 DEF SessionsInv, CookieIsLast

(* What the proxy takes the session from, and the cookie it leaves.        *)
LEMMA BridgedToken ==
  ASSUME SessionsInv, NEW t \in Tabs, NEW url \in {tabs[t].url, NoToken}, NEW header \in {store, NoToken}
  PROVE  LET b == Bridged(url, header) IN
           /\ b.token \in Around \cup {NoToken}
           /\ b.jar \in Jar
           /\ \/ b.jar.session = jar.session
              \/ /\ takesCookies /\ b.jar.session.token \in Around
                 /\ \A k \in Around : k.until <= hour
           /\ takesCookies /\ Alive(b.token) => b.token.n = openings
           /\ OfSession(jar) = NoToken => b.token = Carried(url, header)
<1> DEFINE b == Bridged(url, header)
           c == Carried(url, header)
<1>t. SessionsTypeOK BY DEF SessionsInv
<1>1. /\ jar \in Jar /\ jar.session \in [token : Held, until : Nat] /\ jar.session.token \in Held /\ jar.session.until \in Nat
      /\ hour \in Nat /\ openings \in Nat
  BY <1>t DEF SessionsTypeOK, Jar
<1>2. c \in Around \cup {NoToken} BY DEF Carried, Around
<1>3. OfSession(jar) \in Around \cup {NoToken} BY DEF OfSession, Around
<1>4. \A k \in Around : k \in Token /\ k # NoToken /\ k.n \in Nat /\ k.until \in Nat
  BY <1>t, AroundIsTokens
<1>5. CASE OfSession(jar) = NoToken /\ c # NoToken
  <2> HIDE DEF c
  <2>1. /\ b.token = c
        /\ b.jar = IF takesCookies THEN [jar EXCEPT !.session = Cookie(c)] ELSE jar
    BY <1>5 DEF Bridged, c
  <2>2. c \in Around /\ c \in Token BY <1>2, <1>4, <1>5
  <2>3. Cookie(c) \in [token : Held, until : Nat] /\ Cookie(c).token = c
    BY <2>2, <1>1, NoTokenApart DEF Cookie, Held
  <2>4. CASE takesCookies
    <3>1. b.jar = [jar EXCEPT !.session = Cookie(c)] BY <2>1, <2>4
    <3>2. b.jar \in Jar /\ b.jar.session = Cookie(c) BY <3>1, <2>3, <1>1 DEF Jar
    <3>3. \A k \in Around : k.until <= hour BY <1>5, <2>4, NoCookieNoToken
    <3>4. ~Alive(b.token) BY <2>1, <2>2, <3>3, <1>1, <1>4 DEF Alive
    <3> QED BY <2>1, <2>2, <2>3, <3>2, <3>3, <3>4 DEF c
  <2>5. CASE ~takesCookies BY <2>1, <2>2, <2>5, <1>1 DEF c
  <2> QED BY <2>4, <2>5
<1>6. CASE ~(OfSession(jar) = NoToken /\ c # NoToken)
  <2> HIDE DEF c
  <2>1. b.token = OfSession(jar) /\ b.jar = jar BY <1>6 DEF Bridged, c
  <2>2. ASSUME takesCookies, Alive(b.token) PROVE b.token.n = openings
    <3>1. b.token # NoToken /\ b.token.until > hour /\ b.token \in Around BY <2>1, <2>2, <1>3 DEF Alive
    <3>2. b.token = jar.session.token BY <2>1, <3>1 DEF OfSession
    <3>3. ~(\A k \in Around : k.until <= hour) BY <3>1, <1>1, <1>4
    <3> QED BY <2>2, <3>2, <3>3 DEF SessionsInv, CookieIsLast
  <2>3. OfSession(jar) = NoToken => b.token = c BY <2>1, <1>6
  <2> QED BY <2>1, <2>2, <2>3, <1>1, <1>3 DEF c
<1> QED BY <1>5, <1>6


(* Fewer tokens around and the same session, or one that is over: what is  *)
(* known of the cookie stays known.                                        *)
LEMMA CookieStaysLast ==
  ASSUME SessionsInv, takesCookies' = takesCookies, hour' = hour, openings' = openings,
         Around' \subseteq Around,
         \/ jar'.session = jar.session
         \/ takesCookies /\ \A k \in Around : k.until <= hour
  PROVE  CookieIsLast'
<1>1. CASE \A k \in Around : k.until <= hour
  <2>1. CASE takesCookies BY <1>1, <2>1 DEF CookieIsLast
  <2>2. CASE ~takesCookies BY <2>2 DEF SessionsInv, CookieIsLast
  <2> QED BY <2>1, <2>2
<1>2. CASE jar'.session = jar.session
  <2>1. CASE takesCookies
    <3>1. CASE /\ jar.session.token # NoToken /\ jar.session.token.n = openings
               /\ \A k \in Around : k.until <= jar.session.until
               /\ jar.session.until = jar.session.token.until
      BY <1>2, <2>1, <3>1 DEF CookieIsLast
    <3> QED BY <1>1, <2>1, <3>1 DEF SessionsInv, CookieIsLast
  <2>2. CASE ~takesCookies BY <1>2, <2>2 DEF SessionsInv, CookieIsLast
  <2> QED BY <2>1, <2>2
<1> QED BY <1>1, <1>2

LEMMA RequestStep ==
  ASSUME SessionsInv, NEW t \in Tabs, NEW of \in {"page", "fetch"}, NEW write \in BOOLEAN,
         NEW url \in {tabs[t].url, NoToken}, NEW header \in {store, NoToken},
         Request(t, of, write, url, header),
         UNCHANGED <<takesCookies, hour, openings, store>>,
         of = "page" => tabs[t].pc \in {"redirected", "ready"} /\ ~write,
         of = "fetch" => tabs[t].pc = "ready" /\ header # NoToken
  PROVE  /\ SessionsInv'
         /\ IdentityMovesForward
         /\ verdict'.answer # "forbidden"
         /\ verdict'.token = Bridged(url, header).token
         /\ verdict'.answer = "served" <=> Alive(verdict'.token)
<1> DEFINE b == Bridged(url, header)
           token == b.token
           answer == Gate(write, header, token)
<1>t. SessionsTypeOK /\ tabs \in [Tabs -> Tab] BY DEF SessionsInv, SessionsTypeOK
<1>1. /\ token \in Around \cup {NoToken}
      /\ b.jar \in Jar
      /\ \/ b.jar.session = jar.session
         \/ /\ takesCookies /\ b.jar.session.token \in Around
            /\ \A k \in Around : k.until <= hour
      /\ takesCookies /\ Alive(token) => token.n = openings
  BY BridgedToken
<1>2. \A k \in Around : k \in Token /\ k # NoToken /\ k.n \in Nat /\ k.until \in Nat /\ k.n <= openings /\ k.until <= hour + Life
  BY <1>t, AroundIsTokens DEF SessionsInv, TokensSound
<1>3. answer # "forbidden" /\ (answer = "served" <=> Alive(token))
  <2>1. ~(write /\ header = NoToken) OBVIOUS
  <2> QED BY <2>1 DEF Gate
<1>4. answer = "served" => token \in Around BY <1>1, <1>3 DEF Alive
<1>5. /\ jar' = b.jar /\ verdict' = [of |-> of, token |-> token, answer |-> answer]
      /\ tabs' = [tabs EXCEPT
           ![t].newest = IF answer = "served" THEN token.n ELSE @,
           ![t].pc = IF of # "page" THEN @ ELSE IF answer = "served" THEN "loaded" ELSE "closed"]
  BY DEF Request
<1> HIDE DEF answer, token, b
<1>6. verdict'.of = of /\ verdict'.token = token /\ verdict'.answer = answer BY <1>5
<1>7. PICK newest, pc :
        /\ tabs' = [tabs EXCEPT ![t].newest = newest, ![t].pc = pc]
        /\ newest = (IF answer = "served" THEN token.n ELSE tabs[t].newest)
        /\ pc = (IF of # "page" THEN tabs[t].pc ELSE IF answer = "served" THEN "loaded" ELSE "closed")
  BY <1>5
<1>8. /\ newest \in Nat /\ newest <= openings
      /\ pc \in {"closed", "redirected", "loaded", "ready"}
      /\ takesCookies => newest >= tabs[t].newest
  <2>1. tabs[t].newest \in Nat /\ tabs[t].newest <= openings /\ openings \in Nat
        /\ tabs[t].pc \in {"closed", "redirected", "loaded", "ready"}
    BY <1>t DEF SessionsInv, TokensSound, Tab, SessionsTypeOK
  <2>2. CASE answer = "served"
    BY <2>1, <2>2, <1>1, <1>2, <1>3, <1>4, <1>7
  <2>3. CASE answer # "served" BY <2>1, <2>3, <1>7
  <2> QED BY <2>2, <2>3
<1>9. /\ DOMAIN tabs' = Tabs
      /\ tabs'[t] \in Tab /\ tabs'[t].newest = newest /\ tabs'[t].pc = pc /\ tabs'[t].url = tabs[t].url
      /\ \A u \in Tabs : u # t => tabs'[u] = tabs[u]
  <2>1. tabs[t] \in Tab BY <1>t
  <2> QED BY <2>1, <1>t, <1>7, <1>8 DEF Tab
<1>10. SessionsTypeOK'
  <2>1. tabs' \in [Tabs -> Tab] BY <1>t, <1>7, <1>9
  <2> QED BY <2>1, <1>t, <1>1, <1>5 DEF SessionsTypeOK, b
<1>11. jar'.session.token \in Around \cup {NoToken}
  BY <1>1, <1>5 DEF Around, b
<1>12. Around' \subseteq Around
  <2>1. \A u \in Tabs : tabs'[u].url = tabs[u].url BY <1>9
  <2> QED BY <2>1, <1>11 DEF Around
<1>13. TokensSound'
  <2>1. \A u \in Tabs : tabs'[u].newest <= openings BY <1>8, <1>9 DEF SessionsInv, TokensSound
  <2> QED BY <2>1, <1>2, <1>12 DEF TokensSound
<1>14. CookieIsLast'
  <2>1. \/ jar'.session = jar.session
        \/ takesCookies /\ \A k \in Around : k.until <= hour
    BY <1>1, <1>5
  <2> QED BY <2>1, <1>12, CookieStaysLast
<1>15. ReadyHasToken'
  <2>1. ASSUME NEW u \in Tabs
        PROVE  /\ tabs'[u].pc = "redirected" => tabs'[u].url # NoToken
               /\ tabs'[u].pc = "loaded" => tabs'[u].url # NoToken \/ store' # NoToken
               /\ tabs'[u].pc = "ready" => store' # NoToken
    <3>1. /\ tabs[u].pc = "redirected" => tabs[u].url # NoToken
          /\ tabs[u].pc = "loaded" => tabs[u].url # NoToken \/ store # NoToken
          /\ tabs[u].pc = "ready" => store # NoToken
      BY DEF SessionsInv, ReadyHasToken
    <3>2. CASE u # t BY <3>1, <3>2, <1>9
    <3>3. CASE u = t /\ of = "fetch" BY <3>1, <3>3, <1>7, <1>9
    <3>4. CASE u = t /\ of = "page" BY <3>1, <3>4, <1>7, <1>9
    <3> QED BY <3>2, <3>3, <3>4
  <2> QED BY <2>1, <1>3, <1>6 DEF ReadyHasToken
<1>16. IdentityMovesForward
  <2> SUFFICES ASSUME takesCookies, NEW u \in Tabs PROVE tabs'[u].newest >= tabs[u].newest
    BY DEF IdentityMovesForward
  <2>1. tabs[u].newest \in Nat BY <1>t DEF Tab
  <2> QED BY <2>1, <1>8, <1>9
<1> QED BY <1>3, <1>6, <1>10, <1>13, <1>14, <1>15, <1>16 DEF SessionsInv, token, b


LEMMA LoadPageStep ==
  ASSUME SessionsInv, NEW t \in Tabs, LoadPage(t)
  PROVE  /\ SessionsInv' /\ IdentityMovesForward
         /\ tabs[t].pc = "redirected" /\ Alive(tabs[t].url)
              => verdict'.answer = "served" /\ verdict'.token.n >= tabs[t].url.n
<1> DEFINE url == tabs[t].url
           token == Bridged(url, NoToken).token
<1>1. /\ Request(t, "page", FALSE, url, NoToken)
      /\ UNCHANGED <<takesCookies, hour, openings, store>>
      /\ tabs[t].pc \in {"redirected", "ready"}
  BY DEF LoadPage
<1>2. /\ SessionsInv' /\ IdentityMovesForward /\ verdict'.token = token
      /\ verdict'.answer = "served" <=> Alive(verdict'.token)
  BY <1>1, RequestStep
<1>3. /\ takesCookies /\ Alive(token) => token.n = openings
      /\ OfSession(jar) = NoToken => token = Carried(url, NoToken)
  BY BridgedToken
<1>4. ASSUME Alive(url) PROVE Alive(token) /\ token.n >= url.n
  <2>1. url \in Around BY <1>4 DEF Alive, Around
  <2>2. url.n \in Nat /\ url.until \in Nat /\ url.n <= openings /\ hour \in Nat /\ openings \in Nat
    BY <2>1, AroundIsTokens DEF SessionsInv, TokensSound, SessionsTypeOK
  <2>3. CASE OfSession(jar) = NoToken
    <3>1. token = url BY <2>3, <1>3, <1>4 DEF Carried, Alive
    <3> HIDE DEF token, url
    <3> QED BY <3>1, <2>2, <1>4
  <2>4. CASE OfSession(jar) # NoToken
    <3>1. token = OfSession(jar) BY <2>4 DEF Bridged
    <3>2. jar.session.until > hour /\ OfSession(jar) = jar.session.token BY <2>4 DEF OfSession
    <3>3. takesCookies
      <4>1. ~takesCookies => jar.session = NoCookie BY DEF SessionsInv, CookieIsLast
      <4>2. NoCookie.until = 0 BY DEF NoCookie
      <4> QED BY <4>1, <4>2, <3>2, <2>2
    <3>4. ~(\A k \in Around : k.until <= hour) BY <2>1, <2>2, <1>4 DEF Alive
    <3>5. jar.session.until = jar.session.token.until BY <3>3, <3>4 DEF SessionsInv, CookieIsLast
    <3>6. Alive(token) BY <3>1, <3>2, <3>5, <2>4 DEF Alive
    <3>7. token.n = openings BY <3>3, <3>6, <1>3
    <3> HIDE DEF token, url
    <3> QED BY <3>6, <3>7, <2>2
  <2> QED BY <2>3, <2>4
<1>5. ASSUME Alive(url) PROVE verdict'.answer = "served" /\ verdict'.token.n >= url.n
  <2>1. Alive(token) /\ token.n >= url.n BY <1>4, <1>5
  <2> HIDE DEF token, url
  <2> QED BY <2>1, <1>2
<1> QED BY <1>2, <1>5

LEMMA FetchStep ==
  ASSUME SessionsInv, NEW t \in Tabs, NEW write \in BOOLEAN, Fetch(t, write)
  PROVE  SessionsInv' /\ IdentityMovesForward
<1>1. /\ Request(t, "fetch", write, NoToken, store)
      /\ UNCHANGED <<takesCookies, hour, openings, store>>
      /\ tabs[t].pc = "ready" /\ store # NoToken
  BY DEF Fetch, SessionsInv, ReadyHasToken
<1> QED BY <1>1, RequestStep

LEMMA OpenAppStep ==
  ASSUME SessionsInv, NEW t \in Tabs, NEW u \in Visitors, OpenApp(t, u)
  PROVE  SessionsInv' /\ IdentityMovesForward
<1> DEFINE token == NewToken(u)
           tab == [pc |-> "redirected", url |-> token, newest |-> 0]
<1>t. /\ SessionsTypeOK /\ tabs \in [Tabs -> Tab] /\ openings \in Nat /\ hour \in Nat /\ store \in Held
      /\ takesCookies \in BOOLEAN /\ jar \in Jar
  BY DEF SessionsInv, SessionsTypeOK
<1>1. /\ openings' = openings + 1 /\ jar' = Issued(token)
      /\ tabs' = [tabs EXCEPT ![t] = tab]
      /\ verdict'.of = "open"
      /\ UNCHANGED <<takesCookies, hour, store>>
  BY DEF OpenApp
<1>2. token \in Token /\ token # NoToken /\ token.n = openings + 1 /\ token.until = hour + Life
  BY <1>t, NoTokenApart DEF NewToken, Token
<1> HIDE DEF token
<1>3. tab \in Tab /\ tab.pc = "redirected" /\ tab.url = token /\ tab.newest = 0 BY <1>2 DEF Tab, Held
<1> HIDE DEF tab
<1>4. /\ tabs' \in [Tabs -> Tab] /\ tabs'[t] = tab /\ \A v \in Tabs : v # t => tabs'[v] = tabs[v]
  BY <1>t, <1>1, <1>3
<1>5. /\ jar' \in Jar
      /\ takesCookies => jar'.session.token = token /\ jar'.session.until = hour + Life
      /\ ~takesCookies => jar'.session = jar.session
  <2>1. Cookie(token) \in [token : Held, until : Nat] /\ Cookie(token).token = token /\ Cookie(token).until = hour + Life
    BY <1>2, <1>t, NoTokenApart DEF Cookie, Held
  <2>2. hour + Life \in Nat BY <1>t, NoTokenApart
  <2>3. CASE takesCookies
    <3>1. jar' = [jar EXCEPT !.session = Cookie(token), !.csrf = hour + Life] BY <2>3, <1>1 DEF Issued
    <3>2. jar' \in Jar /\ jar'.session = Cookie(token) BY <3>1, <2>1, <2>2, <1>t DEF Jar
    <3> QED BY <2>3, <2>1, <3>2
  <2>4. CASE ~takesCookies BY <2>4, <1>1, <1>t DEF Issued
  <2> QED BY <2>3, <2>4
<1>6. SessionsTypeOK' BY <1>t, <1>1, <1>4, <1>5 DEF SessionsTypeOK
<1>7. Around' \subseteq Around \cup {token}
  <2>1. \A v \in Tabs : tabs'[v].url = tabs[v].url \/ tabs'[v].url = token BY <1>3, <1>4
  <2>2. jar'.session.token = token \/ jar'.session.token = jar.session.token BY <1>5, <1>t
  <2> QED BY <2>1, <2>2, <1>1 DEF Around
<1>8. \A k \in Around : k.n \in Nat /\ k.until \in Nat /\ k.n <= openings /\ k.until <= hour + Life
  BY <1>t, AroundIsTokens DEF SessionsInv, TokensSound
<1>9. TokensSound'
  <2>1. \A k \in Around' : k.n <= openings + 1 /\ k.until <= hour + Life
    <3> TAKE k \in Around'
    <3>1. CASE k = token BY <3>1, <1>2, <1>t, NoTokenApart
    <3>2. CASE k \in Around BY <3>2, <1>8, <1>t
    <3> QED BY <3>1, <3>2, <1>7
  <2>2. \A v \in Tabs : tabs'[v].newest <= openings + 1
    <3> TAKE v \in Tabs
    <3>1. tabs[v].newest \in Nat /\ tabs[v].newest <= openings BY <1>t DEF Tab, SessionsInv, TokensSound
    <3> QED BY <3>1, <1>3, <1>4, <1>t
  <2> QED BY <2>1, <2>2, <1>1 DEF TokensSound
<1>10. CookieIsLast'
  <2>1. CASE takesCookies
    <3>1. \A k \in Around' : k.until <= hour + Life BY <1>9, <1>1 DEF TokensSound
    <3>2. jar'.session.token = token /\ jar'.session.until = hour + Life BY <1>5, <2>1
    <3>3. /\ jar'.session.token # NoToken /\ jar'.session.token.n = openings'
          /\ jar'.session.until = jar'.session.token.until
          /\ \A k \in Around' : k.until <= jar'.session.until
      BY <3>1, <3>2, <1>1, <1>2
    <3> QED BY <3>3, <2>1, <1>1 DEF CookieIsLast
  <2>2. CASE ~takesCookies BY <2>2, <1>1, <1>5 DEF SessionsInv, CookieIsLast
  <2> QED BY <2>1, <2>2
<1>11. ReadyHasToken' BY <1>1, <1>2, <1>3, <1>4 DEF SessionsInv, ReadyHasToken
<1>12. IdentityMovesForward
  <2>1. \A v \in Tabs : tabs[v].newest \in Nat BY <1>t DEF Tab
  <2> QED BY <2>1, <1>3, <1>4 DEF IdentityMovesForward
<1> QED BY <1>6, <1>9, <1>10, <1>11, <1>12 DEF SessionsInv

LEMMA BridgeTokenStep ==
  ASSUME SessionsInv, NEW t \in Tabs, BridgeToken(t)
  PROVE  SessionsInv' /\ IdentityMovesForward
<1>t. /\ SessionsTypeOK /\ tabs \in [Tabs -> Tab] /\ store \in Held /\ tabs[t].url \in Held
  BY DEF SessionsInv, SessionsTypeOK, Tab
<1>1. /\ store' = Carried(tabs[t].url, store)
      /\ tabs' = [tabs EXCEPT ![t].pc = "ready", ![t].url = NoToken]
      /\ tabs[t].pc = "loaded"
      /\ UNCHANGED <<takesCookies, hour, openings, jar, verdict>>
  BY DEF BridgeToken
<1>2. /\ tabs' \in [Tabs -> Tab] /\ tabs'[t].pc = "ready" /\ tabs'[t].url = NoToken /\ tabs'[t].newest = tabs[t].newest
      /\ \A v \in Tabs : v # t => tabs'[v] = tabs[v]
  <2>1. tabs[t] \in Tab /\ NoToken \in Held BY <1>t DEF Held
  <2>2. [tabs[t] EXCEPT !.pc = "ready", !.url = NoToken] \in Tab BY <2>1 DEF Tab
  <2> QED BY <1>1, <1>t, <2>2, <2>1 DEF Tab
<1>3. store' \in Held /\ store' \in {store, tabs[t].url} /\ store' # NoToken
  BY <1>1, <1>t DEF Carried, SessionsInv, ReadyHasToken
<1>4. SessionsTypeOK' BY <1>t, <1>1, <1>2, <1>3 DEF SessionsTypeOK
<1>5. Around' \subseteq Around
  <2>1. \A v \in Tabs : tabs'[v].url \in {tabs[v].url, NoToken} BY <1>2
  <2> QED BY <2>1, <1>1, <1>3 DEF Around
<1>6. TokensSound' BY <1>1, <1>2, <1>5 DEF SessionsInv, TokensSound
<1>7. CookieIsLast' BY <1>1, <1>5, CookieStaysLast
<1>8. ReadyHasToken' BY <1>1, <1>2, <1>3 DEF SessionsInv, ReadyHasToken
<1>9. IdentityMovesForward
  <2>1. \A v \in Tabs : tabs[v].newest \in Nat /\ tabs'[v].newest = tabs[v].newest BY <1>t, <1>2 DEF Tab
  <2> QED BY <2>1 DEF IdentityMovesForward
<1> QED BY <1>4, <1>6, <1>7, <1>8, <1>9 DEF SessionsInv

LEMMA OperatorStep ==
  ASSUME SessionsInv, OperatorLogin \/ OperatorLogout \/ OperatorWrite
  PROVE  SessionsInv' /\ IdentityMovesForward
<1>t. SessionsTypeOK /\ jar \in Jar /\ hour \in Nat /\ tabs \in [Tabs -> Tab] BY DEF SessionsInv, SessionsTypeOK
<1>1. /\ UNCHANGED <<takesCookies, hour, openings, store, tabs>>
      /\ verdict' = verdict \/ verdict'.of = "operator"
  BY DEF OperatorLogin, OperatorLogout, OperatorWrite
<1>2. jar' \in Jar /\ jar'.session = jar.session
  <2>1. hour + OperatorLife \in Nat /\ hour + Life \in Nat /\ 0 \in Nat BY <1>t, NoTokenApart
  <2>2. CASE OperatorLogin BY <2>1, <2>2, <1>t DEF OperatorLogin, Jar
  <2>3. CASE OperatorLogout BY <2>1, <2>3, <1>t DEF OperatorLogout, Jar
  <2>4. CASE OperatorWrite BY <2>4, <1>t DEF OperatorWrite
  <2> QED BY <2>2, <2>3, <2>4
<1>3. SessionsTypeOK' BY <1>t, <1>1, <1>2 DEF SessionsTypeOK
<1>4. Around' = Around BY <1>1, <1>2 DEF Around
<1>5. TokensSound' BY <1>1, <1>4 DEF SessionsInv, TokensSound
<1>6. CookieIsLast' BY <1>1, <1>2, <1>4, CookieStaysLast
<1>7. ReadyHasToken' BY <1>1 DEF SessionsInv, ReadyHasToken
<1>8. IdentityMovesForward
  <2>1. \A v \in Tabs : tabs[v].newest \in Nat BY <1>t DEF Tab
  <2> QED BY <2>1, <1>1 DEF IdentityMovesForward
<1> QED BY <1>3, <1>5, <1>6, <1>7, <1>8 DEF SessionsInv

LEMMA HourStep ==
  ASSUME SessionsInv, HourPasses
  PROVE  SessionsInv' /\ IdentityMovesForward
<1>t. SessionsTypeOK /\ hour \in Nat /\ tabs \in [Tabs -> Tab] BY DEF SessionsInv, SessionsTypeOK
<1>1. hour' = hour + 1 /\ UNCHANGED <<takesCookies, openings, jar, store, tabs, verdict>> BY DEF HourPasses
<1>2. SessionsTypeOK' BY <1>t, <1>1 DEF SessionsTypeOK
<1>3. Around' = Around BY <1>1 DEF Around
<1>4. \A k \in Around : k.until \in Nat BY <1>t, AroundIsTokens
<1>5. TokensSound' BY <1>1, <1>3, <1>4, <1>t, NoTokenApart DEF SessionsInv, TokensSound
<1>6. CookieIsLast'
  <2>1. CASE takesCookies
    <3>1. (\A k \in Around : k.until <= hour) => \A k \in Around' : k.until <= hour'
      BY <1>1, <1>3, <1>4, <1>t
    <3> QED BY <2>1, <3>1, <1>1, <1>3 DEF SessionsInv, CookieIsLast
  <2>2. CASE ~takesCookies BY <2>2, <1>1 DEF SessionsInv, CookieIsLast
  <2> QED BY <2>1, <2>2
<1>7. ReadyHasToken' BY <1>1 DEF SessionsInv, ReadyHasToken
<1>8. IdentityMovesForward
  <2>1. \A v \in Tabs : tabs[v].newest \in Nat BY <1>t DEF Tab
  <2> QED BY <2>1, <1>1 DEF IdentityMovesForward
<1> QED BY <1>2, <1>5, <1>6, <1>7, <1>8 DEF SessionsInv

LEMMA SessionsStep ==
  ASSUME SessionsInv, [SessionsNext]_sessionVars
  PROVE  SessionsInv' /\ (IdentityMovesForward \/ UNCHANGED sessionVars)
<1>1. CASE SessionsNext
  BY <1>1, OpenAppStep, LoadPageStep, BridgeTokenStep, FetchStep, OperatorStep, HourStep DEF SessionsNext
<1>2. CASE UNCHANGED sessionVars
  <2>1. UNCHANGED <<takesCookies, hour, openings, jar, store, tabs, verdict>> BY <1>2 DEF sessionVars
  <2>2. Around' = Around BY <2>1 DEF Around
  <2>3. SessionsTypeOK' BY <2>1 DEF SessionsInv, SessionsTypeOK
  <2>4. TokensSound' /\ CookieIsLast' /\ ReadyHasToken'
    BY <2>1, <2>2 DEF SessionsInv, TokensSound, CookieIsLast, ReadyHasToken
  <2> QED BY <1>2, <2>3, <2>4 DEF SessionsInv
<1> QED BY <1>1, <1>2

LEMMA SessionsInitInv == SessionsInit => SessionsInv
<1> SUFFICES ASSUME SessionsInit PROVE SessionsInv OBVIOUS
<1>1. NoToken \in Held /\ NoCookie = [token |-> NoToken, until |-> 0] BY DEF Held, NoCookie
<1>2. Closed \in Tab /\ Closed.pc = "closed" /\ Closed.url = NoToken /\ Closed.newest = 0
  BY <1>1 DEF Tab, Closed
<1>3. /\ tabs = [t \in Tabs |-> Closed] /\ store = NoToken /\ hour = 0 /\ openings = 0 /\ takesCookies \in BOOLEAN
      /\ jar = [session |-> NoCookie, csrf |-> 0, operator |-> 0]
      /\ verdict.of = "none"
  BY DEF SessionsInit
<1>4. jar \in Jar /\ jar.session = NoCookie /\ jar.session.token = NoToken BY <1>1, <1>3 DEF Jar
<1>5. SessionsTypeOK BY <1>1, <1>2, <1>3, <1>4 DEF SessionsTypeOK
<1>6. Around = {} BY <1>2, <1>3, <1>4 DEF Around
<1>7. TokensSound BY <1>2, <1>3, <1>6 DEF TokensSound
<1>8. CookieIsLast BY <1>4, <1>6 DEF CookieIsLast
<1>9. ReadyHasToken BY <1>2, <1>3 DEF ReadyHasToken
<1> QED BY <1>5, <1>7, <1>8, <1>9 DEF SessionsInv

(* A tab is served as the one who opened it, reading and writing, however  *)
(* many tabs of however many visitors share the browser, and whether or    *)
(* not it keeps cookies (proxy, lib/auth, lib/csrf, token-bridge).         *)
THEOREM TabsAreServedAsOpened == SessionsSpec => ServedAsOpened
<1>1. SessionsInv => SignedInCanWrite BY DEF SessionsInv, ReadyHasToken, SignedInCanWrite
<1>2. SessionsInv' => SignedInCanWrite' BY DEF SessionsInv, ReadyHasToken, SignedInCanWrite
<1>3. SessionsInv => FreshOpeningServed BY LoadPageStep DEF FreshOpeningServed
<1>4. SessionsInv /\ [SessionsNext]_sessionVars
        => SessionsInv' /\ [SignedInCanWrite' /\ IdentityMovesForward /\ FreshOpeningServed]_sessionVars
  BY <1>2, <1>3, SessionsStep
<1> QED BY <1>1, <1>4, SessionsInitInv, PTL DEF SessionsSpec, ServedAsOpened


-----------------------------------------------------------------------------
(* Tokens.                                                                 *)

LEMMA NoneApart == None \notin Nat /\ Admins \subseteq People /\ RefreshOnce \in BOOLEAN
BY AdminsAssumption

LEMMA TokenFacts ==
  ASSUME TokenTypeOK
  PROVE  /\ Len(pairs) \in Nat /\ DOMAIN pairs = 1 .. Len(pairs)
         /\ \A p \in DOMAIN pairs : p \in Nat /\ p # None /\ pairs[p] \in Pair
         /\ portal.exists \in BOOLEAN /\ portal.era \in Nat /\ portal.active \in BOOLEAN
         /\ IsPair(portal.auth) /\ portal.auth \in Ref /\ portal.refresh \in Ref
         /\ \A r \in Requests :
              /\ reqs[r] \in Req /\ reqs[r].era \in Nat
              /\ IsPair(reqs[r].pair) /\ IsPair(reqs[r].saw) /\ IsPair(reqs[r].auth) /\ IsPair(reqs[r].refresh)
<1>1. pairs \in Seq(Pair) /\ portal \in Row /\ reqs \in [Requests -> Req] BY DEF TokenTypeOK
<1>2. Len(pairs) \in Nat /\ DOMAIN pairs = 1 .. Len(pairs) BY <1>1
<1>3. \A p \in DOMAIN pairs : p \in Nat /\ p # None /\ pairs[p] \in Pair BY <1>1, <1>2, NoneApart
<1>4. portal.exists \in BOOLEAN /\ portal.era \in Nat /\ portal.active \in BOOLEAN
      /\ portal.auth \in Ref /\ portal.refresh \in Ref
  BY <1>1 DEF Row
<1>5. \A r \in Requests : reqs[r] \in Req /\ reqs[r].era \in Nat BY <1>1 DEF Req
<1> QED BY <1>2, <1>3, <1>4, <1>5 DEF TokenTypeOK

LEMMA FreeReq == Free \in Req /\ Free.pc = "none" /\ Free.era = 0 /\ Free.refresh = None
                 /\ Free.pair = None /\ Free.saw = None /\ Free.auth = None
BY DEF Free, Req, PCs, Ref

LEMMA NoRow ==
  /\ NoPortal \in Row /\ ~NoPortal.exists /\ NoPortal.era = 0 /\ ~NoPortal.active
  /\ NoPortal.auth = None /\ NoPortal.refresh = None
<1>1. None \in Ref /\ 0 \in Nat /\ FALSE \in BOOLEAN BY DEF Ref
<1>2. NoPortal \in Row BY <1>1 DEF NoPortal, Row
<1>3. NoPortal.era = 0 /\ NoPortal.auth = None /\ NoPortal.refresh = None BY DEF NoPortal
<1>4. NoPortal.exists = FALSE /\ NoPortal.active = FALSE BY DEF NoPortal
<1> QED BY <1>2, <1>3, <1>4

(* A request takes a step.                                                 *)
LEMMA StepDoes ==
  ASSUME TokenTypeOK, NEW r \in Requests, NEW q \in Req, Step(r, q)
  PROVE  /\ reqs' \in [Requests -> Req] /\ reqs'[r] = q
         /\ \A o \in Requests : o # r => reqs'[o] = reqs[o]
BY DEF TokenTypeOK, Step

CategoriesTyped == seeds \in Nat /\ stocked \in BOOLEAN /\ overtaken \in SUBSET Requests

(* Nothing happens to the categories, or all are gone.                     *)
LEMMA SeedsStay ==
  ASSUME TokenInv, (stocked' = stocked /\ overtaken' = overtaken) \/ ~stocked',
         \A r \in Requests : reqs'[r].pc = "seed" =>
           reqs[r].pc = "seed" /\ reqs'[r].era = reqs[r].era /\ (Here(r)' => Here(r))
  PROVE  SeedersSound'
BY DEF TokenInv, SeedersSound

(* A request goes on without a pair of its own, and nothing else changes.  *)
LEMMA QuietStep ==
  ASSUME TokenInv, NEW r \in Requests, NEW q \in Req, Step(r, q),
         pairs' = pairs, portal' = portal, lost \subseteq lost', revived' = revived, CategoriesTyped',
         q.era <= portal.era,
         q.pc \notin {"look", "upsert", "store"},
         IsPair(q.pair), IsPair(q.saw), IsPair(q.auth),
         q.pc = "oauth" => q.refresh # None /\ q.refresh = q.saw,
         \/ q.refresh = None
         \/ q.refresh = reqs[r].refresh /\ q.era = reqs[r].era
         \/ q.refresh = portal.refresh /\ portal.exists /\ portal.era = q.era,
         reqs[r].pc = "store" /\ reqs[r].refresh = portal.refresh =>
           Dead(portal.refresh) \/ portal.refresh \in lost'
  PROVE  /\ TokenTypeOK' /\ RowSound' /\ OwnIsOwn' /\ OpenersSound' /\ RefreshersSound'
         /\ RefreshTokenWorks' /\ ActiveHasToken'
<1>t. TokenTypeOK /\ RowSound /\ OwnIsOwn /\ OpenersSound /\ RefreshersSound BY DEF TokenInv
<1>1. /\ reqs' \in [Requests -> Req] /\ reqs'[r] = q
      /\ \A o \in Requests : o # r => reqs'[o] = reqs[o]
  BY <1>t, StepDoes
<1>2. IsPair(q.refresh) BY <1>t, TokenFacts DEF RowSound, IsPair
<1>3. TokenTypeOK' BY <1>t, <1>1, <1>2 DEF TokenTypeOK, IsPair, CategoriesTyped
<1>4. RowSound' BY <1>t, <1>1 DEF RowSound, Dead
<1>5. Own(r)' = None /\ \A o \in Requests : o # r => Own(o)' = Own(o)
  BY <1>1 DEF Own, OwnOf
<1>6. OwnIsOwn'
  <2> SUFFICES ASSUME NEW o \in Requests, Own(o)' # None
               PROVE  /\ pairs[Own(o)'].usable /\ portal.auth # Own(o)'
                      /\ \A p \in Requests : reqs'[p].refresh # Own(o)' /\ (Own(p)' = Own(o)' => p = o)
    BY DEF OwnIsOwn
  <2>1. o # r /\ Own(o)' = Own(o) BY <1>5
  <2>2. /\ pairs[Own(o)].usable /\ portal.auth # Own(o)
        /\ \A p \in Requests : reqs[p].refresh # Own(o) /\ (Own(p) = Own(o) => p = o)
    BY <1>t, <2>1 DEF OwnIsOwn
  <2>3. q.refresh # Own(o) BY <1>t, <2>1, <2>2 DEF RowSound
  <2> QED BY <2>1, <2>2, <2>3, <1>1, <1>5
<1>7. OpenersSound' BY <1>t, <1>1 DEF OpenersSound, Dead
<1>8. RefreshersSound'
  <2> SUFFICES ASSUME NEW o \in Requests
               PROVE  /\ reqs'[o].pc \in {"oauth", "store"} => reqs'[o].refresh # None /\ reqs'[o].refresh = reqs'[o].saw
                      /\ reqs'[o].pc = "store" =>
                           /\ reqs'[o].auth # None /\ pairs[reqs'[o].auth].by = pairs[reqs'[o].saw].by
                           /\ ~portal.active => Dead(reqs'[o].auth)
                      /\ ~Here(o)' \/ ~portal.active => Dead(reqs'[o].refresh)
    BY DEF RefreshersSound, Dead
  <2>1. CASE o # r BY <1>t, <1>1, <2>1 DEF RefreshersSound, Here
  <2>2. CASE o = r
    <3>1. ASSUME ~Here(r)' \/ ~portal.active PROVE Dead(q.refresh)
      <4>1. CASE q.refresh = None BY <4>1 DEF Dead
      <4>2. CASE q.refresh = reqs[r].refresh /\ q.era = reqs[r].era
        BY <1>t, <1>1, <3>1, <4>2 DEF RefreshersSound, Here
      <4>3. CASE q.refresh = portal.refresh /\ portal.exists /\ portal.era = q.era
        BY <1>t, <1>1, <3>1, <4>3 DEF RowSound, Here
      <4> QED BY <4>1, <4>2, <4>3
    <3> QED BY <2>2, <3>1, <1>1
  <2> QED BY <2>1, <2>2
<1>9. RefreshTokenWorks'
  <2> SUFFICES ASSUME portal.refresh # None, pairs[portal.refresh].alive
               PROVE  \/ pairs[portal.refresh].usable
                      \/ portal.refresh \in lost'
                      \/ \E o \in Requests : reqs'[o].pc = "store" /\ reqs'[o].refresh = portal.refresh
    BY DEF RefreshTokenWorks, At
  <2>1. CASE \E o \in Requests : reqs[o].pc = "store" /\ reqs[o].refresh = portal.refresh
    <3>1. PICK o \in Requests : reqs[o].pc = "store" /\ reqs[o].refresh = portal.refresh BY <2>1
    <3>2. o # r \/ portal.refresh \in lost' BY <3>1 DEF Dead
    <3> QED BY <3>1, <3>2, <1>1
  <2> QED BY <2>1 DEF TokenInv, RefreshTokenWorks, At
<1>10. ActiveHasToken' BY DEF TokenInv, ActiveHasToken
<1> QED BY <1>3, <1>4, <1>6, <1>7, <1>8, <1>9, <1>10


(* The row of the portal and what its token is of stay the same.           *)
LEMMA RowStays ==
  ASSUME TokenInv, portal' = portal, \A p \in DOMAIN pairs : pairs'[p].by = pairs[p].by
  PROVE  AdminTokenStays /\ UninstallForgets
<1>1. portal.auth # None => pairs'[portal.auth].by = pairs[portal.auth].by
  BY DEF TokenInv, TokenTypeOK, IsPair
<1> QED BY <1>1 DEF AdminTokenStays, UninstallForgets

(* Quiet steps that leave the categories alone.                            *)
LEMMA QuietStepKeeps ==
  ASSUME TokenInv, NEW r \in Requests, NEW q \in Req, Step(r, q),
         UNCHANGED <<pairs, portal, revived>>, UNCHANGED categoryVars, lost \subseteq lost',
         q.era <= portal.era,
         q.pc \notin {"look", "upsert", "store", "seed"},
         IsPair(q.pair), IsPair(q.saw), IsPair(q.auth),
         q.pc = "oauth" => q.refresh # None /\ q.refresh = q.saw,
         \/ q.refresh = None
         \/ q.refresh = reqs[r].refresh /\ q.era = reqs[r].era
         \/ q.refresh = portal.refresh /\ portal.exists /\ portal.era = q.era,
         reqs[r].pc = "store" /\ reqs[r].refresh = portal.refresh =>
           Dead(portal.refresh) \/ portal.refresh \in lost'
  PROVE  TokenInv' /\ AdminTokenStays /\ UninstallForgets
<1>t. TokenTypeOK /\ CategoriesTyped' /\ stocked' = stocked /\ overtaken' = overtaken
  BY DEF TokenInv, TokenTypeOK, CategoriesTyped, categoryVars
<1>1. /\ TokenTypeOK' /\ RowSound' /\ OwnIsOwn' /\ OpenersSound' /\ RefreshersSound'
      /\ RefreshTokenWorks' /\ ActiveHasToken'
  BY <1>t, QuietStep
<1>2. /\ reqs'[r] = q
      /\ \A o \in Requests : o # r => reqs'[o] = reqs[o]
  BY <1>t, StepDoes
<1>3. SeedersSound'
  <2>1. \A o \in Requests : reqs'[o].pc = "seed" =>
           reqs[o].pc = "seed" /\ reqs'[o].era = reqs[o].era /\ (Here(o)' => Here(o))
    BY <1>2 DEF Here
  <2> QED BY <2>1, <1>t, SeedsStay
<1>4. AdminTokenStays /\ UninstallForgets BY RowStays
<1> QED BY <1>1, <1>3, <1>4 DEF TokenInv

(* The next call of a request, or its end.                                 *)
LEMMA DoneIs ==
  ASSUME TokenTypeOK, NEW r \in Requests, Done(r)
  PROVE  \E q \in Req :
           /\ Step(r, q) /\ q.pc \in {"none", "call"}
           /\ \/ /\ q.pair = None /\ q.saw = None /\ q.auth = None /\ q.refresh = None /\ q.era = 0
              \/ /\ q.pair = reqs[r].pair /\ q.saw = reqs[r].saw /\ q.auth = reqs[r].auth
                 /\ q.refresh = reqs[r].refresh /\ q.era = reqs[r].era
<1>t. reqs[r] \in Req BY TokenFacts
<1>1. CASE reqs[r].calls = 1
  <2>1. Step(r, Free) BY <1>1 DEF Done
  <2> QED BY <2>1, FreeReq
<1>2. CASE reqs[r].calls # 1
  <2> DEFINE q == [reqs[r] EXCEPT !.pc = "call", !.calls = @ - 1, !.retried = FALSE]
  <2>1. Step(r, q) BY <1>2 DEF Done
  <2>2. /\ q \in Req /\ q.pc = "call" /\ q.era = reqs[r].era /\ q.refresh = reqs[r].refresh
        /\ q.pair = reqs[r].pair /\ q.saw = reqs[r].saw /\ q.auth = reqs[r].auth
    <3>1. reqs[r].calls \in Int BY <1>t DEF Req
    <3>2. PICK calls \in Int : calls = reqs[r].calls - 1 BY <3>1
    <3>3. q = [reqs[r] EXCEPT !.pc = "call", !.calls = calls, !.retried = FALSE] BY <3>2
    <3> HIDE DEF q
    <3> QED BY <3>3, <1>t DEF Req, PCs
  <2> HIDE DEF q
  <2> QED BY <2>1, <2>2
<1> QED BY <1>1, <1>2

LEMMA DoneStep ==
  ASSUME TokenInv, NEW r \in Requests, Done(r),
         UNCHANGED <<pairs, portal, revived>>, UNCHANGED categoryVars, lost \subseteq lost',
         reqs[r].pc = "store" /\ reqs[r].refresh = portal.refresh =>
           Dead(portal.refresh) \/ portal.refresh \in lost'
  PROVE  TokenInv' /\ AdminTokenStays /\ UninstallForgets
<1>t. TokenTypeOK /\ RowSound BY DEF TokenInv
<1>1. /\ reqs[r].era <= portal.era /\ 0 <= portal.era /\ IsPair(None)
      /\ IsPair(reqs[r].pair) /\ IsPair(reqs[r].saw) /\ IsPair(reqs[r].auth)
  BY <1>t, TokenFacts DEF RowSound, IsPair
<1>2. PICK q \in Req :
        /\ Step(r, q) /\ q.pc \in {"none", "call"}
        /\ \/ /\ q.pair = None /\ q.saw = None /\ q.auth = None /\ q.refresh = None /\ q.era = 0
           \/ /\ q.pair = reqs[r].pair /\ q.saw = reqs[r].saw /\ q.auth = reqs[r].auth
              /\ q.refresh = reqs[r].refresh /\ q.era = reqs[r].era
  BY <1>t, DoneIs
<1>3. q.era <= portal.era /\ IsPair(q.pair) /\ IsPair(q.saw) /\ IsPair(q.auth)
  BY <1>1, <1>2
<1>4. /\ q.refresh = None \/ (q.refresh = reqs[r].refresh /\ q.era = reqs[r].era)
      /\ q.pc # "oauth"
  BY <1>2
<1> QED BY <1>2, <1>3, <1>4, QuietStepKeeps

LEMMA CallSteps ==
  ASSUME TokenInv, NEW r \in Requests, Background(r) \/ Call(r) \/ Reread(r) \/ Reload(r)
  PROVE  TokenInv' /\ AdminTokenStays /\ UninstallForgets
<1>t. TokenTypeOK /\ RowSound /\ reqs[r] \in Req BY TokenFacts DEF TokenInv
<1>f. /\ reqs[r].era <= portal.era /\ reqs[r].era \in Nat /\ portal.era \in Nat
      /\ IsPair(reqs[r].pair) /\ IsPair(reqs[r].saw) /\ IsPair(reqs[r].auth)
      /\ IsPair(portal.auth) /\ portal.auth \in Ref /\ portal.refresh = portal.auth /\ IsPair(None)
  BY <1>t, TokenFacts DEF RowSound, IsPair
<1>u. UNCHANGED <<pairs, portal, revived>> /\ UNCHANGED categoryVars /\ lost \subseteq lost'
  BY DEF Background, Call, Reread, Reload
<1>1. CASE Background(r)
  <2> DEFINE q == [Free EXCEPT !.op = "page", !.pc = "call", !.era = portal.era, !.auth = portal.auth,
                               !.saw = portal.auth, !.calls = 1]
  <2>1. Step(r, q) BY <1>1 DEF Background
  <2>2. /\ q \in Req /\ q.pc = "call" /\ q.era = portal.era /\ q.refresh = None
        /\ q.pair = None /\ q.saw = portal.auth /\ q.auth = portal.auth
    <3>1. /\ q.pc = "call" /\ q.era = portal.era /\ q.refresh = None
          /\ q.pair = None /\ q.saw = portal.auth /\ q.auth = portal.auth
      BY FreeReq DEF Req
    <3>2. portal.era \in Nat /\ portal.auth \in Ref BY <1>f
    <3>3. None \in Ref /\ 0 \in Nat /\ FALSE \in BOOLEAN /\ 1 \in Int BY DEF Ref
    <3>4. "call" \in PCs BY DEF PCs
    <3> DEFINE free == Free
               era == portal.era
               auth == portal.auth
               calls == 1
    <3>5. calls \in Int /\ free \in Req /\ era \in Nat /\ auth \in Ref BY <3>2, FreeReq
    <3>6. q = [free EXCEPT !.op = "page", !.pc = "call", !.era = era, !.auth = auth, !.saw = auth,
                        !.calls = calls]
      OBVIOUS
    <3> HIDE DEF free, era, auth, calls, q
    <3>7. q \in Req BY <3>4, <3>5, <3>6 DEF Req
    <3> QED BY <3>1, <3>7
  <2>3. reqs[r].pc # "store" BY <1>1, FreeReq DEF Background
  <2> HIDE DEF q
  <2> QED BY <2>1, <2>2, <2>3, <1>f, <1>u, QuietStepKeeps
<1>2. CASE Call(r)
  <2>0. reqs[r].pc # "store" BY <1>2 DEF Call, At
  <2>1. CASE Done(r) BY <2>0, <2>1, <1>u, DoneStep
  <2>2. CASE Step(r, [reqs[r] EXCEPT !.pc = "reread"])
    <3> DEFINE q == [reqs[r] EXCEPT !.pc = "reread"]
    <3>1. /\ q \in Req /\ q.pc = "reread" /\ q.era = reqs[r].era /\ q.refresh = reqs[r].refresh
          /\ q.pair = reqs[r].pair /\ q.saw = reqs[r].saw /\ q.auth = reqs[r].auth
      BY <1>t DEF Req, PCs
    <3>2. Step(r, q) BY <2>2
    <3> HIDE DEF q
    <3> QED BY <3>1, <3>2, <2>0, <1>f, <1>u, QuietStepKeeps
  <2> QED BY <1>2, <2>1, <2>2 DEF Call
<1>3. CASE Reread(r)
  <2>0. reqs[r].pc # "store" BY <1>3 DEF Reread, At
  <2>1. CASE Done(r) BY <2>0, <2>1, <1>u, DoneStep
  <2>2. CASE /\ Here(r) /\ portal.refresh # None
             /\ Step(r, [reqs[r] EXCEPT !.pc = "oauth", !.refresh = portal.refresh, !.saw = portal.auth])
    <3> DEFINE q == [reqs[r] EXCEPT !.pc = "oauth", !.refresh = portal.refresh, !.saw = portal.auth]
    <3>1. /\ q \in Req /\ q.pc = "oauth" /\ q.era = reqs[r].era /\ q.refresh = portal.refresh
          /\ q.pair = reqs[r].pair /\ q.saw = portal.auth /\ q.auth = reqs[r].auth
      BY <1>t, <1>f DEF Req, PCs
    <3>2. Step(r, q) /\ portal.exists /\ portal.era = reqs[r].era /\ portal.refresh # None BY <2>2 DEF Here
    <3> HIDE DEF q
    <3> QED BY <3>1, <3>2, <2>0, <1>f, <1>u, QuietStepKeeps
  <2> QED BY <1>3, <2>1, <2>2 DEF Reread
<1>4. CASE Reload(r)
  <2>0. reqs[r].pc # "store" BY <1>4 DEF Reload, At
  <2>1. CASE Done(r) BY <2>0, <2>1, <1>u, DoneStep
  <2>2. CASE Step(r, [reqs[r] EXCEPT !.pc = "call", !.auth = portal.auth, !.retried = TRUE])
    <3> DEFINE q == [reqs[r] EXCEPT !.pc = "call", !.auth = portal.auth, !.retried = TRUE]
    <3>1. /\ q \in Req /\ q.pc = "call" /\ q.era = reqs[r].era /\ q.refresh = reqs[r].refresh
          /\ q.pair = reqs[r].pair /\ q.saw = reqs[r].saw /\ q.auth = portal.auth
      BY <1>t, <1>f DEF Req, PCs
    <3>2. Step(r, q) BY <2>2
    <3> HIDE DEF q
    <3> QED BY <3>1, <3>2, <2>0, <1>f, <1>u, QuietStepKeeps
  <2> QED BY <1>4, <2>1, <2>2 DEF Reload
<1> QED BY <1>1, <1>2, <1>3, <1>4

(* The default categories.                                                 *)
LEMMA CountStep ==
  ASSUME TokenInv, NEW r \in Requests, CountCategories(r)
  PROVE  TokenInv' /\ AdminTokenStays /\ UninstallForgets
<1>t. TokenTypeOK /\ RowSound /\ reqs[r] \in Req BY TokenFacts DEF TokenInv
<1>f. /\ reqs[r].era <= portal.era
      /\ IsPair(reqs[r].pair) /\ IsPair(reqs[r].saw) /\ IsPair(reqs[r].auth)
  BY <1>t, TokenFacts DEF RowSound
<1>1. PICK pc \in {"call", "seed"} :
        /\ Step(r, [reqs[r] EXCEPT !.pc = pc])
        /\ pc = "seed" <=> ~(Here(r) /\ stocked)
  BY DEF CountCategories
<1>2. /\ reqs[r].pc = "count"
      /\ UNCHANGED <<installed, pairs, portal, categoryVars, lost, revived>>
  BY DEF CountCategories, At
<1>c. CategoriesTyped' /\ stocked' = stocked /\ overtaken' = overtaken
  BY <1>t, <1>2 DEF TokenTypeOK, CategoriesTyped, categoryVars
<1> DEFINE q == [reqs[r] EXCEPT !.pc = pc]
<1>3. /\ q \in Req /\ q.pc = pc /\ q.era = reqs[r].era /\ q.refresh = reqs[r].refresh
      /\ q.pair = reqs[r].pair /\ q.saw = reqs[r].saw /\ q.auth = reqs[r].auth
  BY <1>t DEF Req, PCs
<1>4. Step(r, q) BY <1>1
<1> HIDE DEF q
<1>5. /\ TokenTypeOK' /\ RowSound' /\ OwnIsOwn' /\ OpenersSound' /\ RefreshersSound'
      /\ RefreshTokenWorks' /\ ActiveHasToken'
  BY <1>2, <1>3, <1>4, <1>c, <1>f, <1>t, QuietStep
<1>6. /\ reqs'[r] = q
      /\ \A o \in Requests : o # r => reqs'[o] = reqs[o]
  BY <1>t, <1>3, <1>4, StepDoes
<1>7. SeedersSound'
  <2>1. \A o \in Requests : Here(o)' <=> Here(o) BY <1>2, <1>3, <1>6 DEF Here
  <2> QED BY <2>1, <1>1, <1>3, <1>6, <1>c DEF TokenInv, SeedersSound
<1>8. AdminTokenStays /\ UninstallForgets BY <1>2, RowStays
<1> QED BY <1>5, <1>7, <1>8 DEF TokenInv

LEMMA SeedStep ==
  ASSUME TokenInv, NEW r \in Requests, SeedCategories(r)
  PROVE  TokenInv' /\ AdminTokenStays /\ UninstallForgets
<1>t. TokenTypeOK /\ RowSound /\ reqs[r] \in Req /\ seeds \in Nat
  BY TokenFacts DEF TokenInv, TokenTypeOK
<1>f. /\ reqs[r].era <= portal.era /\ 0 <= portal.era /\ IsPair(None)
      /\ IsPair(reqs[r].pair) /\ IsPair(reqs[r].saw) /\ IsPair(reqs[r].auth)
  BY <1>t, TokenFacts DEF RowSound, IsPair
<1>1. reqs[r].pc = "seed" /\ UNCHANGED <<installed, pairs, portal, lost, revived>>
  BY DEF SeedCategories, At
<1>2. PICK q \in Req :
        /\ Step(r, q) /\ q.pc \in {"none", "call"} /\ q.era <= portal.era
        /\ q.refresh = None \/ (q.refresh = reqs[r].refresh /\ q.era = reqs[r].era)
        /\ IsPair(q.pair) /\ IsPair(q.saw) /\ IsPair(q.auth)
  <2>1. CASE Step(r, Free)
    BY <2>1, <1>f, FreeReq
  <2>2. CASE Step(r, [reqs[r] EXCEPT !.pc = "call"])
    <3> DEFINE q == [reqs[r] EXCEPT !.pc = "call"]
    <3>1. /\ q \in Req /\ q.pc = "call" /\ q.era = reqs[r].era /\ q.refresh = reqs[r].refresh
          /\ q.pair = reqs[r].pair /\ q.saw = reqs[r].saw /\ q.auth = reqs[r].auth
      BY <1>t DEF Req, PCs
    <3>2. Step(r, q) BY <2>2
    <3> HIDE DEF q
    <3> QED BY <3>1, <3>2, <1>f
  <2> QED BY <2>1, <2>2 DEF SeedCategories
<1>3. \/ stocked' = TRUE /\ overtaken' = AboutToSeed \ {r} /\ seeds' = seeds + 1
      \/ stocked' = stocked /\ overtaken' = overtaken \ {r} /\ seeds' = seeds
  BY DEF SeedCategories
<1>4. CategoriesTyped'
  <2>1. AboutToSeed \subseteq Requests BY DEF AboutToSeed
  <2>2. stocked \in BOOLEAN /\ overtaken \subseteq Requests BY <1>t DEF TokenTypeOK
  <2>3. seeds' = seeds + 1 \/ seeds' = seeds BY <1>3
  <2>5. seeds' \in Nat BY <2>3, <1>t
  <2>6. stocked' = TRUE \/ stocked' = stocked BY <1>3, Zenon
  <2>7. stocked' \in BOOLEAN BY <2>2, <2>6, Zenon
  <2>4. overtaken' \subseteq Requests BY <1>3, <2>1, <2>2
  <2> QED BY <2>4, <2>5, <2>7 DEF CategoriesTyped
<1>5. /\ TokenTypeOK' /\ RowSound' /\ OwnIsOwn' /\ OpenersSound' /\ RefreshersSound'
      /\ RefreshTokenWorks' /\ ActiveHasToken'
  BY <1>1, <1>2, <1>4, <1>t, QuietStep
<1>6. /\ reqs'[r] = q
      /\ \A o \in Requests : o # r => reqs'[o] = reqs[o]
  BY <1>t, <1>2, StepDoes
<1>7. SeedersSound'
  <2> SUFFICES ASSUME NEW o \in Requests, reqs'[o].pc = "seed", Here(o)', stocked'
               PROVE  o \in overtaken'
    BY DEF SeedersSound
  <2>1. o # r /\ reqs[o].pc = "seed" /\ Here(o) BY <1>1, <1>2, <1>6 DEF Here
  <2>2. o \in AboutToSeed BY <2>1 DEF AboutToSeed, At
  <2>3. stocked => o \in overtaken BY <2>1 DEF TokenInv, SeedersSound
  <2> QED BY <2>1, <2>2, <2>3, <1>3
<1>8. AdminTokenStays /\ UninstallForgets BY <1>1, RowStays
<1> QED BY <1>5, <1>7, <1>8 DEF TokenInv

LEMMA OwnIssued ==
  ASSUME TokenTypeOK
  PROVE  \A r \in Requests : IsPair(Own(r))
BY TokenFacts DEF Own, OwnOf, IsPair

(* A pair is issued: to a request that opens the app or refreshes, or in   *)
(* an answer that is lost.                                                 *)
LEMMA IssueStep ==
  ASSUME TokenInv, NEW r \in Requests, NEW q \in Req, Step(r, q),
         UNCHANGED <<portal, revived>>, UNCHANGED categoryVars, lost \subseteq lost',
         NEW n, n = Len(pairs) + 1,
         pairs' \in Seq(Pair), DOMAIN pairs' = DOMAIN pairs \cup {n}, pairs'[n].usable,
         \A p \in DOMAIN pairs :
           /\ pairs'[p].by = pairs[p].by /\ pairs'[p].alive = pairs[p].alive
           /\ \/ pairs'[p].usable = pairs[p].usable
              \/ p = reqs[r].refresh /\ (p \in lost' \/ (q.pc = "store" /\ p = q.refresh)),
         reqs[r].pc # "store", OwnOf(q) \in {n, None},
         \/ /\ q.pc = "look" /\ q.pair = n /\ q.refresh = None /\ q.era = 0
            /\ q.saw = None /\ q.auth = None /\ pairs'[n].by = q.user
         \/ /\ reqs[r].pc = "oauth" /\ q.pc = "store" /\ q.auth = n /\ q.refresh = reqs[r].refresh
            /\ q.era = reqs[r].era /\ q.saw = reqs[r].saw /\ q.pair = reqs[r].pair
            /\ pairs[q.refresh].alive /\ pairs'[n].by = pairs[q.refresh].by
         \/ /\ q.pc \in {"none", "call"}
            /\ \/ /\ q.pair = None /\ q.saw = None /\ q.auth = None /\ q.refresh = None /\ q.era = 0
               \/ /\ q.pair = reqs[r].pair /\ q.saw = reqs[r].saw /\ q.auth = reqs[r].auth
                  /\ q.refresh = reqs[r].refresh /\ q.era = reqs[r].era
  PROVE  TokenInv' /\ AdminTokenStays /\ UninstallForgets
<1> DEFINE IsPairNow(p) == p = None \/ p \in DOMAIN pairs'
           DeadNow(p) == p # None => ~pairs'[p].alive
<1>t. TokenTypeOK /\ RowSound /\ OwnIsOwn /\ OpenersSound /\ RefreshersSound BY DEF TokenInv
<1>f. /\ Len(pairs) \in Nat /\ DOMAIN pairs = 1 .. Len(pairs) /\ n \in Nat /\ n \notin DOMAIN pairs /\ n # None
      /\ \A p \in DOMAIN pairs : p # None
      /\ IsPair(portal.auth) /\ portal.era \in Nat
  <2>1. Len(pairs) \in Nat /\ DOMAIN pairs = 1 .. Len(pairs) BY <1>t, TokenFacts
  <2>2. n \in Nat /\ n \notin DOMAIN pairs BY <2>1
  <2> QED BY <2>1, <2>2, <1>t, TokenFacts, NoneApart
<1>g. \A o \in Requests : IsPair(reqs[o].pair) /\ IsPair(reqs[o].saw) /\ IsPair(reqs[o].auth) /\ IsPair(reqs[o].refresh)
  BY <1>t, TokenFacts
<1>1. /\ reqs' \in [Requests -> Req] /\ reqs'[r] = q
      /\ \A o \in Requests : o # r => reqs'[o] = reqs[o]
  BY <1>t, StepDoes
<1>2. IsPairNow(None) /\ IsPairNow(n) /\ \A p : IsPair(p) => IsPairNow(p) BY DEF IsPair
<1>3. TokenTypeOK'
  <2>1. \A o \in Requests :
       IsPairNow(reqs'[o].pair) /\ IsPairNow(reqs'[o].saw) /\ IsPairNow(reqs'[o].auth) /\ IsPairNow(reqs'[o].refresh)
    BY <1>1, <1>2, <1>g
  <2>2. IsPairNow(portal.auth) BY <1>f, <1>2
  <2> QED BY <1>t, <1>1, <2>1, <2>2 DEF TokenTypeOK, IsPair, categoryVars
<1>4. \A p : IsPair(p) => (DeadNow(p) <=> Dead(p)) BY DEF IsPair, Dead
<1>5. RowSound'
  <2>1. q.era <= portal.era BY <1>t, <1>f DEF RowSound
  <2> QED BY <1>t, <1>1, <1>4, <1>f, <2>1 DEF RowSound, Dead
<1>6. Own(r)' \in {n, None} /\ \A o \in Requests : o # r => Own(o)' = Own(o)
  BY <1>1 DEF Own, OwnOf
<1>7. OwnIsOwn'
  <2> SUFFICES ASSUME NEW o \in Requests, Own(o)' # None
               PROVE  /\ pairs'[Own(o)'].usable /\ portal.auth # Own(o)'
                      /\ \A p \in Requests : reqs'[p].refresh # Own(o)' /\ (Own(p)' = Own(o)' => p = o)
    BY DEF OwnIsOwn
  <2>0. \A p \in Requests : IsPair(Own(p)) BY <1>t, OwnIssued
  <2>1. CASE o = r
    <3>1. \A p \in Requests : p # r => Own(p) # n /\ reqs[p].refresh # n
      BY <2>0, <1>f, <1>g DEF IsPair
    <3>2. q.refresh # n BY <1>f, <1>g DEF IsPair
    <3>3. portal.auth # n BY <1>f DEF IsPair
    <3> QED BY <2>1, <3>1, <3>2, <3>3, <1>1, <1>6
  <2>2. CASE o # r
    <3>1. Own(o)' = Own(o) /\ Own(o) \in DOMAIN pairs /\ Own(o) # n BY <2>0, <2>2, <1>6, <1>f DEF IsPair
    <3>2. /\ pairs[Own(o)].usable /\ portal.auth # Own(o)
          /\ \A p \in Requests : reqs[p].refresh # Own(o) /\ (Own(p) = Own(o) => p = o)
      BY <1>t, <3>1, <1>f DEF OwnIsOwn
    <3>3. q.refresh # Own(o) BY <3>1, <3>2, <1>f
    <3>4. pairs'[Own(o)].usable BY <3>1, <3>2
    <3>5. Own(r)' # Own(o) BY <3>1, <1>6, <1>f
    <3> QED BY <3>1, <3>2, <3>3, <3>4, <3>5, <1>1, <1>6, <2>2
  <2> QED BY <2>1, <2>2
<1>8. OpenersSound'
  <2> SUFFICES ASSUME NEW o \in Requests
               PROVE  /\ reqs'[o].pc \in {"look", "upsert"} =>
                           reqs'[o].pair # None /\ pairs'[reqs'[o].pair].by = reqs'[o].user /\ reqs'[o].refresh = None
                      /\ reqs'[o].pc = "upsert" =>
                           IF reqs'[o].keep THEN reqs'[o].saw # None
                           ELSE reqs'[o].user \notin Admins => DeadNow(reqs'[o].saw)
    BY DEF OpenersSound, Dead
  <2>1. CASE o = r BY <2>1, <1>1, <1>f
  <2>2. CASE o # r
    <3>1. /\ reqs'[o] = reqs[o] /\ IsPair(reqs[o].pair) /\ IsPair(reqs[o].saw) BY <2>2, <1>1, <1>g
    <3>2. reqs[o].pair # None => pairs'[reqs[o].pair].by = pairs[reqs[o].pair].by BY <3>1 DEF IsPair
    <3> QED BY <3>1, <3>2, <1>4, <1>t DEF OpenersSound
  <2> QED BY <2>1, <2>2
<1>9. RefreshersSound'
  <2> SUFFICES ASSUME NEW o \in Requests
               PROVE  /\ reqs'[o].pc \in {"oauth", "store"} => reqs'[o].refresh # None /\ reqs'[o].refresh = reqs'[o].saw
                      /\ reqs'[o].pc = "store" =>
                           /\ reqs'[o].auth # None /\ pairs'[reqs'[o].auth].by = pairs'[reqs'[o].saw].by
                           /\ ~portal.active => DeadNow(reqs'[o].auth)
                      /\ ~Here(o)' \/ ~portal.active => DeadNow(reqs'[o].refresh)
    BY DEF RefreshersSound, Dead
  <2>0. /\ reqs[o].pc \in {"oauth", "store"} => reqs[o].refresh # None /\ reqs[o].refresh = reqs[o].saw
        /\ reqs[o].pc = "store" =>
             /\ reqs[o].auth # None /\ pairs[reqs[o].auth].by = pairs[reqs[o].saw].by
             /\ ~portal.active => Dead(reqs[o].auth)
        /\ ~Here(o) \/ ~portal.active => Dead(reqs[o].refresh)
        /\ IsPair(reqs[o].saw) /\ IsPair(reqs[o].auth) /\ IsPair(reqs[o].refresh)
    BY <1>t, <1>g DEF RefreshersSound
  <2>1. CASE o # r
    <3>1. reqs'[o] = reqs[o] /\ (Here(o)' <=> Here(o)) BY <2>1, <1>1 DEF Here
    <3>2. DeadNow(reqs[o].auth) <=> Dead(reqs[o].auth) BY <2>0, <1>4
    <3>3. DeadNow(reqs[o].refresh) <=> Dead(reqs[o].refresh) BY <2>0, <1>4
    <3>4. reqs[o].pc = "store" => /\ pairs'[reqs[o].auth].by = pairs[reqs[o].auth].by
                                  /\ pairs'[reqs[o].saw].by = pairs[reqs[o].saw].by
      BY <2>0 DEF IsPair
    <3> QED BY <2>0, <3>1, <3>2, <3>3, <3>4
  <2>2. CASE o = r /\ q.pc = "look"
    BY <2>2, <1>1 DEF Dead
  <2>3. CASE o = r /\ q.pc = "store"
    <3>1. /\ reqs[r].pc = "oauth" /\ q.auth = n /\ q.refresh = reqs[r].refresh
          /\ q.era = reqs[r].era /\ q.saw = reqs[r].saw
          /\ pairs[q.refresh].alive /\ pairs'[n].by = pairs[q.refresh].by
      BY <2>3
    <3>2. q.refresh # None /\ q.refresh = q.saw /\ q.refresh \in DOMAIN pairs BY <2>0, <2>3, <3>1 DEF IsPair
    <3>3. ~Dead(q.refresh) BY <3>1, <3>2 DEF Dead
    <3>4. portal.active /\ Here(r) BY <2>0, <2>3, <3>1, <3>3
    <3>5. Here(r)' BY <3>1, <3>4, <1>1 DEF Here
    <3>6. pairs'[q.saw].by = pairs[q.refresh].by BY <3>2
    <3> QED BY <2>3, <3>1, <3>2, <3>4, <3>5, <3>6, <1>1, <1>f
  <2>4. CASE o = r /\ q.pc \in {"none", "call"}
    <3>1. CASE q.refresh = None BY <2>4, <3>1, <1>1
    <3>2. CASE q.refresh = reqs[r].refresh /\ q.era = reqs[r].era
      <4>1. Here(r)' <=> Here(r) BY <3>2, <1>1 DEF Here
      <4>2. DeadNow(reqs[r].refresh) <=> Dead(reqs[r].refresh) BY <1>g, <1>4
      <4> QED BY <2>0, <2>4, <3>2, <4>1, <4>2, <1>1
    <3> QED BY <2>4, <3>1, <3>2
  <2> QED BY <2>1, <2>2, <2>3, <2>4
<1>10. RefreshTokenWorks'
  <2> SUFFICES ASSUME portal.refresh # None, pairs'[portal.refresh].alive
               PROVE  \/ pairs'[portal.refresh].usable
                      \/ portal.refresh \in lost'
                      \/ \E o \in Requests : reqs'[o].pc = "store" /\ reqs'[o].refresh = portal.refresh
    BY DEF RefreshTokenWorks, At
  <2>1. portal.refresh \in DOMAIN pairs BY <1>t, <1>f DEF RowSound, IsPair
  <2>2. \/ pairs[portal.refresh].usable
        \/ portal.refresh \in lost
        \/ \E o \in Requests : reqs[o].pc = "store" /\ reqs[o].refresh = portal.refresh
    BY <2>1 DEF TokenInv, RefreshTokenWorks, At
  <2>3. CASE \E o \in Requests : reqs[o].pc = "store" /\ reqs[o].refresh = portal.refresh
    <3>1. PICK o \in Requests : reqs[o].pc = "store" /\ reqs[o].refresh = portal.refresh BY <2>3
    <3> QED BY <3>1, <1>1
  <2>4. CASE pairs[portal.refresh].usable
    <3>1. CASE pairs'[portal.refresh].usable = pairs[portal.refresh].usable BY <2>4, <3>1
    <3>2. CASE q.pc = "store" /\ portal.refresh = q.refresh BY <3>2, <1>1
    <3>3. CASE portal.refresh \in lost' BY <3>3
    <3> QED BY <2>1, <3>1, <3>2, <3>3
  <2> QED BY <2>2, <2>3, <2>4
<1>11. ActiveHasToken' BY DEF TokenInv, ActiveHasToken
<1>12. SeedersSound'
  <2>1. q.pc # "seed" OBVIOUS
  <2>2. \A o \in Requests : reqs'[o].pc = "seed" =>
           reqs[o].pc = "seed" /\ reqs'[o].era = reqs[o].era /\ (Here(o)' => Here(o))
    BY <1>1, <2>1 DEF Here
  <2> QED BY <2>2, SeedsStay DEF categoryVars
<1>13. AdminTokenStays /\ UninstallForgets BY RowStays
<1> QED BY <1>3, <1>5, <1>7, <1>8, <1>9, <1>10, <1>11, <1>12, <1>13 DEF TokenInv


LEMMA OpenStep ==
  ASSUME TokenInv, NEW r \in Requests, Open(r)
  PROVE  TokenInv' /\ AdminTokenStays /\ UninstallForgets
<1>t. TokenTypeOK /\ pairs \in Seq(Pair) BY DEF TokenInv, TokenTypeOK
<1> DEFINE n == Len(pairs) + 1
<1>1. PICK u \in People :
        /\ reqs[r] = Free
        /\ Issue(u)
        /\ Step(r, [Free EXCEPT !.op = "open", !.pc = "look", !.user = u, !.pair = n, !.calls = 2])
        /\ UNCHANGED <<installed, portal, categoryVars, lost, revived>>
  BY DEF Open
<1> DEFINE new == [by |-> u, fresh |-> TRUE, usable |-> TRUE, alive |-> TRUE]
           q == [Free EXCEPT !.op = "open", !.pc = "look", !.user = u, !.pair = n, !.calls = 2]
<1>2. new \in Pair /\ new.usable /\ new.by = u BY DEF Pair
<1>3. pairs' = Append(pairs, new) BY <1>1 DEF Issue
<1> HIDE DEF new
<1>4. n \in Nat BY <1>t
<1>5. /\ pairs' \in Seq(Pair) /\ DOMAIN pairs' = DOMAIN pairs \cup {n} /\ pairs'[n] = new
      /\ \A p \in DOMAIN pairs : pairs'[p] = pairs[p]
  BY <1>t, <1>2, <1>3
<1>6. Step(r, q) BY <1>1
<1>7. /\ q \in Req /\ q.pc = "look" /\ q.user = u /\ q.pair = n /\ q.refresh = None /\ q.era = 0
      /\ q.saw = None /\ q.auth = None
  <2> DEFINE free == Free
             calls == 2
  <2>1. free \in Req /\ free.refresh = None /\ free.era = 0 /\ free.saw = None /\ free.auth = None /\ calls \in Int
    BY FreeReq
  <2>2. "look" \in PCs /\ n \in Ref /\ u \in People \cup {None} BY <1>4 DEF PCs, Ref
  <2>3. q = [free EXCEPT !.op = "open", !.pc = "look", !.user = u, !.pair = n, !.calls = calls] OBVIOUS
  <2> HIDE DEF free, calls, q, n
  <2>4. q \in Req BY <2>1, <2>2, <2>3 DEF Req
  <2>5. /\ q.pc = "look" /\ q.user = u /\ q.pair = n /\ q.refresh = None /\ q.era = 0
        /\ q.saw = None /\ q.auth = None
    BY <2>1, <2>3 DEF Req
  <2> QED BY <2>4, <2>5
<1> HIDE DEF q
<1>8. reqs[r].pc # "store" /\ OwnOf(q) = n BY <1>1, <1>7, FreeReq DEF OwnOf
<1>9. UNCHANGED <<portal, revived>> /\ UNCHANGED categoryVars /\ lost \subseteq lost' BY <1>1
<1>10. /\ pairs'[n].usable /\ pairs'[n].by = q.user
       /\ \A p \in DOMAIN pairs :
           /\ pairs'[p].by = pairs[p].by /\ pairs'[p].alive = pairs[p].alive
           /\ pairs'[p].usable = pairs[p].usable
  BY <1>2, <1>5, <1>7
<1> HIDE DEF n
<1>11. n = Len(pairs) + 1 BY DEF n
<1> QED BY <1>5, <1>6, <1>7, <1>8, <1>9, <1>10, <1>11, IssueStep

LEMMA OAuthStep ==
  ASSUME TokenInv, NEW r \in Requests, OAuth(r)
  PROVE  TokenInv' /\ AdminTokenStays /\ UninstallForgets
<1>t. TokenTypeOK /\ pairs \in Seq(Pair) /\ reqs[r] \in Req BY TokenFacts DEF TokenInv, TokenTypeOK
<1>0. /\ reqs[r].pc = "oauth"
      /\ UNCHANGED <<portal, revived>> /\ UNCHANGED categoryVars
  BY DEF OAuth, At
<1>1. CASE Done(r) /\ UNCHANGED <<pairs, lost>>
  BY <1>1, <1>0, DoneStep
<1>2. CASE ~(Done(r) /\ UNCHANGED <<pairs, lost>>)
  <2> DEFINE old == reqs[r].refresh
             n == Len(pairs) + 1
             new == [by |-> pairs[old].by, fresh |-> TRUE, usable |-> TRUE, alive |-> TRUE]
             spent == [pairs EXCEPT ![old].usable = ~RefreshOnce]
             next == [reqs[r] EXCEPT !.pc = "store", !.auth = n]
  <2>1. /\ pairs[old].usable /\ pairs[old].alive /\ pairs' = Append(spent, new)
        /\ \/ Step(r, next) /\ lost' = lost
           \/ Done(r) /\ lost' = lost \cup {old}
    BY <1>2 DEF OAuth
  <2>2. old \in DOMAIN pairs /\ pairs[old] \in Pair
    <3>1. old # None BY <1>0 DEF TokenInv, RefreshersSound
    <3>2. old \in DOMAIN pairs BY <3>1, <1>t, TokenFacts DEF IsPair
    <3> QED BY <3>2, <1>t, TokenFacts
  <2>3. n \in Nat /\ n \in Ref BY <1>t DEF Ref
  <2>4. /\ next \in Req /\ next.pc = "store" /\ next.auth = n /\ next.refresh = reqs[r].refresh
        /\ next.era = reqs[r].era /\ next.saw = reqs[r].saw /\ next.pair = reqs[r].pair
    BY <2>3, <1>t DEF Req, PCs
  <2>5. /\ spent \in Seq(Pair) /\ Len(spent) = Len(pairs) /\ DOMAIN spent = DOMAIN pairs
        /\ \A p \in DOMAIN pairs : /\ spent[p].by = pairs[p].by /\ spent[p].alive = pairs[p].alive
                                   /\ p # old => spent[p] = pairs[p]
    <3>1. \A p \in DOMAIN pairs : pairs[p] \in Pair BY <1>t, TokenFacts
    <3> DEFINE used == [pairs[old] EXCEPT !.usable = ~RefreshOnce]
    <3>2. used \in Pair /\ used.by = pairs[old].by /\ used.alive = pairs[old].alive
      BY <2>2, NoneApart DEF Pair
    <3>3. spent = [pairs EXCEPT ![old] = used] OBVIOUS
    <3> HIDE DEF used, spent
    <3>4. spent \in Seq(Pair) /\ Len(spent) = Len(pairs) /\ DOMAIN spent = DOMAIN pairs BY <3>2, <3>3, <2>2, <1>t
    <3>5. \A p \in DOMAIN pairs : spent[p] = IF p = old THEN used ELSE pairs[p] BY <3>3
    <3> QED BY <3>2, <3>4, <3>5
  <2> HIDE DEF spent
  <2>6. new \in Pair /\ new.usable /\ new.by = pairs[old].by BY <2>2 DEF Pair
  <2> HIDE DEF new
  <2>7. /\ pairs' \in Seq(Pair) /\ DOMAIN pairs' = DOMAIN pairs \cup {n} /\ pairs'[n] = new
        /\ \A p \in DOMAIN pairs : pairs'[p] = spent[p]
    BY <2>1, <2>5, <2>6, <1>t
  <2> HIDE DEF next
  <2>8. PICK q \in Req :
          /\ Step(r, q)
          /\ \/ /\ q = next /\ lost' = lost
             \/ /\ lost' = lost \cup {old} /\ q.pc \in {"none", "call"}
                /\ \/ /\ q.pair = None /\ q.saw = None /\ q.auth = None /\ q.refresh = None /\ q.era = 0
                   \/ /\ q.pair = reqs[r].pair /\ q.saw = reqs[r].saw /\ q.auth = reqs[r].auth
                      /\ q.refresh = reqs[r].refresh /\ q.era = reqs[r].era
    <3>1. CASE Step(r, next) /\ lost' = lost BY <3>1, <2>4
    <3>2. CASE Done(r) /\ lost' = lost \cup {old}
      <4> HIDE DEF old
      <4> QED BY <3>2, <1>t, DoneIs
    <3> QED BY <2>1, <3>1, <3>2
  <2>9. OwnOf(q) \in {n, None} BY <2>4, <2>8 DEF OwnOf
  <2>10. /\ pairs'[n].usable /\ pairs'[n].by = pairs[old].by /\ pairs[old].alive
         /\ \A p \in DOMAIN pairs :
              /\ pairs'[p].by = pairs[p].by /\ pairs'[p].alive = pairs[p].alive
              /\ pairs'[p].usable = pairs[p].usable \/ p = old
    BY <2>1, <2>5, <2>6, <2>7
  <2>11. \A p \in DOMAIN pairs :
           /\ pairs'[p].by = pairs[p].by /\ pairs'[p].alive = pairs[p].alive
           /\ \/ pairs'[p].usable = pairs[p].usable
              \/ p = reqs[r].refresh /\ (p \in lost' \/ (q.pc = "store" /\ p = q.refresh))
    BY <2>4, <2>8, <2>10
  <2>12. \/ /\ reqs[r].pc = "oauth" /\ q.pc = "store" /\ q.auth = n /\ q.refresh = reqs[r].refresh
            /\ q.era = reqs[r].era /\ q.saw = reqs[r].saw /\ q.pair = reqs[r].pair
            /\ pairs[q.refresh].alive /\ pairs'[n].by = pairs[q.refresh].by
         \/ /\ q.pc \in {"none", "call"}
            /\ \/ /\ q.pair = None /\ q.saw = None /\ q.auth = None /\ q.refresh = None /\ q.era = 0
               \/ /\ q.pair = reqs[r].pair /\ q.saw = reqs[r].saw /\ q.auth = reqs[r].auth
                  /\ q.refresh = reqs[r].refresh /\ q.era = reqs[r].era
    BY <2>4, <2>8, <2>10, <1>0
  <2>13. lost \subseteq lost' BY <2>8
  <2> HIDE DEF n, old
  <2>14. n = Len(pairs) + 1 BY DEF n
  <2> QED BY <2>7, <2>8, <2>9, <2>10, <2>11, <2>12, <2>13, <2>14, <1>0, IssueStep
<1> QED BY <1>1, <1>2

(* A request looks at the row with its opener's pair in hand.              *)
LEMMA LookStep ==
  ASSUME TokenInv, NEW r \in Requests, Look(r)
  PROVE  TokenInv' /\ AdminTokenStays /\ UninstallForgets
<1>t. TokenTypeOK /\ RowSound /\ OwnIsOwn /\ OpenersSound /\ RefreshersSound /\ reqs[r] \in Req
  BY TokenFacts DEF TokenInv
<1>f. /\ IsPair(portal.auth) /\ portal.auth \in Ref /\ portal.refresh = portal.auth
      /\ IsPair(reqs[r].pair) /\ IsPair(reqs[r].auth) /\ IsPair(reqs[r].refresh)
  BY <1>t, TokenFacts DEF RowSound
<1>1. PICK answered \in BOOLEAN :
        Step(r, [reqs[r] EXCEPT !.pc = "upsert", !.saw = portal.auth,
                                !.keep = KeepToken(reqs[r].user, answered)])
  BY DEF Look
<1>2. reqs[r].pc = "look" /\ UNCHANGED <<installed, pairs, portal, categoryVars, lost, revived>>
  BY DEF Look, At
<1> DEFINE keep == KeepToken(reqs[r].user, answered)
           auth == portal.auth
           q == [reqs[r] EXCEPT !.pc = "upsert", !.saw = auth, !.keep = keep]
<1>3. /\ keep \in BOOLEAN
      /\ keep => portal.auth # None
      /\ ~keep /\ reqs[r].user \notin Admins => Dead(portal.auth)
  BY <1>t, <1>f DEF KeepToken, RowSound, Dead
<1>4. Step(r, q) BY <1>1
<1> HIDE DEF keep
<1>5. /\ q \in Req /\ q.pc = "upsert" /\ q.saw = auth /\ q.keep = keep
      /\ q.pair = reqs[r].pair /\ q.auth = reqs[r].auth /\ q.refresh = reqs[r].refresh /\ q.era = reqs[r].era
      /\ q.user = reqs[r].user
  <2>1. auth \in Ref BY <1>f
  <2> HIDE DEF auth
  <2>2. q \in Req BY <2>1, <1>3, <1>t DEF Req, PCs
  <2>3. /\ q.pc = "upsert" /\ q.saw = auth /\ q.keep = keep
        /\ q.pair = reqs[r].pair /\ q.auth = reqs[r].auth /\ q.refresh = reqs[r].refresh /\ q.era = reqs[r].era
        /\ q.user = reqs[r].user
    BY <1>t DEF Req
  <2> QED BY <2>2, <2>3
<1> HIDE DEF q
<1>6. /\ reqs' \in [Requests -> Req] /\ reqs'[r] = q
      /\ \A o \in Requests : o # r => reqs'[o] = reqs[o]
  BY <1>t, <1>4, <1>5, StepDoes
<1>7. TokenTypeOK' BY <1>t, <1>2, <1>5, <1>6, <1>f DEF TokenTypeOK, IsPair, categoryVars
<1>8. RowSound' BY <1>t, <1>2, <1>5, <1>6 DEF RowSound, Dead
<1>9. \A o \in Requests : Own(o)' = Own(o) /\ reqs'[o].refresh = reqs[o].refresh
  BY <1>2, <1>5, <1>6 DEF Own, OwnOf
<1>10. OwnIsOwn' BY <1>t, <1>2, <1>9 DEF OwnIsOwn
<1>11. OpenersSound'
  <2> SUFFICES ASSUME NEW o \in Requests
               PROVE  /\ reqs'[o].pc \in {"look", "upsert"} =>
                           reqs'[o].pair # None /\ pairs[reqs'[o].pair].by = reqs'[o].user /\ reqs'[o].refresh = None
                      /\ reqs'[o].pc = "upsert" =>
                           IF reqs'[o].keep THEN reqs'[o].saw # None
                           ELSE reqs'[o].user \notin Admins => Dead(reqs'[o].saw)
    BY <1>2 DEF OpenersSound, Dead
  <2>1. CASE o = r
    <3>1. reqs[r].pair # None /\ pairs[reqs[r].pair].by = reqs[r].user /\ reqs[r].refresh = None
      BY <1>t, <1>2 DEF OpenersSound
    <3> QED BY <2>1, <3>1, <1>3, <1>5, <1>6
  <2>2. CASE o # r BY <2>2, <1>6, <1>t DEF OpenersSound
  <2> QED BY <2>1, <2>2
<1>12. RefreshersSound'
  <2> SUFFICES ASSUME NEW o \in Requests
               PROVE  /\ reqs'[o].pc \in {"oauth", "store"} => reqs'[o].refresh # None /\ reqs'[o].refresh = reqs'[o].saw
                      /\ reqs'[o].pc = "store" =>
                           /\ reqs'[o].auth # None /\ pairs[reqs'[o].auth].by = pairs[reqs'[o].saw].by
                           /\ ~portal.active => Dead(reqs'[o].auth)
                      /\ ~Here(o)' \/ ~portal.active => Dead(reqs'[o].refresh)
    BY <1>2 DEF RefreshersSound, Dead
  <2>1. Here(o)' <=> Here(o) BY <1>2, <1>5, <1>6 DEF Here
  <2>2. CASE o = r BY <2>1, <2>2, <1>t, <1>5, <1>6 DEF RefreshersSound
  <2>3. CASE o # r BY <2>1, <2>3, <1>t, <1>6 DEF RefreshersSound
  <2> QED BY <2>2, <2>3
<1>13. RefreshTokenWorks'
  <2>1. \A o \in Requests : reqs[o].pc = "store" => reqs'[o] = reqs[o] BY <1>2, <1>6
  <2> QED BY <2>1, <1>2 DEF TokenInv, RefreshTokenWorks, At
<1>14. ActiveHasToken' BY <1>2 DEF TokenInv, ActiveHasToken
<1>15. SeedersSound'
  <2>1. \A o \in Requests : reqs'[o].pc = "seed" =>
           reqs[o].pc = "seed" /\ reqs'[o].era = reqs[o].era /\ (Here(o)' => Here(o))
    BY <1>2, <1>5, <1>6 DEF Here
  <2> QED BY <2>1, <1>2, SeedsStay DEF categoryVars
<1>16. AdminTokenStays /\ UninstallForgets BY <1>2, RowStays
<1> QED BY <1>7, <1>8, <1>10, <1>11, <1>12, <1>13, <1>14, <1>15, <1>16 DEF TokenInv

(* A request writes the row, with the token it holds already or with the   *)
(* pair only it knew.                                                      *)
LEMMA RowStep ==
  ASSUME TokenInv, NEW r \in Requests, NEW q \in Req, Step(r, q), NEW row \in Row,
         portal' = row, UNCHANGED <<pairs, lost>>, UNCHANGED categoryVars, revived' \in BOOLEAN,
         row.exists, row.refresh = row.auth,
         \/ row.auth = portal.auth /\ reqs[r].pc = "upsert"
         \/ row.auth = Own(r) /\ Own(r) # None,
         \/ portal.exists /\ row.era = portal.era
         \/ ~portal.exists /\ row.era = portal.era + 1,
         row.active \/ (~portal.active /\ Dead(row.auth)),
         q.pc \in {"count", "reload"}, q.era <= row.era,
         q.refresh = None \/ (q.refresh = reqs[r].refresh /\ Here(r) /\ q.era = row.era),
         IsPair(q.pair), IsPair(q.saw), IsPair(q.auth), IsPair(q.refresh)
  PROVE  /\ TokenTypeOK' /\ RowSound' /\ OwnIsOwn' /\ OpenersSound' /\ RefreshersSound'
         /\ RefreshTokenWorks' /\ SeedersSound'
<1>t. TokenTypeOK /\ RowSound /\ OwnIsOwn /\ OpenersSound /\ RefreshersSound BY DEF TokenInv
<1>f. /\ portal.era \in Nat /\ row.era \in Nat /\ portal.era <= row.era /\ IsPair(portal.auth)
      /\ \A o \in Requests : IsPair(Own(o)) /\ reqs[o].era \in Nat /\ reqs[o].era <= portal.era
  BY <1>t, TokenFacts, OwnIssued DEF Row, RowSound
<1>1. /\ reqs' \in [Requests -> Req] /\ reqs'[r] = q
      /\ \A o \in Requests : o # r => reqs'[o] = reqs[o]
  BY <1>t, StepDoes
<1>2. IsPair(row.auth) BY <1>f
<1>3. TokenTypeOK' BY <1>t, <1>1, <1>2 DEF TokenTypeOK, IsPair, categoryVars
<1>4. RowSound'
  <2>1. \A o \in Requests : reqs'[o].era <= row.era
    <3> TAKE o \in Requests
    <3>1. CASE o = r BY <3>1, <1>1
    <3>2. CASE o # r BY <3>2, <1>1, <1>f
    <3> QED BY <3>1, <3>2
  <2> QED BY <2>1 DEF RowSound, Dead
<1>5. Own(r)' = None /\ \A o \in Requests : o # r => Own(o)' = Own(o)
  BY <1>1 DEF Own, OwnOf
<1>6. OwnIsOwn'
  <2> SUFFICES ASSUME NEW o \in Requests, Own(o)' # None
               PROVE  /\ pairs[Own(o)'].usable /\ row.auth # Own(o)'
                      /\ \A p \in Requests : reqs'[p].refresh # Own(o)' /\ (Own(p)' = Own(o)' => p = o)
    BY DEF OwnIsOwn
  <2>1. o # r /\ Own(o)' = Own(o) BY <1>5
  <2>2. /\ pairs[Own(o)].usable /\ portal.auth # Own(o)
        /\ \A p \in Requests : reqs[p].refresh # Own(o) /\ (Own(p) = Own(o) => p = o)
    BY <1>t, <2>1 DEF OwnIsOwn
  <2>3. row.auth # Own(o) BY <2>1, <2>2
  <2>4. q.refresh # Own(o) BY <2>1, <2>2
  <2> QED BY <2>1, <2>2, <2>3, <2>4, <1>1, <1>5
<1>7. OpenersSound' BY <1>t, <1>1 DEF OpenersSound, Dead
<1>8. RefreshersSound'
  <2> SUFFICES ASSUME NEW o \in Requests
               PROVE  /\ reqs'[o].pc \in {"oauth", "store"} => reqs'[o].refresh # None /\ reqs'[o].refresh = reqs'[o].saw
                      /\ reqs'[o].pc = "store" =>
                           /\ reqs'[o].auth # None /\ pairs[reqs'[o].auth].by = pairs[reqs'[o].saw].by
                           /\ ~row.active => Dead(reqs'[o].auth)
                      /\ ~Here(o)' \/ ~row.active => Dead(reqs'[o].refresh)
    BY DEF RefreshersSound, Dead
  <2>0. \A p \in Requests :
        /\ reqs[p].pc \in {"oauth", "store"} => reqs[p].refresh # None /\ reqs[p].refresh = reqs[p].saw
        /\ reqs[p].pc = "store" =>
             /\ reqs[p].auth # None /\ pairs[reqs[p].auth].by = pairs[reqs[p].saw].by
             /\ ~portal.active => Dead(reqs[p].auth)
        /\ ~Here(p) \/ ~portal.active => Dead(reqs[p].refresh)
    BY <1>t DEF RefreshersSound
  <2>1. CASE o # r
    <3>1. reqs'[o] = reqs[o] BY <2>1, <1>1
    <3>2. Here(o) => Here(o)' BY <3>1 DEF Here
    <3>3. ~row.active => ~portal.active OBVIOUS
    <3> QED BY <2>0, <3>1, <3>2, <3>3
  <2>2. CASE o = r
    <3>1. q.era = row.era => Here(r)' BY <1>1 DEF Here
    <3>2. q.refresh = None => Dead(q.refresh) BY DEF Dead
    <3> QED BY <2>0, <2>2, <3>1, <3>2, <1>1
  <2> QED BY <2>1, <2>2
<1>9. RefreshTokenWorks'
  <2> SUFFICES ASSUME row.refresh # None, pairs[row.refresh].alive
               PROVE  \/ pairs[row.refresh].usable
                      \/ row.refresh \in lost
                      \/ \E o \in Requests : reqs'[o].pc = "store" /\ reqs'[o].refresh = row.refresh
    BY DEF RefreshTokenWorks, At
  <2>1. CASE row.auth = portal.auth /\ reqs[r].pc = "upsert"
    <3>0. row.refresh = portal.refresh BY <2>1, <1>t DEF RowSound
    <3>1. \/ pairs[portal.refresh].usable
          \/ portal.refresh \in lost
          \/ \E o \in Requests : reqs[o].pc = "store" /\ reqs[o].refresh = portal.refresh
      BY <3>0 DEF TokenInv, RefreshTokenWorks, At
    <3>2. CASE \E o \in Requests : reqs[o].pc = "store" /\ reqs[o].refresh = portal.refresh
      <4>1. PICK o \in Requests : reqs[o].pc = "store" /\ reqs[o].refresh = portal.refresh BY <3>2
      <4>2. o # r BY <4>1, <2>1
      <4> QED BY <4>1, <4>2, <3>0, <1>1
    <3> QED BY <3>0, <3>1, <3>2
  <2>2. CASE row.auth = Own(r) /\ Own(r) # None BY <2>2, <1>t DEF OwnIsOwn
  <2> QED BY <2>1, <2>2
<1>10. SeedersSound'
  <2>1. \A o \in Requests : reqs'[o].pc = "seed" =>
           reqs[o].pc = "seed" /\ reqs'[o].era = reqs[o].era /\ (Here(o)' => Here(o))
    <3> SUFFICES ASSUME NEW o \in Requests, reqs'[o].pc = "seed"
                 PROVE  reqs[o].pc = "seed" /\ reqs'[o].era = reqs[o].era /\ (Here(o)' => Here(o))
      OBVIOUS
    <3>1. o # r /\ reqs'[o] = reqs[o] BY <1>1
    <3>2. CASE portal.exists /\ row.era = portal.era BY <3>1, <3>2 DEF Here
    <3>3. CASE row.era = portal.era + 1
      <4>1. row.era # reqs[o].era BY <3>3, <1>f
      <4> QED BY <3>1, <4>1 DEF Here
    <3> QED BY <3>1, <3>2, <3>3
  <2> QED BY <2>1, SeedsStay DEF categoryVars
<1> QED BY <1>3, <1>4, <1>6, <1>7, <1>8, <1>9, <1>10


LEMMA UpsertStep ==
  ASSUME TokenInv, NEW r \in Requests, Upsert(r)
  PROVE  TokenInv' /\ AdminTokenStays /\ UninstallForgets
<1>t. TokenTypeOK /\ RowSound /\ OpenersSound /\ reqs[r] \in Req /\ portal \in Row /\ revived \in BOOLEAN
  BY TokenFacts DEF TokenInv, TokenTypeOK
<1>f. /\ IsPair(portal.auth) /\ portal.auth \in Ref /\ portal.refresh = portal.auth /\ portal.era \in Nat
      /\ IsPair(reqs[r].pair) /\ IsPair(reqs[r].saw) /\ reqs[r].pair \in Ref
      /\ ~portal.exists => portal.auth = None
  BY <1>t, TokenFacts DEF RowSound, Req
<1>1. /\ reqs[r].pc = "upsert" /\ Own(r) = reqs[r].pair /\ reqs[r].pair # None
      /\ pairs[reqs[r].pair].by = reqs[r].user /\ reqs[r].refresh = None
      /\ IF reqs[r].keep THEN reqs[r].saw # None ELSE reqs[r].user \notin Admins => Dead(reqs[r].saw)
  BY <1>t DEF Upsert, At, OpenersSound, Own, OwnOf
<1>2. PICK row :
        /\ row = CASE ~portal.exists -> [exists |-> TRUE, era |-> portal.era + 1, active |-> TRUE,
                                         auth |-> reqs[r].pair, refresh |-> reqs[r].pair]
                   [] portal.exists /\ reqs[r].keep -> [portal EXCEPT !.active = TRUE]
                   [] OTHER -> [portal EXCEPT !.active = TRUE, !.auth = reqs[r].pair, !.refresh = reqs[r].pair]
        /\ portal' = row
        /\ revived' = IF row.auth = None THEN revived \/ reqs[r].saw # None ELSE FALSE
        /\ Step(r, [reqs[r] EXCEPT !.pc = "count", !.era = row.era, !.auth = row.auth])
  BY DEF Upsert
<1>3. UNCHANGED <<pairs, lost>> /\ UNCHANGED categoryVars BY DEF Upsert
<1>4. /\ row \in Row /\ row.exists /\ row.active /\ row.refresh = row.auth
      /\ \/ ~portal.exists /\ row.era = portal.era + 1 /\ row.auth = reqs[r].pair
         \/ portal.exists /\ row.era = portal.era /\ reqs[r].keep /\ row.auth = portal.auth
         \/ portal.exists /\ row.era = portal.era /\ ~reqs[r].keep /\ row.auth = reqs[r].pair
  <2>1. CASE ~portal.exists
    <3> DEFINE era == portal.era + 1
    <3>1. row = [exists |-> TRUE, era |-> era, active |-> TRUE, auth |-> reqs[r].pair, refresh |-> reqs[r].pair]
      BY <1>2, <2>1
    <3>2. era \in Nat BY <1>f
    <3> QED BY <3>1, <3>2, <2>1, <1>f DEF Row
  <2>2. CASE portal.exists /\ reqs[r].keep
    <3>1. row = [portal EXCEPT !.active = TRUE] BY <1>2, <2>2
    <3> QED BY <3>1, <2>2, <1>t, <1>f DEF Row
  <2>3. CASE portal.exists /\ ~reqs[r].keep
    <3>1. row = [portal EXCEPT !.active = TRUE, !.auth = reqs[r].pair, !.refresh = reqs[r].pair] BY <1>2, <2>3
    <3> QED BY <3>1, <2>3, <1>t, <1>f DEF Row
  <2> QED BY <2>1, <2>2, <2>3
<1>5. row.auth \in Ref /\ row.era \in Nat /\ IsPair(row.auth) BY <1>4, <1>f DEF Row
<1> DEFINE q == [reqs[r] EXCEPT !.pc = "count", !.era = row.era, !.auth = row.auth]
<1>6. /\ q \in Req /\ q.pc = "count" /\ q.era = row.era /\ q.auth = row.auth
      /\ q.refresh = None /\ q.pair = reqs[r].pair /\ q.saw = reqs[r].saw
  BY <1>t, <1>1, <1>5 DEF Req, PCs
<1>7. Step(r, q) BY <1>2
<1> HIDE DEF q
<1>8. revived' \in BOOLEAN BY <1>2, <1>t
<1>9. q.era <= row.era /\ IsPair(None) BY <1>5, <1>6 DEF IsPair
<1>10. /\ TokenTypeOK' /\ RowSound' /\ OwnIsOwn' /\ OpenersSound' /\ RefreshersSound'
       /\ RefreshTokenWorks' /\ SeedersSound'
  <2>1. \/ row.auth = portal.auth /\ reqs[r].pc = "upsert"
        \/ row.auth = Own(r) /\ Own(r) # None
    BY <1>1, <1>4
  <2>2. \/ portal.exists /\ row.era = portal.era
        \/ ~portal.exists /\ row.era = portal.era + 1
    BY <1>4
  <2>3. /\ IsPair(q.pair) /\ IsPair(q.saw) /\ IsPair(q.auth) /\ IsPair(q.refresh)
        /\ q.pc \in {"count", "reload"} /\ q.refresh = None
    BY <1>5, <1>6, <1>9, <1>f
  <2> QED BY <1>2, <1>3, <1>4, <1>6, <1>7, <1>8, <1>9, <2>1, <2>2, <2>3, RowStep
<1>11. ActiveHasToken' BY <1>1, <1>2, <1>4 DEF ActiveHasToken
<1>12. UninstallForgets BY <1>2, <1>4 DEF UninstallForgets
<1>13. AdminTokenStays
  <2> SUFFICES ASSUME portal.auth # None, pairs[portal.auth].alive, pairs[portal.auth].by \in Admins,
                      pairs[row.auth].by \notin Admins
               PROVE  \E o \in Requests : reqs[o] # reqs'[o] /\ reqs[o].saw # portal.auth
    BY <1>2, <1>3 DEF AdminTokenStays
  <2>1. reqs'[r] = q BY <1>t, <1>6, <1>7, StepDoes
  <2>2. reqs'[r] # reqs[r] BY <2>1, <1>1, <1>6
  <2>3. portal.exists /\ ~reqs[r].keep /\ row.auth = reqs[r].pair BY <1>4, <1>f
  <2>4. reqs[r].saw # portal.auth BY <2>3, <1>1 DEF Dead
  <2> QED BY <2>2, <2>4
<1> QED BY <1>10, <1>11, <1>12, <1>13 DEF TokenInv

LEMMA StorePairStep ==
  ASSUME TokenInv, NEW r \in Requests, StorePair(r)
  PROVE  TokenInv' /\ AdminTokenStays /\ UninstallForgets
<1>t. TokenTypeOK /\ RowSound /\ RefreshersSound /\ reqs[r] \in Req /\ portal \in Row /\ revived \in BOOLEAN
  BY TokenFacts DEF TokenInv, TokenTypeOK
<1>f. /\ IsPair(portal.auth) /\ portal.refresh = portal.auth /\ portal.era \in Nat
      /\ IsPair(reqs[r].pair) /\ IsPair(reqs[r].saw) /\ IsPair(reqs[r].auth) /\ IsPair(reqs[r].refresh)
      /\ reqs[r].auth \in Ref /\ reqs[r].era \in Nat /\ reqs[r].era <= portal.era
      /\ ~portal.exists => portal.auth = None
  BY <1>t, TokenFacts DEF RowSound, Req
<1>1. /\ reqs[r].pc = "store" /\ Own(r) = reqs[r].auth
      /\ reqs[r].auth # None /\ pairs[reqs[r].auth].by = pairs[reqs[r].saw].by
      /\ ~portal.active => Dead(reqs[r].auth)
  BY <1>t DEF StorePair, At, RefreshersSound, Own, OwnOf
<1>2. UNCHANGED <<pairs, revived>> /\ UNCHANGED categoryVars BY DEF StorePair
<1>3. CASE Done(r) /\ lost' = lost \cup {reqs[r].refresh} /\ UNCHANGED portal
  <2>1. lost \subseteq lost' /\ reqs[r].refresh \in lost' BY <1>3
  <2> QED BY <2>1, <1>2, <1>3, DoneStep
<1>4. CASE /\ Here(r) /\ portal' = [portal EXCEPT !.auth = reqs[r].auth, !.refresh = reqs[r].auth]
           /\ Step(r, [reqs[r] EXCEPT !.pc = "reload"]) /\ UNCHANGED lost
  <2> DEFINE row == [portal EXCEPT !.auth = reqs[r].auth, !.refresh = reqs[r].auth]
             q == [reqs[r] EXCEPT !.pc = "reload"]
  <2>1. portal' = row /\ Step(r, q) BY <1>4
  <2>2. /\ row \in Row /\ row.auth = reqs[r].auth /\ row.refresh = reqs[r].auth
        /\ row.exists = portal.exists /\ row.era = portal.era /\ row.active = portal.active
    BY <1>t, <1>f DEF Row
  <2>3. /\ q \in Req /\ q.pc = "reload" /\ q.era = reqs[r].era /\ q.auth = reqs[r].auth
        /\ q.refresh = reqs[r].refresh /\ q.pair = reqs[r].pair /\ q.saw = reqs[r].saw
    BY <1>t DEF Req, PCs
  <2> HIDE DEF row, q
  <2>4. portal.exists /\ portal.era = reqs[r].era BY <1>4 DEF Here
  <2>5. row.active \/ (~portal.active /\ Dead(row.auth)) BY <1>1, <2>2
  <2>6. /\ TokenTypeOK' /\ RowSound' /\ OwnIsOwn' /\ OpenersSound' /\ RefreshersSound'
        /\ RefreshTokenWorks' /\ SeedersSound'
    BY <1>1, <1>2, <1>4, <1>f, <1>t, <2>1, <2>2, <2>3, <2>4, <2>5, RowStep
  <2>7. ActiveHasToken' BY <2>1, <2>2, <1>1 DEF ActiveHasToken
  <2>8. reqs'[r] = q /\ reqs'[r] # reqs[r]
    <3>1. reqs'[r] = q BY <1>t, <2>1, <2>3, StepDoes
    <3> QED BY <3>1, <2>3, <1>1
  <2>9. UninstallForgets BY <2>8, <1>1 DEF UninstallForgets, At
  <2>10. AdminTokenStays
    <3> SUFFICES ASSUME pairs[portal.auth].by \in Admins, pairs[row.auth].by \notin Admins
                 PROVE  \E o \in Requests : reqs[o] # reqs'[o] /\ reqs[o].saw # portal.auth
      BY <2>1, <1>2 DEF AdminTokenStays
    <3>1. reqs[r].saw # portal.auth BY <1>1, <2>2
    <3> QED BY <3>1, <2>8
  <2> QED BY <2>6, <2>7, <2>9, <2>10 DEF TokenInv
<1> QED BY <1>3, <1>4 DEF StorePair

(* Bitrix24 takes back every token.                                        *)
LEMMA UninstallStep ==
  ASSUME TokenInv, Uninstall
  PROVE  TokenInv' /\ AdminTokenStays /\ UninstallForgets
<1>t. TokenTypeOK /\ RowSound /\ OwnIsOwn /\ OpenersSound /\ RefreshersSound /\ portal \in Row /\ pairs \in Seq(Pair)
      /\ CategoriesTyped
  BY DEF TokenInv, TokenTypeOK, CategoriesTyped
<1>f. /\ DOMAIN pairs = 1 .. Len(pairs) /\ Len(pairs) \in Nat /\ \A p \in DOMAIN pairs : pairs[p] \in Pair
      /\ IsPair(None) /\ None \in Ref
      /\ \A o \in Requests : IsPair(Own(o)) /\ IsPair(reqs[o].pair) /\ IsPair(reqs[o].saw) /\ IsPair(reqs[o].auth) /\ IsPair(reqs[o].refresh)
  BY <1>t, TokenFacts, OwnIssued DEF IsPair, Ref
<1>1. pairs' = Revoked /\ UNCHANGED <<reqs, lost, revived>> BY DEF Uninstall
<1>2. /\ pairs' \in Seq(Pair) /\ DOMAIN pairs' = DOMAIN pairs
      /\ \A p \in DOMAIN pairs : /\ pairs'[p].by = pairs[p].by /\ pairs'[p].usable = pairs[p].usable
                                 /\ ~pairs'[p].alive
  <2>1. \A p \in DOMAIN pairs :
          /\ [pairs[p] EXCEPT !.alive = FALSE] \in Pair
          /\ [pairs[p] EXCEPT !.alive = FALSE].by = pairs[p].by
          /\ [pairs[p] EXCEPT !.alive = FALSE].usable = pairs[p].usable
          /\ ~[pairs[p] EXCEPT !.alive = FALSE].alive
    BY <1>f DEF Pair
  <2>2. pairs' = [p \in 1 .. Len(pairs) |-> [pairs[p] EXCEPT !.alive = FALSE]] BY <1>1, <1>f DEF Revoked
  <2>3. pairs' \in Seq(Pair) BY <2>1, <2>2, <1>f
  <2> QED BY <2>1, <2>2, <2>3, <1>f
<1>3. /\ portal' \in Row /\ portal'.refresh = portal'.auth /\ portal'.era = portal.era
      /\ portal'.auth \in {None, portal.auth}
      /\ ~portal'.exists => portal'.auth = None /\ ~portal'.active
      /\ CategoriesTyped' /\ ((stocked' = stocked /\ overtaken' = overtaken) \/ ~stocked')
      /\ portal'.exists => portal.exists
      /\ portal'.active => portal' = portal
      /\ ~portal'.active => portal'.auth = None \/ portal' = portal
  <2>0. UNCHANGED categoryVars => CategoriesTyped' /\ stocked' = stocked /\ overtaken' = overtaken
    BY <1>t DEF CategoriesTyped, categoryVars
  <2>1. CASE portal' = [portal EXCEPT !.active = FALSE, !.auth = None, !.refresh = None] /\ UNCHANGED categoryVars
    <3>1. portal.exists BY DEF Uninstall
    <3> QED BY <2>0, <2>1, <3>1, <1>t, <1>f DEF Row
  <2>2. CASE /\ portal' = [NoPortal EXCEPT !.era = portal.era]
             /\ stocked' = FALSE /\ seeds' = 0 /\ overtaken' = {}
    <3>1. portal.era \in Nat BY <1>t DEF Row
    <3>2. /\ portal' \in Row /\ portal'.era = portal.era /\ portal'.auth = None /\ portal'.refresh = None
          /\ ~portal'.exists /\ ~portal'.active
      BY <2>2, <3>1, NoRow DEF Row
    <3>3. CategoriesTyped' /\ ~stocked' BY <2>2 DEF CategoriesTyped
    <3> QED BY <3>2, <3>3
  <2>3. CASE UNCHANGED <<portal, categoryVars>> BY <2>0, <2>3, <1>t DEF RowSound
  <2> QED BY <2>1, <2>2, <2>3 DEF Uninstall
<1>4. \A p : IsPair(p) => p = None \/ (p \in DOMAIN pairs' /\ ~pairs'[p].alive) BY <1>2 DEF IsPair
<1>5. TokenTypeOK'
  <2>1. portal'.auth = None \/ portal'.auth \in DOMAIN pairs BY <1>3, <1>t DEF TokenTypeOK, IsPair
  <2> QED BY <2>1, <1>t, <1>1, <1>2, <1>3 DEF TokenTypeOK, IsPair, CategoriesTyped
<1>6. RowSound' BY <1>t, <1>1, <1>3, <1>4 DEF RowSound, Dead, TokenTypeOK
<1>7. \A o \in Requests : Own(o)' = Own(o) BY <1>1 DEF Own, OwnOf
<1>8. OwnIsOwn'
  <2>1. \A o \in Requests : Own(o) # None => pairs'[Own(o)].usable = pairs[Own(o)].usable BY <1>2, <1>f DEF IsPair
  <2> QED BY <2>1, <1>1, <1>3, <1>7, <1>t DEF OwnIsOwn
<1>9. OpenersSound'
  <2>1. \A o \in Requests : reqs[o].pair # None => pairs'[reqs[o].pair].by = pairs[reqs[o].pair].by BY <1>2, <1>f DEF IsPair
  <2>2. \A o \in Requests : reqs[o].saw # None => ~pairs'[reqs[o].saw].alive BY <1>4, <1>f
  <2> QED BY <2>1, <2>2, <1>1, <1>t DEF OpenersSound, Dead
<1>10. RefreshersSound'
  <2>1. \A o \in Requests : /\ reqs[o].refresh # None => ~pairs'[reqs[o].refresh].alive
                            /\ reqs[o].auth # None => ~pairs'[reqs[o].auth].alive
                            /\ reqs[o].auth # None => pairs'[reqs[o].auth].by = pairs[reqs[o].auth].by
                            /\ reqs[o].saw # None => pairs'[reqs[o].saw].by = pairs[reqs[o].saw].by
    BY <1>2, <1>4, <1>f DEF IsPair
  <2> QED BY <2>1, <1>1, <1>t DEF RefreshersSound, Dead
<1>11. RefreshTokenWorks' BY <1>2, <1>3, <1>t DEF RefreshTokenWorks, TokenTypeOK, IsPair
<1>12. ActiveHasToken' BY <1>1, <1>3 DEF TokenInv, ActiveHasToken
<1>13. SeedersSound'
  <2>1. \A o \in Requests : Here(o)' => Here(o) BY <1>1, <1>3 DEF Here
  <2> QED BY <2>1, <1>1, <1>3, SeedsStay
<1>14. AdminTokenStays
  <2>1. portal'.auth # None => portal'.auth = portal.auth /\ portal.auth \in DOMAIN pairs
    BY <1>3, <1>t DEF TokenTypeOK, IsPair
  <2> QED BY <2>1, <1>2 DEF AdminTokenStays
<1>15. UninstallForgets BY <1>3 DEF UninstallForgets
<1> QED BY <1>5, <1>6, <1>8, <1>9, <1>10, <1>11, <1>12, <1>13, <1>14, <1>15 DEF TokenInv

LEMMA ExpireStep ==
  ASSUME TokenInv, Expire
  PROVE  TokenInv' /\ AdminTokenStays /\ UninstallForgets
<1>t. TokenTypeOK /\ RowSound /\ OwnIsOwn /\ OpenersSound /\ RefreshersSound /\ pairs \in Seq(Pair)
  BY DEF TokenInv, TokenTypeOK
<1>f. /\ \A p \in DOMAIN pairs : pairs[p] \in Pair
      /\ \A o \in Requests : IsPair(Own(o)) /\ IsPair(reqs[o].pair) /\ IsPair(reqs[o].saw) /\ IsPair(reqs[o].auth) /\ IsPair(reqs[o].refresh)
  BY <1>t, TokenFacts, OwnIssued
<1>1. PICK e \in DOMAIN pairs :
        /\ pairs' = [pairs EXCEPT ![e].fresh = FALSE]
        /\ UNCHANGED <<installed, portal, categoryVars, reqs, lost, revived>>
  BY DEF Expire
<1>2. /\ pairs' \in Seq(Pair) /\ DOMAIN pairs' = DOMAIN pairs
      /\ \A p \in DOMAIN pairs : /\ pairs'[p].by = pairs[p].by /\ pairs'[p].usable = pairs[p].usable
                                 /\ pairs'[p].alive = pairs[p].alive
  <2> DEFINE old == [pairs[e] EXCEPT !.fresh = FALSE]
  <2>1. old \in Pair /\ old.by = pairs[e].by /\ old.usable = pairs[e].usable /\ old.alive = pairs[e].alive
    BY <1>f DEF Pair
  <2>2. pairs' = [pairs EXCEPT ![e] = old] BY <1>1
  <2> HIDE DEF old
  <2>3. pairs' \in Seq(Pair) /\ DOMAIN pairs' = DOMAIN pairs BY <2>1, <2>2, <1>t
  <2>4. \A p \in DOMAIN pairs : pairs'[p] = IF p = e THEN old ELSE pairs[p] BY <2>2
  <2> QED BY <2>1, <2>3, <2>4
<1>3. \A o \in Requests : Own(o)' = Own(o) /\ (Here(o)' <=> Here(o)) BY <1>1 DEF Own, OwnOf, Here
<1>4. TokenTypeOK' BY <1>t, <1>1, <1>2 DEF TokenTypeOK, IsPair, categoryVars
<1>5. RowSound' BY <1>t, <1>1, <1>2 DEF RowSound, Dead, TokenTypeOK, IsPair
<1>6. OwnIsOwn'
  <2>1. \A o \in Requests : Own(o) # None => pairs'[Own(o)].usable = pairs[Own(o)].usable BY <1>2, <1>f DEF IsPair
  <2> QED BY <2>1, <1>1, <1>3, <1>t DEF OwnIsOwn
<1>7. OpenersSound'
  <2>1. \A o \in Requests : /\ reqs[o].pair # None => pairs'[reqs[o].pair].by = pairs[reqs[o].pair].by
                            /\ reqs[o].saw # None => pairs'[reqs[o].saw].alive = pairs[reqs[o].saw].alive
    BY <1>2, <1>f DEF IsPair
  <2> QED BY <2>1, <1>1, <1>t DEF OpenersSound, Dead
<1>8. RefreshersSound'
  <2>1. \A o \in Requests : /\ reqs[o].refresh # None => pairs'[reqs[o].refresh].alive = pairs[reqs[o].refresh].alive
                            /\ reqs[o].auth # None => pairs'[reqs[o].auth].alive = pairs[reqs[o].auth].alive
                            /\ reqs[o].auth # None => pairs'[reqs[o].auth].by = pairs[reqs[o].auth].by
                            /\ reqs[o].saw # None => pairs'[reqs[o].saw].by = pairs[reqs[o].saw].by
    BY <1>2, <1>f DEF IsPair
  <2> QED BY <2>1, <1>1, <1>3, <1>t DEF RefreshersSound, Dead
<1>9. RefreshTokenWorks'
  <2>1. portal.refresh # None => portal.refresh \in DOMAIN pairs BY <1>t DEF RowSound, TokenTypeOK, IsPair
  <2> QED BY <2>1, <1>1, <1>2 DEF TokenInv, RefreshTokenWorks, At
<1>10. ActiveHasToken' BY <1>1 DEF TokenInv, ActiveHasToken
<1>11. SeedersSound' BY <1>1, <1>3, SeedsStay DEF categoryVars
<1>12. AdminTokenStays /\ UninstallForgets BY <1>1, <1>2, RowStays
<1> QED BY <1>4, <1>5, <1>6, <1>7, <1>8, <1>9, <1>10, <1>11, <1>12 DEF TokenInv

(* The server stops: a pair on its way to the row is lost.                 *)
LEMMA CrashStep ==
  ASSUME TokenInv, Crash
  PROVE  TokenInv' /\ AdminTokenStays /\ UninstallForgets
<1>t. TokenTypeOK /\ RowSound BY DEF TokenInv
<1>1. /\ lost' = lost \cup {reqs[r].refresh : r \in {q \in Requests : At(q, "store")}}
      /\ reqs' = [r \in Requests |-> Free]
      /\ overtaken' = {} /\ UNCHANGED <<installed, pairs, portal, stocked, seeds, revived>>
  BY DEF Crash
<1>2. /\ reqs' \in [Requests -> Req]
      /\ \A r \in Requests : reqs'[r] = Free
  BY <1>1, FreeReq
<1>3. TokenTypeOK' BY <1>t, <1>1, <1>2, FreeReq DEF TokenTypeOK, IsPair
<1>4. RowSound'
  <2>1. 0 <= portal.era BY <1>t, TokenFacts
  <2> QED BY <2>1, <1>t, <1>1, <1>2, FreeReq DEF RowSound, Dead
<1>5. OwnIsOwn'
  <2>1. \A r \in Requests : Own(r)' = None BY <1>2, FreeReq DEF Own, OwnOf
  <2> QED BY <2>1 DEF OwnIsOwn
<1>6. OpenersSound' BY <1>2, FreeReq DEF OpenersSound
<1>7. RefreshersSound' BY <1>2, FreeReq DEF RefreshersSound, Dead
<1>8. RefreshTokenWorks' BY <1>1 DEF TokenInv, RefreshTokenWorks, At
<1>9. ActiveHasToken' BY <1>1 DEF TokenInv, ActiveHasToken
<1>10. SeedersSound' BY <1>2, FreeReq DEF SeedersSound
<1>11. AdminTokenStays /\ UninstallForgets BY <1>1, RowStays
<1> QED BY <1>3, <1>4, <1>5, <1>6, <1>7, <1>8, <1>9, <1>10, <1>11 DEF TokenInv

LEMMA TokenStays ==
  ASSUME TokenInv, UNCHANGED <<pairs, portal, categoryVars, reqs, lost, revived>>
  PROVE  TokenInv' /\ AdminTokenStays /\ UninstallForgets
<1>1. TokenTypeOK' /\ RowSound' BY DEF TokenInv, TokenTypeOK, IsPair, RowSound, Dead, categoryVars
<1>2. \A r \in Requests : Own(r)' = Own(r) /\ (Here(r)' <=> Here(r)) BY DEF Own, OwnOf, Here
<1>3. OwnIsOwn' BY <1>2 DEF TokenInv, OwnIsOwn
<1>4. OpenersSound' BY DEF TokenInv, OpenersSound, Dead
<1>5. RefreshersSound' BY <1>2 DEF TokenInv, RefreshersSound, Dead
<1>6. SeedersSound' BY <1>2, SeedsStay DEF categoryVars
<1>7. RefreshTokenWorks' /\ ActiveHasToken' BY DEF TokenInv, RefreshTokenWorks, ActiveHasToken, At
<1>8. AdminTokenStays /\ UninstallForgets BY RowStays
<1> QED BY <1>1, <1>3, <1>4, <1>5, <1>6, <1>7, <1>8 DEF TokenInv

(* An administrator adds the first category or deletes the last one.       *)
LEMMA CategoriesStep ==
  ASSUME TokenInv, CategoryAdded \/ CategoriesEmptied
  PROVE  TokenInv' /\ AdminTokenStays /\ UninstallForgets
<1>1. UNCHANGED <<installed, pairs, portal, reqs, lost, revived>> BY DEF CategoryAdded, CategoriesEmptied
<1>2. CategoriesTyped'
  <2>1. AboutToSeed \subseteq Requests BY DEF AboutToSeed
  <2>2. seeds \in Nat BY DEF TokenInv, TokenTypeOK
  <2>3. seeds' = seeds \/ seeds' = 0 BY DEF CategoryAdded, CategoriesEmptied
  <2>5. seeds' \in Nat BY <2>2, <2>3
  <2>6. stocked' = TRUE \/ stocked' = FALSE BY Zenon DEF CategoryAdded, CategoriesEmptied
  <2>7. stocked' \in BOOLEAN BY <2>6, Zenon
  <2>4. overtaken' \subseteq Requests BY <2>1 DEF CategoryAdded, CategoriesEmptied
  <2> QED BY <2>4, <2>5, <2>7 DEF CategoriesTyped
<1>3. TokenTypeOK' /\ RowSound'
  BY <1>1, <1>2 DEF TokenInv, TokenTypeOK, CategoriesTyped, IsPair, RowSound, Dead
<1>4. \A r \in Requests : Own(r)' = Own(r) /\ (Here(r)' <=> Here(r)) BY <1>1 DEF Own, OwnOf, Here
<1>5. OwnIsOwn' BY <1>1, <1>4 DEF TokenInv, OwnIsOwn
<1>6. OpenersSound' BY <1>1 DEF TokenInv, OpenersSound, Dead
<1>7. RefreshersSound' BY <1>1, <1>4 DEF TokenInv, RefreshersSound, Dead
<1>8. SeedersSound'
  <2> SUFFICES ASSUME NEW r \in Requests, reqs'[r].pc = "seed", Here(r)', stocked' PROVE r \in overtaken'
    BY DEF SeedersSound
  <2> QED BY <1>1, <1>4 DEF CategoryAdded, CategoriesEmptied, AboutToSeed, At
<1>9. RefreshTokenWorks' /\ ActiveHasToken' BY <1>1 DEF TokenInv, RefreshTokenWorks, ActiveHasToken, At
<1>10. AdminTokenStays /\ UninstallForgets BY <1>1, RowStays
<1> QED BY <1>3, <1>5, <1>6, <1>7, <1>8, <1>9, <1>10 DEF TokenInv

(* Defaults are put beside other categories only by who was overtaken.     *)
LEMMA DefaultsStep == ASSUME TokenInv, [TokenNext]_tokenVars PROVE DefaultsOnce
<1>t. seeds \in Nat BY DEF TokenInv, TokenTypeOK
<1>1. seeds' = seeds => DefaultsOnce BY <1>t DEF DefaultsOnce
<1>2. seeds' = 0 => DefaultsOnce BY <1>t DEF DefaultsOnce
<1>3. ASSUME NEW r \in Requests, SeedCategories(r) PROVE DefaultsOnce
  <2>1. CASE /\ Here(r) /\ Step(r, [reqs[r] EXCEPT !.pc = "call"])
    <3>1. reqs'[r] # reqs[r] /\ reqs[r].pc = "seed"
      <4> DEFINE q == [reqs[r] EXCEPT !.pc = "call"]
      <4>1. q \in Req /\ q.pc = "call" BY TokenFacts DEF TokenInv, Req, PCs
      <4>2. Step(r, q) BY <2>1
      <4> HIDE DEF q
      <4>3. reqs'[r] = q BY <4>1, <4>2, StepDoes DEF TokenInv
      <4> QED BY <4>1, <4>3, <1>3 DEF SeedCategories, At
    <3>2. stocked => r \in overtaken BY <2>1, <3>1 DEF TokenInv, SeedersSound
    <3> QED BY <3>1, <3>2 DEF DefaultsOnce, At
  <2>2. CASE seeds' = seeds BY <2>2, <1>1
  <2> QED BY <1>3, <2>1, <2>2 DEF SeedCategories
<1>4. ASSUME NEW r \in Requests,
             \/ Open(r) \/ Look(r) \/ Upsert(r) \/ CountCategories(r)
             \/ Background(r) \/ Call(r) \/ Reread(r) \/ OAuth(r) \/ StorePair(r) \/ Reload(r)
      PROVE  seeds' = seeds
  BY <1>4 DEF Open, Look, Upsert, CountCategories, Background, Call, Reread, OAuth, StorePair, Reload, categoryVars
<1>5. CASE Install \/ Expire \/ Crash \/ CategoryAdded \/ UNCHANGED tokenVars
  BY <1>1, <1>5 DEF Install, Expire, Crash, CategoryAdded, tokenVars, categoryVars
<1>6. CASE Uninstall \/ CategoriesEmptied
  BY <1>1, <1>2, <1>6 DEF Uninstall, CategoriesEmptied, categoryVars
<1> QED BY <1>1, <1>3, <1>4, <1>5, <1>6 DEF TokenNext

LEMMA TokenStep ==
  ASSUME TokenInv, [TokenNext]_tokenVars
  PROVE  TokenInv' /\ AdminTokenStays /\ UninstallForgets
<1>1. CASE Install BY <1>1, TokenStays DEF Install
<1>2. CASE Expire \/ Crash \/ Uninstall \/ CategoryAdded \/ CategoriesEmptied
  BY <1>2, ExpireStep, CrashStep, UninstallStep, CategoriesStep
<1>3. ASSUME NEW r \in Requests,
             \/ Open(r) \/ Look(r) \/ Upsert(r) \/ CountCategories(r) \/ SeedCategories(r)
             \/ Background(r) \/ Call(r) \/ Reread(r) \/ OAuth(r) \/ StorePair(r) \/ Reload(r)
      PROVE  TokenInv' /\ AdminTokenStays /\ UninstallForgets
  BY <1>3, OpenStep, LookStep, UpsertStep, CountStep, SeedStep, CallSteps, OAuthStep, StorePairStep
<1>4. CASE UNCHANGED tokenVars BY <1>4, TokenStays DEF tokenVars
<1> QED BY <1>1, <1>2, <1>3, <1>4 DEF TokenNext

LEMMA TokenInitInv == TokenInit => TokenInv
<1> SUFFICES ASSUME TokenInit PROVE TokenInv OBVIOUS
<1>1. /\ pairs = <<>> /\ portal = NoPortal /\ stocked = FALSE /\ seeds = 0 /\ lost = {} /\ overtaken = {}
      /\ revived = FALSE
      /\ \A r \in Requests : reqs[r] = Free
      /\ reqs \in [Requests -> Req]
  BY FreeReq DEF TokenInit
<1>2. /\ NoPortal \in Row /\ ~NoPortal.exists /\ NoPortal.era = 0 /\ ~NoPortal.active
      /\ NoPortal.auth = None /\ NoPortal.refresh = None
  BY NoRow
<1>3. TokenTypeOK
  <2>0. pairs \in Seq(Pair) /\ seeds \in Nat BY <1>1
  <2>1. stocked \in BOOLEAN /\ overtaken \in SUBSET Requests /\ revived \in BOOLEAN BY <1>1
  <2>2. IsPair(portal.auth) BY <1>1, <1>2 DEF IsPair
  <2>3. \A r \in Requests :
          IsPair(reqs[r].pair) /\ IsPair(reqs[r].saw) /\ IsPair(reqs[r].auth) /\ IsPair(reqs[r].refresh)
    BY <1>1, FreeReq DEF IsPair
  <2> QED BY <2>0, <2>1, <2>2, <2>3, <1>1, <1>2 DEF TokenTypeOK
<1>4. RowSound BY <1>1, <1>2, FreeReq DEF RowSound, Dead
<1>5. \A r \in Requests : Own(r) = None BY <1>1, FreeReq DEF Own, OwnOf
<1>6. OwnIsOwn BY <1>5 DEF OwnIsOwn
<1>7. OpenersSound /\ RefreshersSound /\ SeedersSound
  BY <1>1, FreeReq DEF OpenersSound, RefreshersSound, SeedersSound, Dead
<1>8. RefreshTokenWorks /\ ActiveHasToken
  BY <1>1, <1>2 DEF RefreshTokenWorks, ActiveHasToken
<1> QED BY <1>3, <1>4, <1>6, <1>7, <1>8 DEF TokenInv

(* An installed portal keeps tokens that work until it is uninstalled,     *)
(* unless a pair is lost on its way, and the default categories are put    *)
(* beside others only by an opening these had overtaken, for any number of *)
(* openings, refreshes and uninstalls at once, whether or not Bitrix24     *)
(* takes a refresh token again (lib/bitrix/auth, client, events and the    *)
(* routes of api/bitrix).                                                  *)
THEOREM PortalIsUsable == TokenSpec => PortalStaysUsable
<1>1. TokenInv => RefreshTokenWorks /\ ActiveHasToken BY DEF TokenInv
<1>2. /\ TokenInv /\ [TokenNext]_tokenVars => TokenInv'
      /\ TokenInv /\ [TokenNext]_tokenVars => [AdminTokenStays /\ UninstallForgets /\ DefaultsOnce]_tokenVars
  BY TokenStep, DefaultsStep
<1> QED BY <1>1, <1>2, TokenInitInv, PTL DEF TokenSpec, PortalStaysUsable

-----------------------------------------------------------------------------
(* The pulls of the staff list.                                            *)

DirectorySpec == DirectoryInit /\ [][DirectoryNext]_directoryVars

Account ==
  [known : BOOLEAN, isActive : BOOLEAN, isBitrixAdmin : BOOLEAN,
   role : {"EMPLOYEE", "MANAGER", "ADMIN"}]

Pull ==
  [pc : {"idle", "page", "save", "end"}, start : Nat, list : Seq(Staff), seen : SUBSET Staff,
   last : BOOLEAN, fresh : BOOLEAN, calm : BOOLEAN]

DirectoryTypeOK ==
  /\ staff \subseteq Staff /\ staff # {}
  /\ admins \subseteq wereAdmins
  /\ accounts \in [Staff -> Account]
  /\ pulls \in [Pulls -> Pull]
  /\ \A s \in Pulls : pulls[s].pc = "save" => pulls[s].list # <<>>
  /\ signing \in [pc : {"idle", "asked"}, me : Nat, isAdmin : BOOLEAN, fresh : BOOLEAN]

(* What a sign-in was told.                                                *)
SignsAsAnswered ==
  signing.pc = "asked" =>
    /\ signing.me \in Staff
    /\ signing.isAdmin => signing.me \in wereAdmins

Count == Cardinality(staff)

UpTo(n) == IF n <= Count THEN n ELSE Count

FirstOnes(k) == {Listed[i] : i \in 1 .. k}

(* A pull whose staff has not changed has seen the first of it, as far as  *)
(* it has saved, and all of it when it ends.                               *)
SeenInOrder(p) ==
  /\ p.pc = "page" => p.seen = FirstOnes(UpTo(p.start))
  /\ p.pc = "save" =>
       /\ p.last <=> Count < p.start
       /\ \E k \in 1 .. UpTo(p.start) :
            p.list = SubSeq(Listed, k, UpTo(p.start)) /\ p.seen = FirstOnes(k - 1)
  /\ p.pc = "end" => p.seen = staff

FreshPullsInOrder == \A s \in Pulls : pulls[s].fresh => SeenInOrder(pulls[s])

CalmBesideFresh == \A s \in Pulls : pulls[s].pc # "idle" /\ pulls[s].calm => ~Outdated

CalmKnowsSeen ==
  \A s \in Pulls : pulls[s].pc # "idle" /\ pulls[s].calm => pulls[s].seen \subseteq Acting

DirectoryInv ==
  /\ DirectoryTypeOK /\ SignsAsAnswered /\ AdminsOfBitrix
  /\ FreshPullsInOrder /\ CalmBesideFresh /\ CalmKnowsSeen

LEMMA NumbersHaveAnOrder ==
  ASSUME NEW S, S \subseteq Nat, IsFiniteSet(S)
  PROVE  \E list \in [1 .. Cardinality(S) -> S] :
            \A i, j \in 1 .. Cardinality(S) : i < j => list[i] < list[j]
<1> DEFINE N == Cardinality(S)
           Below(x) == {y \in S : y <= x}
           rank == [x \in S |-> Cardinality(Below(x))]
           list == [i \in 1 .. N |-> CHOOSE x \in S : rank[x] = i]
<1>1. /\ N \in Nat
      /\ \A x : Below(x) \in SUBSET S
      /\ \A x : IsFiniteSet(Below(x)) /\ Cardinality(Below(x)) \in Nat /\ Cardinality(Below(x)) <= N
  BY FS_CardinalityType, FS_Subset
<1>2. ASSUME NEW x \in S, NEW y \in S, x < y
      PROVE  Cardinality(Below(x)) < Cardinality(Below(y))
  <2>a. x \in Nat /\ y \in Nat /\ ~(y <= x) /\ y <= y
    BY <1>2
  <2>b. \A z \in S : z <= x => z <= y
    BY <1>2, <2>a
  <2>1. Below(x) \in SUBSET Below(y) /\ y \in Below(y) /\ y \notin Below(x)
    BY <2>a, <2>b
  <2>2. Cardinality(Below(x)) # Cardinality(Below(y)) /\ Cardinality(Below(x)) <= Cardinality(Below(y))
    BY <2>1, <1>1, FS_Subset
  <2> QED BY <2>2, <1>1
<1>3. \A x \in S : Cardinality(Below(x)) # 0
  <2> SUFFICES ASSUME NEW x \in S PROVE Cardinality(Below(x)) # 0
    OBVIOUS
  <2>1. x \in Below(x)
    OBVIOUS
  <2> QED BY <2>1, <1>1, FS_EmptySet
<1> HIDE DEF Below, N
<1>4. rank \in [S -> 1 .. N]
  BY <1>1, <1>3
<1>5. \A x, y \in S : x # y => rank[x] # rank[y]
  BY <1>1, <1>2
<1>6. \A x, y \in S : x < y => rank[x] < rank[y]
  BY <1>2
<1>7. IsFiniteSet(1 .. N) /\ Cardinality(1 .. N) = N
  BY <1>1, FS_Interval
<1> HIDE DEF rank
<1>8. rank \in Injection(S, 1 .. N)
  BY <1>4, <1>5 DEF Injection, IsInjective
<1>9. rank \in Surjection(S, 1 .. N)
  BY <1>8, <1>7, FS_Injection DEF N
<1>10. \A i \in 1 .. N : list[i] \in S /\ rank[list[i]] = i
  BY <1>9 DEF Surjection
<1>11. ASSUME NEW i \in 1 .. N, NEW j \in 1 .. N, i < j
       PROVE  list[i] < list[j]
  <2> DEFINE a == list[i]
             b == list[j]
  <2>1. a \in S /\ b \in S /\ rank[a] = i /\ rank[b] = j
    BY <1>10
  <2> HIDE DEF a, b
  <2>2. a \in Nat /\ b \in Nat /\ i \in Int /\ j \in Int
    BY <2>1, <1>1
  <2>3. a # b /\ ~(b < a)
    <3>1. b < a => rank[b] < rank[a]
      BY <2>1, <1>6
    <3>2. b < a => j < i
      BY <3>1, <2>1
    <3>3. a # b
      BY <2>1, <2>2, <1>11
    <3> QED BY <3>2, <3>3, <2>2, <1>11
  <2> QED BY <2>2, <2>3 DEF a, b
<1>12. list \in [1 .. N -> S]
  BY <1>10
<1> QED BY <1>11, <1>12 DEF N

LEMMA ListedEnumerates ==
  ASSUME staff \subseteq Nat, IsFiniteSet(staff)
  PROVE  /\ Cardinality(staff) \in Nat
         /\ Listed \in Seq(staff) /\ Len(Listed) = Cardinality(staff)
         /\ {Listed[i] : i \in 1 .. Cardinality(staff)} = staff
<1> DEFINE N == Cardinality(staff)
<1>1. N \in Nat
  BY FS_CardinalityType
<1>2. /\ Listed \in [1 .. N -> staff]
      /\ \A i, j \in 1 .. N : i < j => Listed[i] < Listed[j]
  BY NumbersHaveAnOrder DEF Listed
<1>3. IsFiniteSet(1 .. N) /\ Cardinality(1 .. N) = N
  BY <1>1, FS_Interval
<1>4. ASSUME NEW i \in 1 .. N, NEW j \in 1 .. N, Listed[i] = Listed[j]
      PROVE  i = j
  <2>1. Listed[i] \in Nat /\ Listed[j] \in Nat
    BY <1>2
  <2> QED BY <2>1, <1>1, <1>2, <1>4
<1>5. Listed \in Injection(1 .. N, staff)
  BY <1>2, <1>4 DEF Injection, IsInjective
<1>6. Listed \in Surjection(1 .. N, staff)
  BY <1>5, <1>3, FS_Injection
<1>7. {Listed[i] : i \in 1 .. N} = staff
  BY <1>6, <1>2 DEF Surjection
<1>8. Listed \in Seq(staff) /\ Len(Listed) = N
  BY <1>1, <1>2
<1> QED BY <1>1, <1>7, <1>8

LEMMA Staffed ==
  ASSUME DirectoryTypeOK
  PROVE  /\ Count \in Nat
         /\ Listed \in Seq(staff) /\ Len(Listed) = Count
         /\ FirstOnes(Count) = staff
         /\ staff \subseteq Staff /\ staff # {} /\ Staff \subseteq Nat
<1>1. /\ staff \subseteq Staff /\ staff # {} /\ Staff \subseteq Nat /\ IsFiniteSet(Staff)
  BY DirectoryAssumption DEF DirectoryTypeOK
<1>2. staff \subseteq Nat /\ IsFiniteSet(staff)
  BY <1>1, FS_Subset
<1> QED BY <1>1, <1>2, ListedEnumerates DEF Count, FirstOnes

(* With the staff unchanged a pull has seen in order what it had.          *)
LEMMA OrderStays ==
  ASSUME staff' = staff
  PROVE  /\ Listed' = Listed /\ Count' = Count
         /\ \A p : SeenInOrder(p) => SeenInOrder(p)'
<1>1. Listed' = Listed /\ Count' = Count
  BY DEF Listed, Count
<1>2. \A n : UpTo(n)' = UpTo(n)
  BY <1>1 DEF UpTo
<1>3. \A k : FirstOnes(k)' = FirstOnes(k)
  BY <1>1 DEF FirstOnes
<1> QED BY <1>1, <1>2, <1>3 DEF SeenInOrder

LEMMA DirectoryInitInv == DirectoryInit => DirectoryInv
<1> SUFFICES ASSUME DirectoryInit
             PROVE  DirectoryInv
  OBVIOUS
<1> USE DEF DirectoryInit
<1>1. \A s \in Pulls : pulls[s] = NoPull
  OBVIOUS
<1>2. NoPull \in Pull /\ NoPull.pc = "idle"
  BY DEF NoPull, Pull
<1>3. NoAccount \in Account /\ ResolveRole(NoAccount) # "ADMIN"
  BY DEF NoAccount, Account, ResolveRole
<1>4. DirectoryTypeOK
  <2>1. staff \subseteq Staff /\ staff # {} /\ admins \subseteq wereAdmins
    OBVIOUS
  <2>2. accounts \in [Staff -> Account]
    BY <1>3
  <2>3. pulls \in [Pulls -> Pull] /\ \A s \in Pulls : pulls[s].pc = "save" => pulls[s].list # <<>>
    BY <1>1, <1>2
  <2>4. signing \in [pc : {"idle", "asked"}, me : Nat, isAdmin : BOOLEAN, fresh : BOOLEAN]
    BY DEF NoSign
  <2> QED BY <2>1, <2>2, <2>3, <2>4 DEF DirectoryTypeOK
<1>5. SignsAsAnswered
  BY DEF SignsAsAnswered, NoSign
<1>6. AdminsOfBitrix
  BY <1>3 DEF AdminsOfBitrix
<1>7. FreshPullsInOrder /\ CalmBesideFresh /\ CalmKnowsSeen
  BY <1>1, <1>2 DEF FreshPullsInOrder, CalmBesideFresh, CalmKnowsSeen, SeenInOrder
<1> QED BY <1>4, <1>5, <1>6, <1>7 DEF DirectoryInv

LEMMA StaffChangesInv ==
  ASSUME DirectoryInv, StaffChanges
  PROVE  DirectoryInv'
<1> USE DEF StaffChanges
<1>1. DirectoryTypeOK /\ SignsAsAnswered /\ AdminsOfBitrix
  BY DEF DirectoryInv
<1>2. \A s \in Pulls : /\ pulls'[s] \in Pull
                       /\ pulls'[s].pc = pulls[s].pc /\ pulls'[s].list = pulls[s].list
                       /\ pulls'[s].fresh = FALSE /\ pulls'[s].calm = FALSE
  <2> SUFFICES ASSUME NEW s \in Pulls
               PROVE  /\ pulls'[s] \in Pull
                      /\ pulls'[s].pc = pulls[s].pc /\ pulls'[s].list = pulls[s].list
                      /\ pulls'[s].fresh = FALSE /\ pulls'[s].calm = FALSE
    OBVIOUS
  <2>1. pulls'[s] = [pulls[s] EXCEPT !.fresh = FALSE, !.calm = FALSE]
    OBVIOUS
  <2>2. pulls[s] \in Pull
    BY <1>1 DEF DirectoryTypeOK
  <2> QED BY <2>1, <2>2 DEF Pull
<1>3. /\ signing' \in [pc : {"idle", "asked"}, me : Nat, isAdmin : BOOLEAN, fresh : BOOLEAN]
      /\ signing'.pc = signing.pc /\ signing'.me = signing.me /\ signing'.isAdmin = signing.isAdmin
  BY <1>1 DEF DirectoryTypeOK
<1>4. DirectoryTypeOK'
  <2>1. staff' \subseteq Staff /\ staff' # {} /\ admins' \subseteq wereAdmins'
    BY <1>1 DEF DirectoryTypeOK
  <2>2. pulls' \in [Pulls -> Pull]
    BY <1>2
  <2>3. \A s \in Pulls : pulls'[s].pc = "save" => pulls'[s].list # <<>>
    BY <1>1, <1>2 DEF DirectoryTypeOK
  <2>4. accounts' \in [Staff -> Account]
    BY <1>1 DEF DirectoryTypeOK
  <2> QED BY <2>1, <2>2, <2>3, <2>4, <1>3 DEF DirectoryTypeOK
<1>5. SignsAsAnswered'
  BY <1>1, <1>3 DEF SignsAsAnswered
<1>6. AdminsOfBitrix'
  BY <1>1 DEF AdminsOfBitrix
<1>7. FreshPullsInOrder' /\ CalmBesideFresh' /\ CalmKnowsSeen'
  BY <1>2 DEF FreshPullsInOrder, CalmBesideFresh, CalmKnowsSeen
<1> QED BY <1>4, <1>5, <1>6, <1>7 DEF DirectoryInv

LEMMA GrantRoleInv ==
  ASSUME DirectoryInv, GrantRole
  PROVE  DirectoryInv' /\ GivenRoleStays
<1> USE DEF GrantRole
<1>1. DirectoryTypeOK /\ SignsAsAnswered /\ AdminsOfBitrix
  BY DEF DirectoryInv
<1>2. PICK p \in Staff : /\ accounts[p].role = "EMPLOYEE"
                         /\ \/ accounts' = [accounts EXCEPT ![p].role = "MANAGER"] /\ wereAdmins' = wereAdmins
                            \/ accounts' = [accounts EXCEPT ![p].role = "ADMIN"] /\ wereAdmins' = wereAdmins \cup {p}
  OBVIOUS
<1>3. \A q \in Staff :
        /\ accounts'[q] \in Account
        /\ accounts'[q].known = accounts[q].known /\ accounts'[q].isActive = accounts[q].isActive
        /\ ResolveRole(accounts'[q]) = "ADMIN" => ResolveRole(accounts[q]) = "ADMIN" \/ q \in wereAdmins'
        /\ accounts[q].role # "EMPLOYEE" => accounts'[q].role = accounts[q].role
  BY <1>1, <1>2 DEF DirectoryTypeOK, Account, ResolveRole
<1>4. accounts' \in [Staff -> Account]
  BY <1>1, <1>2, <1>3 DEF DirectoryTypeOK
<1>5. DirectoryTypeOK'
  BY <1>1, <1>4 DEF DirectoryTypeOK
<1>6. SignsAsAnswered' /\ AdminsOfBitrix'
  BY <1>1, <1>2, <1>3 DEF SignsAsAnswered, AdminsOfBitrix
<1>7. Acting' = Acting
  BY <1>3 DEF Acting
<1>8. FreshPullsInOrder' /\ CalmBesideFresh' /\ CalmKnowsSeen'
  BY <1>7, OrderStays DEF DirectoryInv, FreshPullsInOrder, CalmBesideFresh, CalmKnowsSeen, Outdated
<1> QED BY <1>3, <1>5, <1>6, <1>8 DEF DirectoryInv, GivenRoleStays

LEMMA SignInInv ==
  ASSUME DirectoryInv, NEW p \in Staff, SignIn(p)
  PROVE  DirectoryInv'
<1> USE DEF SignIn, Asked
<1>1. DirectoryTypeOK /\ SignsAsAnswered /\ AdminsOfBitrix
  BY DEF DirectoryInv
<1>0. PICK me \in {p, Installer} :
        /\ me \in staff
        /\ signing' = [pc |-> "asked", me |-> me, isAdmin |-> me \in admins, fresh |-> TRUE]
  OBVIOUS
<1>2. DirectoryTypeOK'
  BY <1>0, <1>1, Staffed DEF DirectoryTypeOK
<1>3. SignsAsAnswered' /\ AdminsOfBitrix'
  BY <1>0, <1>1 DEF DirectoryTypeOK, SignsAsAnswered, AdminsOfBitrix
<1>4. FreshPullsInOrder' /\ CalmBesideFresh' /\ CalmKnowsSeen'
  BY OrderStays DEF DirectoryInv, FreshPullsInOrder, CalmBesideFresh, CalmKnowsSeen, Outdated, Acting
<1> QED BY <1>2, <1>3, <1>4 DEF DirectoryInv

LEMMA SignInSaveInv ==
  ASSUME DirectoryInv, SignInSave
  PROVE  DirectoryInv' /\ GivenRoleStays
<1> USE DEF SignInSave
<1>1. DirectoryTypeOK /\ SignsAsAnswered /\ AdminsOfBitrix
  BY DEF DirectoryInv
<1>2. /\ signing.me \in Staff /\ signing.isAdmin \in BOOLEAN
      /\ signing.isAdmin => signing.me \in wereAdmins
  BY <1>1 DEF SignsAsAnswered, DirectoryTypeOK
<1>3. \A q \in Staff : q # signing.me => accounts'[q] = accounts[q]
  BY <1>1 DEF DirectoryTypeOK
<1>4. accounts'[signing.me] = SignedIn(accounts[signing.me], signing.isAdmin)
  BY <1>1, <1>2 DEF DirectoryTypeOK
<1>5. accounts[signing.me] \in Account
  BY <1>1, <1>2 DEF DirectoryTypeOK
<1>6. /\ accounts'[signing.me] \in Account
      /\ accounts'[signing.me].known /\ accounts'[signing.me].isActive
      /\ ResolveRole(accounts'[signing.me]) = "ADMIN" =>
           signing.isAdmin \/ ResolveRole(accounts[signing.me]) = "ADMIN"
      /\ accounts'[signing.me].role \in {accounts[signing.me].role, "ADMIN"}
  BY <1>2, <1>4, <1>5 DEF SignedIn, Account, ResolveRole
<1>7. accounts' \in [Staff -> Account]
  BY <1>1, <1>3, <1>6 DEF DirectoryTypeOK
<1>8. DirectoryTypeOK'
  BY <1>1, <1>7 DEF DirectoryTypeOK, NoSign
<1>9. SignsAsAnswered' /\ AdminsOfBitrix' /\ GivenRoleStays
  BY <1>1, <1>2, <1>3, <1>6 DEF SignsAsAnswered, AdminsOfBitrix, GivenRoleStays, NoSign
<1>10. Acting \subseteq Acting'
  BY <1>3, <1>6 DEF Acting
<1>11. ~Outdated => ~Outdated'
  BY DEF Outdated, NoSign
<1>12. FreshPullsInOrder' /\ CalmBesideFresh' /\ CalmKnowsSeen'
  BY <1>10, <1>11, OrderStays DEF DirectoryInv, FreshPullsInOrder, CalmBesideFresh, CalmKnowsSeen
<1> QED BY <1>8, <1>9, <1>12 DEF DirectoryInv

(* What is left to show of a step of one pull.                             *)
LEMMA OnePullMoves ==
  ASSUME DirectoryInv, UNCHANGED <<staff, admins, wereAdmins, signing>>,
         NEW s \in Pulls, NEW q \in Pull, pulls' = [pulls EXCEPT ![s] = q],
         q.pc = "save" => q.list # <<>>,
         q.fresh => SeenInOrder(q),
         q.pc # "idle" /\ q.calm => ~Outdated,
         q.pc # "idle" /\ ~q.fresh => Outdated
  PROVE  /\ pulls' \in [Pulls -> Pull]
         /\ \A t \in Pulls : pulls'[t].pc = "save" => pulls'[t].list # <<>>
         /\ FreshPullsInOrder' /\ CalmBesideFresh'
<1>1. /\ pulls \in [Pulls -> Pull]
      /\ \A t \in Pulls : pulls[t].pc = "save" => pulls[t].list # <<>>
      /\ FreshPullsInOrder /\ CalmBesideFresh
  BY DEF DirectoryInv, DirectoryTypeOK
<1>2. pulls' \in [Pulls -> Pull] /\ pulls'[s] = q /\ \A t \in Pulls : t # s => pulls'[t] = pulls[t]
  BY <1>1
<1>3. \A t \in Pulls : pulls'[t].pc = "save" => pulls'[t].list # <<>>
  BY <1>1, <1>2
<1>4. FreshPullsInOrder'
  <2>1. \A t \in Pulls : pulls'[t].fresh => SeenInOrder(pulls'[t])
    BY <1>1, <1>2 DEF FreshPullsInOrder
  <2> QED BY <2>1, OrderStays DEF FreshPullsInOrder
<1>5. ~Outdated => ~Outdated'
  BY <1>2 DEF Outdated
<1>6. CalmBesideFresh'
  BY <1>1, <1>2, <1>5 DEF CalmBesideFresh
<1> QED BY <1>2, <1>3, <1>4, <1>6

LEMMA SyncStartInv ==
  ASSUME DirectoryInv, NEW s \in Pulls, SyncStart(s)
  PROVE  DirectoryInv'
<1>1. Outdated \in BOOLEAN
  BY DEF Outdated
<1>2. PICK calmly \in BOOLEAN :
        /\ calmly => ~Outdated
        /\ pulls' = [pulls EXCEPT ![s] = [NoPull EXCEPT !.pc = "page", !.calm = calmly]]
  BY <1>1 DEF SyncStart
<1> DEFINE q == [NoPull EXCEPT !.pc = "page", !.calm = calmly]
<1>3. /\ q \in Pull /\ q.pc = "page" /\ q.fresh /\ (q.calm => calmly)
      /\ q.start = 0 /\ q.seen = {}
  <2>1. NoPull \in Pull
    BY DEF NoPull, Pull
  <2>2. q \in Pull
    BY <2>1 DEF Pull
  <2>3. q.pc = "page" /\ q.fresh /\ q.start = 0 /\ q.seen = {}
    BY DEF NoPull
  <2>4. q.calm = calmly
    BY DEF NoPull
  <2> QED BY <2>2, <2>3, <2>4
<1> HIDE DEF q
<1>4. SeenInOrder(q)
  <2>1. UpTo(0) = 0
    BY Staffed DEF UpTo, DirectoryInv
  <2>2. FirstOnes(0) = {}
    BY DEF FirstOnes
  <2> QED BY <1>3, <2>1, <2>2 DEF SeenInOrder
<1>5. /\ pulls' \in [Pulls -> Pull]
      /\ \A t \in Pulls : pulls'[t].pc = "save" => pulls'[t].list # <<>>
      /\ FreshPullsInOrder' /\ CalmBesideFresh'
  BY <1>2, <1>3, <1>4, OnePullMoves DEF SyncStart, q
<1>6. DirectoryTypeOK' /\ SignsAsAnswered' /\ AdminsOfBitrix'
  BY <1>5 DEF SyncStart, DirectoryInv, DirectoryTypeOK, SignsAsAnswered, AdminsOfBitrix
<1>7. CalmKnowsSeen'
  <2>1. \A t \in Pulls : t # s => pulls'[t] = pulls[t]
    BY <1>2 DEF DirectoryInv, DirectoryTypeOK, q
  <2>2. pulls'[s] = q
    BY <1>2 DEF DirectoryInv, DirectoryTypeOK, q
  <2>3. Acting' = Acting
    BY DEF SyncStart, Acting
  <2> QED BY <1>3, <2>1, <2>2, <2>3 DEF DirectoryInv, CalmKnowsSeen
<1> QED BY <1>5, <1>6, <1>7 DEF DirectoryInv

LEMMA SyncFailsInv ==
  ASSUME DirectoryInv, NEW s \in Pulls, SyncFails(s)
  PROVE  DirectoryInv'
<1>1. DirectoryTypeOK /\ pulls' = [pulls EXCEPT ![s] = NoPull]
  BY DEF SyncFails, DirectoryInv
<1>2. NoPull \in Pull /\ NoPull.pc = "idle"
  BY DEF NoPull, Pull
<1>3. SeenInOrder(NoPull)
  BY <1>2 DEF SeenInOrder
<1>4. /\ pulls' \in [Pulls -> Pull]
      /\ \A t \in Pulls : pulls'[t].pc = "save" => pulls'[t].list # <<>>
      /\ FreshPullsInOrder' /\ CalmBesideFresh'
  BY <1>1, <1>2, <1>3, OnePullMoves DEF SyncFails
<1>5. DirectoryTypeOK' /\ SignsAsAnswered' /\ AdminsOfBitrix'
  BY <1>1, <1>4 DEF SyncFails, DirectoryInv, DirectoryTypeOK, SignsAsAnswered, AdminsOfBitrix
<1>6. CalmKnowsSeen'
  <2>1. \A t \in Pulls : t # s => pulls'[t] = pulls[t]
    BY <1>1 DEF DirectoryTypeOK
  <2>2. pulls'[s] = NoPull
    BY <1>1 DEF DirectoryTypeOK
  <2>3. Acting' = Acting
    BY DEF SyncFails, Acting
  <2> QED BY <1>2, <2>1, <2>2, <2>3 DEF DirectoryInv, CalmKnowsSeen
<1> QED BY <1>4, <1>5, <1>6 DEF DirectoryInv

LEMMA SyncBlankInv ==
  ASSUME DirectoryInv, NEW s \in Pulls, SyncBlank(s)
  PROVE  DirectoryInv'
<1>1. DirectoryTypeOK /\ pulls[s].pc = "page"
  BY DEF SyncBlank, DirectoryInv
<1>2. \A t \in Pulls : /\ pulls'[t] \in Pull /\ pulls'[t].calm = FALSE
                       /\ t # s => /\ pulls'[t].pc = pulls[t].pc /\ pulls'[t].start = pulls[t].start
                                   /\ pulls'[t].list = pulls[t].list /\ pulls'[t].seen = pulls[t].seen
                                   /\ pulls'[t].last = pulls[t].last /\ pulls'[t].fresh = pulls[t].fresh
                       /\ t = s => pulls'[t].fresh = FALSE /\ pulls'[t].pc = "end"
  <2> SUFFICES ASSUME NEW t \in Pulls
               PROVE  /\ pulls'[t] \in Pull /\ pulls'[t].calm = FALSE
                      /\ t # s => /\ pulls'[t].pc = pulls[t].pc /\ pulls'[t].start = pulls[t].start
                                  /\ pulls'[t].list = pulls[t].list /\ pulls'[t].seen = pulls[t].seen
                                  /\ pulls'[t].last = pulls[t].last /\ pulls'[t].fresh = pulls[t].fresh
                      /\ t = s => pulls'[t].fresh = FALSE /\ pulls'[t].pc = "end"
    OBVIOUS
  <2>1. pulls'[t] = [pulls[t] EXCEPT !.pc = IF t = s THEN "end" ELSE @,
                                     !.fresh = @ /\ t # s, !.calm = FALSE]
    BY DEF SyncBlank
  <2>2. pulls[t] \in Pull
    BY <1>1 DEF DirectoryTypeOK
  <2> QED BY <2>1, <2>2 DEF Pull
<1>3. pulls' \in [Pulls -> Pull]
  BY <1>2 DEF SyncBlank
<1>4. DirectoryTypeOK' /\ SignsAsAnswered' /\ AdminsOfBitrix'
  <2>1. \A t \in Pulls : pulls'[t].pc = "save" => pulls'[t].list # <<>>
    BY <1>1, <1>2 DEF DirectoryTypeOK
  <2>2. DirectoryTypeOK'
    BY <1>1, <1>3, <2>1 DEF SyncBlank, DirectoryTypeOK
  <2> QED BY <2>2 DEF SyncBlank, DirectoryInv, SignsAsAnswered, AdminsOfBitrix
<1>5. FreshPullsInOrder'
  <2>1. \A t \in Pulls : pulls'[t].fresh => SeenInOrder(pulls'[t])
    <3> SUFFICES ASSUME NEW t \in Pulls, pulls'[t].fresh
                 PROVE  SeenInOrder(pulls'[t])
      OBVIOUS
    <3>1. t # s /\ SeenInOrder(pulls[t])
      BY <1>2 DEF DirectoryInv, FreshPullsInOrder
    <3> QED BY <3>1, <1>2 DEF SeenInOrder
  <2> QED BY <2>1, OrderStays DEF FreshPullsInOrder, SyncBlank
<1>6. CalmBesideFresh' /\ CalmKnowsSeen'
  BY <1>2 DEF CalmBesideFresh, CalmKnowsSeen
<1> QED BY <1>4, <1>5, <1>6 DEF DirectoryInv

LEMMA SyncPageInv ==
  ASSUME DirectoryInv, NEW s \in Pulls, SyncPage(s)
  PROVE  DirectoryInv'
<1> DEFINE p == pulls[s]
           upTo == Min({p.start + PageSize, Len(Listed)})
           list == SubSeq(Listed, p.start + 1, upTo)
<1>1. /\ DirectoryTypeOK /\ p \in Pull /\ p.pc = "page" /\ PageSize \in Nat \ {0}
      /\ p.start \in Nat
  BY DirectoryAssumption DEF SyncPage, DirectoryInv, DirectoryTypeOK, Pull
<1>2. /\ Count \in Nat /\ Listed \in Seq(Staff) /\ Len(Listed) = Count
      /\ FirstOnes(Count) = staff
  <2>1. Listed \in Seq(staff) /\ staff \subseteq Staff
    BY <1>1, Staffed
  <2>2. Listed \in Seq(Staff)
    BY <2>1, SeqMonotonic
  <2> QED BY <1>1, <2>2, Staffed
<1>3. PICK n \in Nat : n = p.start
  BY <1>1
<1>4. upTo = UpTo(n + PageSize) /\ upTo \in 0 .. Count
  <2>1. \A a, b \in Nat : Min({a, b}) = IF a <= b THEN a ELSE b
    BY DEF Min
  <2> QED BY <1>1, <1>2, <1>3, <2>1 DEF UpTo
<1>5. /\ list \in Seq(Staff)
      /\ Len(list) = IF n + 1 <= upTo THEN upTo - n ELSE 0
  <2>1. \A i \in n + 1 .. upTo : Listed[i] \in Staff
    BY <1>2, <1>4, ElementOfSeq
  <2> HIDE DEF upTo
  <2> QED BY <1>3, <1>4, <2>1, SubSeqProperties
<1>6. (list = <<>>) <=> Len(list) = 0
  <2> HIDE DEF list
  <2> QED BY <1>5, EmptySeq
<1> DEFINE last == Len(list) < PageSize
<1>7. last <=> Count < n + PageSize
  <2> HIDE DEF upTo, list
  <2> QED BY <1>1, <1>2, <1>3, <1>4, <1>5 DEF UpTo
<1>8. (list = <<>>) <=> Count <= n
  <2> HIDE DEF upTo, list
  <2> QED BY <1>1, <1>2, <1>3, <1>4, <1>5, <1>6 DEF UpTo
<1>9. PICK read \in Seq(Staff), isLast \in BOOLEAN, to \in Nat :
        /\ to = UpTo(n + PageSize) /\ read = SubSeq(Listed, n + 1, to)
        /\ isLast <=> Count < n + PageSize
        /\ (read = <<>>) <=> Count <= n
        /\ pulls' = [pulls EXCEPT ![s].pc = IF read = <<>> THEN "end" ELSE "save",
                                  ![s].list = read, ![s].last = isLast,
                                  ![s].start = @ + PageSize]
  <2>1. last \in BOOLEAN
    OBVIOUS
  <2>2. pulls' = [pulls EXCEPT ![s].pc = IF list = <<>> THEN "end" ELSE "save",
                               ![s].list = list, ![s].last = last,
                               ![s].start = @ + PageSize]
    BY DEF SyncPage
  <2>3. list = SubSeq(Listed, n + 1, upTo)
    BY <1>3
  <2>4. upTo \in Nat
    BY <1>4, <1>2
  <2> HIDE DEF list, last, upTo
  <2> QED BY <1>4, <1>5, <1>7, <1>8, <2>1, <2>2, <2>3, <2>4
<1> DEFINE q == [p EXCEPT !.pc = IF read = <<>> THEN "end" ELSE "save",
                          !.list = read, !.last = isLast, !.start = @ + PageSize]
<1>10. pulls' = [pulls EXCEPT ![s] = q]
  BY <1>9, <1>1 DEF DirectoryTypeOK
<1>11. /\ q \in Pull
       /\ q.pc = IF read = <<>> THEN "end" ELSE "save"
       /\ q.list = read /\ q.start = n + PageSize
       /\ q.last = isLast /\ q.seen = p.seen /\ q.fresh = p.fresh /\ q.calm = p.calm
  <2> HIDE DEF p
  <2>1. p.start + PageSize \in Nat
    BY <1>1
  <2>2. q \in Pull
    BY <1>1, <2>1 DEF Pull
  <2> QED BY <1>1, <1>3, <2>2 DEF Pull
<1> HIDE DEF q
<1>12. ASSUME p.fresh
       PROVE  SeenInOrder(q)
  <2>1. p.seen = FirstOnes(UpTo(n))
    BY <1>1, <1>3, <1>12 DEF DirectoryInv, FreshPullsInOrder, SeenInOrder
  <2>2. CASE Count <= n
    <3>1. UpTo(n) = Count
      BY <2>2, <1>2 DEF UpTo
    <3> QED BY <2>1, <2>2, <3>1, <1>2, <1>9, <1>11 DEF SeenInOrder
  <2>3. CASE n < Count
    <3>1. UpTo(n) = n /\ n + 1 \in 1 .. UpTo(n + PageSize) /\ (n + 1) - 1 = n
      BY <2>3, <1>1, <1>2 DEF UpTo
    <3>2. q.pc = "save" /\ (q.last <=> Count < q.start)
      <4>1. ~(Count <= n)
        BY <2>3, <1>2
      <4>2. read # <<>> /\ (isLast <=> Count < n + PageSize)
        BY <4>1, <1>9
      <4> QED BY <4>2, <1>11
    <3>3. q.list = SubSeq(Listed, n + 1, UpTo(q.start)) /\ q.seen = FirstOnes((n + 1) - 1)
      BY <2>1, <3>1, <1>9, <1>11
    <3> QED BY <3>1, <3>2, <3>3, <1>11 DEF SeenInOrder
  <2> QED BY <2>2, <2>3, <1>2
<1>14. /\ pulls' \in [Pulls -> Pull]
       /\ \A t \in Pulls : pulls'[t].pc = "save" => pulls'[t].list # <<>>
       /\ FreshPullsInOrder' /\ CalmBesideFresh'
  <2>1. q.pc = "save" => q.list # <<>>
    BY <1>11
  <2>2. q.fresh => SeenInOrder(q)
    BY <1>11, <1>12
  <2>3. q.calm => ~Outdated
    BY <1>1, <1>11 DEF DirectoryInv, CalmBesideFresh
  <2>4. ~q.fresh => Outdated
    BY <1>1, <1>11 DEF Outdated
  <2> QED BY <1>10, <1>11, <2>1, <2>2, <2>3, <2>4, OnePullMoves DEF SyncPage
<1>15. DirectoryTypeOK' /\ SignsAsAnswered' /\ AdminsOfBitrix'
  <2>1. DirectoryTypeOK'
    BY <1>1, <1>14 DEF SyncPage, DirectoryTypeOK
  <2> QED BY <2>1 DEF SyncPage, DirectoryInv, SignsAsAnswered, AdminsOfBitrix
<1>16. CalmKnowsSeen'
  <2>1. \A t \in Pulls : t # s => pulls'[t] = pulls[t]
    BY <1>1, <1>10 DEF DirectoryTypeOK
  <2>2. pulls'[s] = q
    BY <1>1, <1>10 DEF DirectoryTypeOK
  <2>3. Acting' = Acting
    BY DEF SyncPage, Acting
  <2>4. p.calm => p.seen \subseteq Acting
    BY <1>1 DEF DirectoryInv, CalmKnowsSeen
  <2> QED BY <1>11, <2>1, <2>2, <2>3, <2>4 DEF DirectoryInv, CalmKnowsSeen
<1> QED BY <1>14, <1>15, <1>16 DEF DirectoryInv

LEMMA SyncSaveInv ==
  ASSUME DirectoryInv, NEW s \in Pulls, SyncSave(s)
  PROVE  DirectoryInv' /\ GivenRoleStays
<1> DEFINE p == pulls[s]
           u == Head(p.list)
<1>1. /\ DirectoryTypeOK /\ p \in Pull /\ p.pc = "save" /\ p.list # <<>>
      /\ p.start \in Nat /\ p.list \in Seq(Staff)
  BY DEF SyncSave, DirectoryInv, DirectoryTypeOK, Pull
<1>2. /\ u \in Staff /\ Tail(p.list) \in Seq(Staff) /\ Len(Tail(p.list)) = Len(p.list) - 1
      /\ Len(p.list) \in Nat \ {0}
  BY <1>1, HeadTailProperties, EmptySeq
<1>3. PICK w \in Staff, left \in Seq(Staff) :
        /\ w = u /\ left = Tail(p.list)
        /\ accounts' = [accounts EXCEPT ![w] = SyncedUser(@)]
        /\ pulls' = [pulls EXCEPT ![s].list = left, ![s].seen = @ \cup {w},
                                  ![s].pc = IF Len(p.list) > 1 THEN "save"
                                            ELSE IF p.last THEN "end" ELSE "page"]
  <2>1. /\ accounts' = [accounts EXCEPT ![u] = SyncedUser(@)]
        /\ pulls' = [pulls EXCEPT ![s].list = Tail(@), ![s].seen = @ \cup {u},
                                  ![s].pc = IF Len(p.list) > 1 THEN "save"
                                            ELSE IF p.last THEN "end" ELSE "page"]
    BY DEF SyncSave
  <2>2. pulls' = [pulls EXCEPT ![s].list = Tail(p.list), ![s].seen = @ \cup {u},
                               ![s].pc = IF Len(p.list) > 1 THEN "save"
                                         ELSE IF p.last THEN "end" ELSE "page"]
    BY <2>1, <1>1 DEF DirectoryTypeOK
  <2> HIDE DEF u
  <2> QED BY <1>2, <2>1, <2>2
<1>4. PICK pc \in {"save", "end", "page"} :
        pc = IF Len(p.list) > 1 THEN "save" ELSE IF p.last THEN "end" ELSE "page"
  OBVIOUS
<1> DEFINE q == [p EXCEPT !.list = left, !.seen = @ \cup {w}, !.pc = pc]
<1>5. pulls' = [pulls EXCEPT ![s] = q]
  <2>1. pulls' = [pulls EXCEPT ![s].list = left, ![s].seen = @ \cup {w}, ![s].pc = pc]
    BY <1>3, <1>4
  <2> QED BY <2>1, <1>1 DEF DirectoryTypeOK
<1>6. /\ q \in Pull /\ q.pc = pc /\ q.list = left /\ q.seen = p.seen \cup {w}
      /\ q.start = p.start /\ q.last = p.last /\ q.fresh = p.fresh /\ q.calm = p.calm
  <2>1. p.seen \cup {w} \in SUBSET Staff
    BY <1>1 DEF Pull
  <2> HIDE DEF p
  <2> QED BY <1>1, <2>1 DEF Pull
<1> HIDE DEF q
<1>7. ASSUME p.fresh
      PROVE  SeenInOrder(q)
  <2> DEFINE upTo == UpTo(p.start)
  <2>1. /\ Count \in Nat /\ Listed \in Seq(staff) /\ Len(Listed) = Count
        /\ FirstOnes(Count) = staff
    BY <1>1, Staffed
  <2>2. PICK k \in 1 .. upTo : p.list = SubSeq(Listed, k, upTo) /\ p.seen = FirstOnes(k - 1)
    BY <1>1, <1>7 DEF DirectoryInv, FreshPullsInOrder, SeenInOrder
  <2>3. p.last <=> Count < p.start
    BY <1>1, <1>7 DEF DirectoryInv, FreshPullsInOrder, SeenInOrder
  <2>4. upTo \in Nat /\ upTo <= Count /\ k \in Nat \ {0} /\ k <= upTo
    BY <1>1, <2>1 DEF UpTo
  <2>5. upTo = Count \/ upTo = p.start
    BY DEF UpTo
  <2>6. Count < p.start => upTo = Count
    BY <1>1, <2>1 DEF UpTo
  <2>7. ~(Count < p.start) => upTo = p.start
    BY <1>1, <2>1 DEF UpTo
  <2> HIDE DEF upTo
  <2>8. w = Listed[k] /\ left = SubSeq(Listed, k + 1, upTo)
    <3>1. k \in 1 .. Len(Listed) /\ upTo \in k .. Len(Listed)
      BY <2>1, <2>4
    <3>2. /\ Head(SubSeq(Listed, k, upTo)) = Listed[k]
          /\ Tail(SubSeq(Listed, k, upTo)) = SubSeq(Listed, k + 1, upTo)
      BY <2>1, <3>1, HeadTailOfSubSeq
    <3> QED BY <3>2, <1>3, <2>2
  <2>9. Len(p.list) = upTo - k + 1
    <3>1. \A i \in k .. upTo : Listed[i] \in staff
      BY <2>1, <2>4, ElementOfSeq
    <3> QED BY <3>1, <2>2, <2>4, SubSeqProperties
  <2>10. q.seen = FirstOnes(k)
    <3>1. 1 .. k = (1 .. k - 1) \cup {k}
      BY <2>4
    <3>2. FirstOnes(k) = FirstOnes(k - 1) \cup {Listed[k]}
      BY <3>1 DEF FirstOnes
    <3> QED BY <3>2, <2>2, <2>8, <1>6
  <2>11. CASE k < upTo
    <3>1. q.pc = "save" /\ k + 1 \in 1 .. upTo /\ (k + 1) - 1 = k
      BY <2>11, <2>4, <2>9, <1>4, <1>6
    <3>2. q.list = SubSeq(Listed, k + 1, UpTo(q.start)) /\ q.seen = FirstOnes((k + 1) - 1)
      BY <2>8, <2>10, <3>1, <1>6 DEF upTo
    <3>3. (q.last <=> Count < q.start) /\ UpTo(q.start) = upTo
      BY <2>3, <1>6 DEF upTo
    <3> QED BY <3>1, <3>2, <3>3 DEF SeenInOrder
  <2>12. CASE k = upTo
    <3>1. pc = IF p.last THEN "end" ELSE "page"
      BY <2>12, <2>4, <2>9, <1>4
    <3>2. p.last => q.pc = "end" /\ q.seen = staff
      BY <3>1, <2>1, <2>3, <2>6, <2>10, <2>12, <1>6
    <3>3. ~p.last => q.pc = "page" /\ q.seen = FirstOnes(UpTo(q.start))
      BY <3>1, <2>3, <2>7, <2>10, <2>12, <1>6 DEF upTo
    <3> QED BY <3>2, <3>3 DEF SeenInOrder
  <2> QED BY <2>4, <2>11, <2>12
<1>8. /\ pulls' \in [Pulls -> Pull]
      /\ \A t \in Pulls : pulls'[t].pc = "save" => pulls'[t].list # <<>>
      /\ FreshPullsInOrder' /\ CalmBesideFresh'
  <2>1. q.pc = "save" => q.list # <<>>
    <3>1. q.pc = "save" => Len(left) # 0
      BY <1>2, <1>3, <1>4, <1>6
    <3> QED BY <3>1, <1>6, EmptySeq
  <2>2. q.fresh => SeenInOrder(q)
    BY <1>6, <1>7
  <2>3. q.calm => ~Outdated
    BY <1>1, <1>6 DEF DirectoryInv, CalmBesideFresh
  <2>4. ~q.fresh => Outdated
    BY <1>1, <1>6 DEF Outdated
  <2> QED BY <1>5, <1>6, <2>1, <2>2, <2>3, <2>4, OnePullMoves DEF SyncSave
<1>9. \A a \in Staff : /\ accounts'[a] \in Account
                       /\ accounts'[a].role = accounts[a].role
                       /\ accounts'[a].isBitrixAdmin = accounts[a].isBitrixAdmin
                       /\ accounts[a].known => accounts'[a].known
                       /\ accounts[a].isActive => accounts'[a].isActive
                       /\ a = w => accounts'[a].known /\ accounts'[a].isActive
  BY <1>1, <1>3 DEF DirectoryTypeOK, SyncedUser, Account
<1>10. DirectoryTypeOK' /\ SignsAsAnswered' /\ AdminsOfBitrix' /\ GivenRoleStays
  <2>1. accounts' \in [Staff -> Account]
    BY <1>1, <1>3, <1>9 DEF DirectoryTypeOK
  <2>2. DirectoryTypeOK'
    BY <1>1, <1>8, <2>1 DEF SyncSave, DirectoryTypeOK
  <2>3. SignsAsAnswered'
    BY DEF DirectoryInv, SignsAsAnswered, SyncSave
  <2>4. AdminsOfBitrix' /\ GivenRoleStays
    BY <1>9 DEF DirectoryInv, AdminsOfBitrix, GivenRoleStays, ResolveRole, SyncSave
  <2> QED BY <2>2, <2>3, <2>4
<1>11. CalmKnowsSeen'
  <2>1. \A t \in Pulls : t # s => pulls'[t] = pulls[t]
    BY <1>1, <1>5 DEF DirectoryTypeOK
  <2>2. pulls'[s] = q
    BY <1>1, <1>5 DEF DirectoryTypeOK
  <2>3. Acting \subseteq Acting' /\ w \in Acting'
    BY <1>9 DEF Acting
  <2>4. p.calm => p.seen \subseteq Acting
    BY <1>1 DEF DirectoryInv, CalmKnowsSeen
  <2> QED BY <1>6, <2>1, <2>2, <2>3, <2>4 DEF DirectoryInv, CalmKnowsSeen
<1> QED BY <1>8, <1>10, <1>11 DEF DirectoryInv

LEMMA SyncEndInv ==
  ASSUME DirectoryInv, NEW s \in Pulls, SyncEnd(s)
  PROVE  DirectoryInv' /\ GivenRoleStays /\ (pulls[s].calm => Acting' = staff)
<1>1. /\ DirectoryTypeOK /\ pulls[s].pc = "end" /\ pulls' = [pulls EXCEPT ![s] = NoPull]
      /\ staff \subseteq Staff /\ staff # {}
  BY Staffed DEF SyncEnd, DirectoryInv
<1>2. NoPull \in Pull /\ NoPull.pc = "idle"
  BY DEF NoPull, Pull
<1>3. SeenInOrder(NoPull)
  BY <1>2 DEF SeenInOrder
<1>4. /\ pulls' \in [Pulls -> Pull]
      /\ \A t \in Pulls : pulls'[t].pc = "save" => pulls'[t].list # <<>>
      /\ FreshPullsInOrder' /\ CalmBesideFresh'
  BY <1>1, <1>2, <1>3, OnePullMoves DEF SyncEnd
<1>5. \A a \in Staff : /\ accounts'[a] \in Account
                       /\ accounts'[a].role = accounts[a].role
                       /\ accounts'[a].isBitrixAdmin = accounts[a].isBitrixAdmin
                       /\ accounts'[a].known = accounts[a].known
                       /\ accounts'[a].isActive <=>
                            accounts[a].isActive /\ a \notin Gone(pulls[s].seen)
  <2> SUFFICES ASSUME NEW a \in Staff
               PROVE  /\ accounts'[a] \in Account
                      /\ accounts'[a].role = accounts[a].role
                      /\ accounts'[a].isBitrixAdmin = accounts[a].isBitrixAdmin
                      /\ accounts'[a].known = accounts[a].known
                      /\ accounts'[a].isActive <=>
                           accounts[a].isActive /\ a \notin Gone(pulls[s].seen)
    OBVIOUS
  <2>1. accounts[a] \in Account
    BY <1>1 DEF DirectoryTypeOK
  <2>2. accounts'[a] = IF a \in Gone(pulls[s].seen)
                         THEN [accounts[a] EXCEPT !.isActive = FALSE] ELSE accounts[a]
    BY DEF SyncEnd
  <2> QED BY <2>1, <2>2 DEF Account
<1>6. DirectoryTypeOK' /\ SignsAsAnswered' /\ AdminsOfBitrix' /\ GivenRoleStays
  <2>1. accounts' \in [Staff -> Account]
    BY <1>5 DEF SyncEnd
  <2>2. DirectoryTypeOK'
    BY <1>1, <1>4, <2>1 DEF SyncEnd, DirectoryTypeOK
  <2>3. SignsAsAnswered'
    BY DEF DirectoryInv, SignsAsAnswered, SyncEnd
  <2>4. AdminsOfBitrix' /\ GivenRoleStays
    BY <1>5 DEF DirectoryInv, AdminsOfBitrix, GivenRoleStays, ResolveRole, SyncEnd
  <2> QED BY <2>2, <2>3, <2>4
<1>7. ASSUME ~Outdated
      PROVE  pulls[s].seen = staff /\ Gone(pulls[s].seen) = Staff \ staff
  <2>1. pulls[s].fresh
    BY <1>1, <1>7 DEF Outdated
  <2> QED BY <2>1, <1>1 DEF DirectoryInv, FreshPullsInOrder, SeenInOrder, Gone
<1>8. ASSUME NEW t \in Pulls, pulls[t].pc # "idle", pulls[t].calm
      PROVE  pulls[t].seen \subseteq Acting'
  <2>1. ~Outdated /\ pulls[t].fresh /\ pulls[t].seen \subseteq Acting
    BY <1>8 DEF DirectoryInv, CalmBesideFresh, CalmKnowsSeen, Outdated
  <2>2. pulls[t].seen \subseteq staff
    <3>1. SeenInOrder(pulls[t]) /\ pulls[t] \in Pull
      BY <2>1, <1>1 DEF DirectoryInv, FreshPullsInOrder, DirectoryTypeOK
    <3>2. /\ Count \in Nat /\ Len(Listed) = Count /\ Listed \in Seq(staff)
      BY <1>1, Staffed
    <3>3. \A i \in 1 .. Count : Listed[i] \in staff
      BY <3>2, ElementOfSeq
    <3>4. \A k \in Nat : k <= Count => FirstOnes(k) \subseteq staff
      BY <3>2, <3>3 DEF FirstOnes
    <3>5. CASE pulls[t].pc = "page"
      <4>1. UpTo(pulls[t].start) \in Nat /\ UpTo(pulls[t].start) <= Count
        BY <3>1, <3>2 DEF Pull, UpTo
      <4> QED BY <4>1, <3>1, <3>4, <3>5 DEF SeenInOrder
    <3>6. CASE pulls[t].pc = "save"
      <4>1. UpTo(pulls[t].start) \in Nat /\ UpTo(pulls[t].start) <= Count
        BY <3>1, <3>2 DEF Pull, UpTo
      <4>2. PICK k \in 1 .. UpTo(pulls[t].start) : pulls[t].seen = FirstOnes(k - 1)
        BY <3>1, <3>6 DEF SeenInOrder
      <4>3. k - 1 \in Nat /\ k - 1 <= Count
        BY <4>1, <3>2
      <4> QED BY <4>2, <4>3, <3>4
    <3>7. CASE pulls[t].pc = "end"
      BY <3>1, <3>7 DEF SeenInOrder
    <3> QED BY <3>1, <3>5, <3>6, <3>7, <1>8 DEF Pull
  <2>3. Gone(pulls[s].seen) = Staff \ staff
    BY <2>1, <1>7
  <2> QED BY <1>5, <2>1, <2>2, <2>3 DEF Acting
<1>9. CalmKnowsSeen'
  <2>1. \A t \in Pulls : t # s => pulls'[t] = pulls[t]
    BY <1>1 DEF DirectoryTypeOK
  <2>2. pulls'[s] = NoPull
    BY <1>1 DEF DirectoryTypeOK
  <2> QED BY <1>2, <1>8, <2>1, <2>2 DEF CalmKnowsSeen
<1>10. ASSUME pulls[s].calm
       PROVE  Acting' = staff
  <2>1. ~Outdated /\ pulls[s].seen \subseteq Acting'
    BY <1>1, <1>8, <1>10 DEF DirectoryInv, CalmBesideFresh
  <2> QED BY <2>1, <1>1, <1>5, <1>7 DEF Acting
<1> QED BY <1>4, <1>6, <1>9, <1>10 DEF DirectoryInv

LEMMA DirectoryStep ==
  DirectoryInv /\ [DirectoryNext]_directoryVars =>
    /\ DirectoryInv'
    /\ [AdminsOfBitrix' /\ CalmPullExact /\ GivenRoleStays]_directoryVars
<1> SUFFICES ASSUME DirectoryInv, [DirectoryNext]_directoryVars
             PROVE  /\ DirectoryInv'
                    /\ [AdminsOfBitrix' /\ CalmPullExact /\ GivenRoleStays]_directoryVars
  OBVIOUS
<1> DEFINE Good == DirectoryInv' /\ CalmPullExact /\ GivenRoleStays
<1>1. ASSUME UNCHANGED accounts
      PROVE  GivenRoleStays
  BY <1>1 DEF GivenRoleStays
<1>2. ASSUME \A s \in Pulls : pulls'[s].pc = "idle" => pulls[s].pc # "end"
      PROVE  CalmPullExact
  BY <1>2 DEF CalmPullExact
<1>3. pulls \in [Pulls -> Pull]
  BY DEF DirectoryInv, DirectoryTypeOK
<1>4. ASSUME UNCHANGED pulls
      PROVE  CalmPullExact
  BY <1>4, <1>2
<1>5. CASE StaffChanges
  <2>1. \A s \in Pulls : pulls'[s].pc = pulls[s].pc
    <3> SUFFICES ASSUME NEW s \in Pulls PROVE pulls'[s].pc = pulls[s].pc
      OBVIOUS
    <3>1. pulls'[s] = [pulls[s] EXCEPT !.fresh = FALSE, !.calm = FALSE]
      BY <1>5 DEF StaffChanges
    <3> QED BY <3>1, <1>3 DEF Pull
  <2>2. CalmPullExact
    BY <2>1, <1>2
  <2> QED BY <2>2, <1>5, <1>1, StaffChangesInv DEF StaffChanges, DirectoryInv
<1>6. CASE GrantRole
  BY <1>4, <1>6, GrantRoleInv DEF GrantRole, DirectoryInv
<1>7. ASSUME NEW s \in Pulls, SyncStart(s)
      PROVE  Good
  <2>1. \A t \in Pulls : t # s => pulls'[t] = pulls[t]
    BY <1>3, <1>7 DEF SyncStart
  <2>2. pulls[s].pc = "idle"
    BY <1>7 DEF SyncStart
  <2>3. CalmPullExact
    BY <2>1, <2>2, <1>2
  <2> QED BY <2>3, <1>1, <1>7, SyncStartInv DEF SyncStart
<1>8. ASSUME NEW s \in Pulls, SyncPage(s)
      PROVE  Good
  <2>1. \A t \in Pulls : t # s => pulls'[t] = pulls[t]
    BY <1>3, <1>8 DEF SyncPage
  <2>2. pulls[s].pc = "page"
    BY <1>8 DEF SyncPage
  <2>3. CalmPullExact
    BY <2>1, <2>2, <1>2
  <2> QED BY <2>3, <1>1, <1>8, SyncPageInv DEF SyncPage
<1>9. ASSUME NEW s \in Pulls, SyncBlank(s)
      PROVE  Good
  <2>1. ASSUME NEW t \in Pulls PROVE t # s => pulls'[t].pc = pulls[t].pc
    <3>1. pulls'[t] = [pulls[t] EXCEPT !.pc = IF t = s THEN "end" ELSE @,
                                       !.fresh = @ /\ t # s, !.calm = FALSE]
      BY <1>9 DEF SyncBlank
    <3> QED BY <3>1, <1>3 DEF Pull
  <2>2. pulls[s].pc = "page"
    BY <1>9 DEF SyncBlank
  <2>3. CalmPullExact
    BY <2>1, <2>2, <1>2
  <2> QED BY <2>3, <1>1, <1>9, SyncBlankInv DEF SyncBlank
<1>10. ASSUME NEW s \in Pulls, SyncSave(s)
       PROVE  Good
  <2>1. \A t \in Pulls : t # s => pulls'[t] = pulls[t]
    BY <1>3, <1>10 DEF SyncSave
  <2>2. pulls[s].pc = "save"
    BY <1>10 DEF SyncSave
  <2>3. CalmPullExact
    BY <2>1, <2>2, <1>2
  <2> QED BY <2>3, <1>10, SyncSaveInv
<1>11. ASSUME NEW s \in Pulls, SyncEnd(s)
       PROVE  Good
  <2>1. \A t \in Pulls : t # s => pulls'[t] = pulls[t]
    BY <1>3, <1>11 DEF SyncEnd
  <2>2. CalmPullExact
    BY <2>1, <1>11, SyncEndInv DEF CalmPullExact
  <2> QED BY <2>2, <1>11, SyncEndInv
<1>12. ASSUME NEW s \in Pulls, SyncFails(s)
       PROVE  Good
  <2>1. \A t \in Pulls : t # s => pulls'[t] = pulls[t]
    BY <1>3, <1>12 DEF SyncFails
  <2>2. pulls[s].pc = "page"
    BY <1>12 DEF SyncFails
  <2>3. CalmPullExact
    BY <2>1, <2>2, <1>2
  <2> QED BY <2>3, <1>1, <1>12, SyncFailsInv DEF SyncFails
<1>13. ASSUME NEW p \in Staff, SignIn(p)
       PROVE  Good
  BY <1>1, <1>4, <1>13, SignInInv DEF SignIn
<1>14. CASE SignInSave
  BY <1>4, <1>14, SignInSaveInv DEF SignInSave, DirectoryInv
<1>15. CASE UNCHANGED directoryVars
  BY <1>15, OrderStays DEF directoryVars, DirectoryInv, DirectoryTypeOK, SignsAsAnswered,
     AdminsOfBitrix, FreshPullsInOrder, CalmBesideFresh, CalmKnowsSeen, Outdated, Acting
<1> QED BY <1>5, <1>6, <1>7, <1>8, <1>9, <1>10, <1>11, <1>12, <1>13, <1>14, <1>15
        DEF DirectoryNext, DirectoryInv

(* People are on, and may do, what Bitrix24 and the application's own      *)
(* administrators say.                                                     *)
THEOREM DirectoryIsFollowed == DirectorySpec => DirectoryFollowsBitrix
<1>1. DirectoryInv => AdminsOfBitrix
  BY DEF DirectoryInv
<1> QED BY <1>1, DirectoryInitInv, DirectoryStep, PTL DEF DirectorySpec, DirectoryFollowsBitrix

-----------------------------------------------------------------------------
(* Plans and requests.                                                     *)

PlansSpec == PlansInit /\ [][PlansNext]_planVars

Source == [plan : {"FREE", "PRO"}, expiresAt : Nat \cup {NoDate}]

Lead == [kind : Kinds, status : {"NEW", "CONTACTED", "CONVERTED", "DECLINED"}, since : Nat]

PlansTypeOK ==
  /\ day \in Nat /\ raced \in BOOLEAN
  /\ plan \in Source /\ grants \in Seq(Source) /\ leads \in Seq(Lead)
  /\ sending \in [Senders -> Kinds \cup {"nothing"}]
  /\ granting \in [Operators -> Nat]

(* The portal's row is the last entry of its history.                      *)
PlanIsLast == plan = IF grants = <<>> THEN [plan |-> "FREE", expiresAt |-> NoDate] ELSE grants[Len(grants)]

(* A request on its way is the only one of its kind, and none is open.     *)
SentAlone ==
  ~raced => \A s \in Senders : sending[s] # "nothing" =>
    /\ \A i \in DOMAIN leads : leads[i].kind = sending[s] => leads[i].status \notin Pending
    /\ \A t \in Senders : sending[t] = sending[s] => t = s

GrantedSince(i) == \E g \in DOMAIN grants : g > leads[i].since /\ grants[g].plan = "PRO"

(* A request being converted was granted first.                            *)
GrantComesFirst ==
  /\ \A i \in DOMAIN leads : leads[i].since <= Len(grants)
  /\ \A o \in Operators : granting[o] # 0 => granting[o] \in DOMAIN leads /\ GrantedSince(granting[o])

PlansInv == PlansTypeOK /\ PlanIsLast /\ SentAlone /\ GrantComesFirst /\ OneOpenLead /\ ConvertedWasGranted

-----------------------------------------------------------------------------
(* The setup of a portal.                                                  *)

SetupSpec == SetupInit /\ [][SetupNext]_setupVars

RoleTable == [CrmSections -> Roles \cup {"none"}]

SetupPage ==
  [pc : {"closed", "open", "saving"}, roles : RoleTable, off : SUBSET AppSections, todo : SUBSET CrmSections, known : SUBSET CrmSections,
   overlapped : BOOLEAN]

Overview == [pc : {"none", "entered", "listed", "kept"}, key : Nat, roles : RoleTable]

SetupTypeOK ==
  /\ there \in SUBSET CrmSections /\ roles \in RoleTable /\ disabled \in SUBSET AppSections /\ completed \in Nat /\ partly \in BOOLEAN
  /\ wizard \in [Wizards -> SetupPage]
  /\ overview \in [kept : Overview, read : Overview]

(* A save has still to write some of the sections listed, and one that no  *)
(* other overlapped is alone and finds the others as it wrote them.        *)
SavingSound(a) ==
  /\ wizard[a].todo \subseteq ListedSections(a)
  /\ ~wizard[a].overlapped =>
       /\ Busy = {a}
       /\ \A s \in ListedSections(a) \ wizard[a].todo : roles[s] = wizard[a].roles[s]

(* What was saved last is known while no save has begun since.             *)
KnownWhileIdle == lastSetup.known => Busy = {}

(* No save has written a role that it has not completed.                   *)
Untouched == ~partly /\ \A a \in Busy : wizard[a].todo = ListedSections(a)

(* An overview read or kept under the last completed save is of its roles  *)
(* until another save writes one.                                          *)
OverviewSound(o) ==
  /\ o.key <= completed
  /\ o.pc \in {"listed", "kept"} /\ o.key = completed /\ Untouched => o.roles = RolesNow

SetupInv ==
  /\ SetupTypeOK /\ KnownWhileIdle
  /\ \A a \in Busy : SavingSound(a)
  /\ OverviewSound(overview.kept) /\ OverviewSound(overview.read)
  /\ SetupInForce

-----------------------------------------------------------------------------
(* Proofs about plans and requests.                                        *)

LEMMA InitPlansInv == PlansInit => PlansInv
<1> SUFFICES ASSUME PlansInit PROVE PlansInv
  OBVIOUS
<1>1. grants = <<>> /\ leads = <<>> /\ \A s \in Senders : sending[s] = "nothing"
  BY DEF PlansInit
<1>2. DOMAIN leads = {}
  BY <1>1
<1>3. plan = [plan |-> "FREE", expiresAt |-> NoDate] /\ plan \in Source
  BY DEF PlansInit, Source
<1>4. PlansTypeOK /\ PlanIsLast
  <2>1. grants \in Seq(Source) /\ leads \in Seq(Lead)
    BY <1>1
  <2>2. sending \in [Senders -> Kinds \cup {"nothing"}] /\ granting \in [Operators -> Nat]
    BY DEF PlansInit
  <2> QED
    BY <1>1, <1>3, <2>1, <2>2 DEF PlansInit, PlansTypeOK, PlanIsLast
<1>5. SentAlone
  BY <1>1 DEF SentAlone
<1>6. GrantComesFirst
  BY <1>2 DEF PlansInit, GrantComesFirst
<1>7. OneOpenLead /\ ConvertedWasGranted
  BY <1>2 DEF OneOpenLead, ConvertedWasGranted
<1> QED
  BY <1>4, <1>5, <1>6, <1>7 DEF PlansInv

(* A status set changes a request's status and nothing else.               *)
LEMMA StatusSet ==
  ASSUME leads \in Seq(Lead), NEW i \in DOMAIN leads, NEW status \in {"NEW", "CONTACTED", "CONVERTED", "DECLINED"},
         SetStatus(i, status)
  PROVE  /\ leads' \in Seq(Lead) /\ DOMAIN leads' = DOMAIN leads
         /\ \A j \in DOMAIN leads :
              /\ leads'[j].kind = leads[j].kind /\ leads'[j].since = leads[j].since
              /\ leads'[j].status = IF j = i THEN status ELSE leads[j].status
<1>1. leads[i] \in Lead /\ leads' = [leads EXCEPT ![i].status = status]
  BY DEF SetStatus
<1> DEFINE lead == [leads[i] EXCEPT !.status = status]
<1>2. lead \in Lead /\ lead.kind = leads[i].kind /\ lead.since = leads[i].since /\ lead.status = status
  BY <1>1 DEF Lead
<1>3. leads' = [leads EXCEPT ![i] = lead]
  BY <1>1
<1> HIDE DEF lead
<1>4. leads' \in Seq(Lead) /\ DOMAIN leads' = DOMAIN leads
  BY <1>2, <1>3, ExceptSeq
<1>5. \A j \in DOMAIN leads : leads'[j] = IF j = i THEN lead ELSE leads[j]
  BY <1>3
<1> QED
  BY <1>2, <1>4, <1>5

(* A request is added to the others, which stay as they are.               *)
LEMMA LeadAppended ==
  ASSUME leads \in Seq(Lead), NEW lead \in Lead, leads' = Append(leads, lead)
  PROVE  /\ leads' \in Seq(Lead) /\ DOMAIN leads' = DOMAIN leads \cup {Len(leads) + 1}
         /\ Len(leads) + 1 \notin DOMAIN leads /\ leads'[Len(leads) + 1] = lead
         /\ \A j \in DOMAIN leads : leads'[j] = leads[j]
<1>1. leads' \in Seq(Lead) /\ Len(leads') = Len(leads) + 1 /\ Len(leads) \in Nat
  BY AppendProperties
<1>2. DOMAIN leads' = 1 .. Len(leads) + 1 /\ DOMAIN leads = 1 .. Len(leads)
  BY <1>1
<1>3. \A j \in 1 .. Len(leads) : leads'[j] = leads[j]
  BY AppendProperties
<1>4. leads'[Len(leads) + 1] = lead
  BY AppendProperties
<1> QED
  BY <1>1, <1>2, <1>3, <1>4

(* An entry is added to the history, and is the portal's row.              *)
LEMMA PlanSet ==
  ASSUME PlansTypeOK, NEW to \in Source, SetPlan(to)
  PROVE  /\ plan' = to /\ grants' \in Seq(Source) /\ Len(grants') = Len(grants) + 1
         /\ grants' # <<>> /\ grants'[Len(grants')] = to
         /\ DOMAIN grants \subseteq DOMAIN grants' /\ Len(grants) + 1 \in DOMAIN grants'
         /\ \A g \in DOMAIN grants : grants'[g] = grants[g]
<1>1. plan' = to /\ grants' = Append(grants, to) /\ grants \in Seq(Source) /\ Len(grants) \in Nat
  BY DEF SetPlan, PlansTypeOK
<1>2. grants' \in Seq(Source) /\ Len(grants') = Len(grants) + 1 /\ grants'[Len(grants) + 1] = to
  BY <1>1, AppendProperties
<1>3. \A g \in 1 .. Len(grants) : grants'[g] = grants[g]
  BY <1>1, AppendProperties
<1>4. DOMAIN grants' = 1 .. Len(grants) + 1 /\ DOMAIN grants = 1 .. Len(grants)
  BY <1>1, <1>2
<1>5. grants' # <<>>
  BY <1>1, <1>2
<1> QED
  BY <1>1, <1>2, <1>3, <1>4, <1>5

(* Whatever the history gains, what was granted since stays granted.       *)
LEMMA GrantsStand ==
  ASSUME PlansTypeOK, GrantComesFirst, ConvertedWasGranted, NEW to \in Source, SetPlan(to), leads' = leads
  PROVE  /\ \A i \in DOMAIN leads : leads[i].since <= Len(grants') /\ (GrantedSince(i) => GrantedSince(i)')
         /\ ConvertedWasGranted'
<1>1. /\ DOMAIN grants \subseteq DOMAIN grants' /\ Len(grants') = Len(grants) + 1 /\ Len(grants) \in Nat
      /\ \A g \in DOMAIN grants : grants'[g] = grants[g]
  BY PlanSet DEF PlansTypeOK
<1>2. ASSUME NEW i \in DOMAIN leads
      PROVE  leads[i].since \in Nat /\ leads[i].since <= Len(grants)
  <2>1. leads[i] \in Lead
    BY DEF PlansTypeOK
  <2> QED
    BY <2>1 DEF GrantComesFirst, Lead
<1>3. \A i \in DOMAIN leads : GrantedSince(i) => GrantedSince(i)'
  BY <1>1 DEF GrantedSince
<1>4. \A i \in DOMAIN leads : leads[i].since <= Len(grants')
  BY <1>1, <1>2
<1>5. ConvertedWasGranted'
  BY <1>3 DEF ConvertedWasGranted, GrantedSince
<1> QED
  BY <1>3, <1>4, <1>5

(* A person looks for an open request and sends one.                       *)
LEMMA SendersStep ==
  ASSUME PlansInv, NEW s \in Senders, (\E kind \in Kinds : CheckLead(s, kind)) \/ CreateLead(s)
  PROVE  PlansInv'
<1> USE DEF PlansInv
<1>1. ASSUME NEW kind \in Kinds, CheckLead(s, kind)
      PROVE  PlansInv'
  <2>1. /\ UNCHANGED <<day, plan, grants, leads, granting>>
        /\ sending' = [sending EXCEPT ![s] = kind]
        /\ raced' = (raced \/ \E other \in Senders \ {s} : sending[other] = kind)
        /\ OpenOf(kind) = {}
    BY <1>1 DEF CheckLead
  <2>2. PlansTypeOK' /\ PlanIsLast' /\ GrantComesFirst' /\ OneOpenLead' /\ ConvertedWasGranted'
    BY <2>1 DEF PlansTypeOK, PlanIsLast, GrantComesFirst, GrantedSince, OneOpenLead, ConvertedWasGranted
  <2>3. SentAlone'
    <3> SUFFICES ASSUME ~raced' PROVE SentAlone'
      BY DEF SentAlone
    <3>1. ~raced /\ \A other \in Senders \ {s} : sending[other] # kind
      BY <2>1
    <3>2. \A u \in Senders : sending'[u] = IF u = s THEN kind ELSE sending[u]
      BY <2>1 DEF PlansTypeOK
    <3>3. \A i \in DOMAIN leads : leads[i].kind = kind => leads[i].status \notin Pending
      BY <2>1 DEF OpenOf
    <3> QED
      BY <2>1, <3>1, <3>2, <3>3 DEF SentAlone
  <2> QED
    BY <2>2, <2>3
<1>2. CASE CreateLead(s)
  <2> DEFINE lead == [kind |-> sending[s], status |-> "NEW", since |-> Len(grants)]
             new == Len(leads) + 1
  <2>1. /\ UNCHANGED <<day, plan, grants, granting, raced>>
        /\ sending' = [sending EXCEPT ![s] = "nothing"] /\ sending[s] # "nothing"
        /\ leads' = Append(leads, lead)
    BY <1>2 DEF CreateLead
  <2>2. Len(grants) \in Nat /\ sending[s] \in Kinds
    BY <2>1 DEF PlansTypeOK
  <2>3. lead \in Lead /\ lead.kind = sending[s] /\ lead.status = "NEW" /\ lead.since = Len(grants)
    BY <2>2 DEF Lead
  <2> HIDE DEF lead
  <2>4. /\ leads' \in Seq(Lead) /\ DOMAIN leads' = DOMAIN leads \cup {new} /\ new \notin DOMAIN leads
        /\ leads'[new] = lead /\ \A j \in DOMAIN leads : leads'[j] = leads[j]
    BY <2>1, <2>3, LeadAppended DEF PlansTypeOK
  <2> HIDE DEF new
  <2>5. PlansTypeOK' /\ PlanIsLast'
    BY <2>1, <2>4 DEF PlansTypeOK, PlanIsLast
  <2>6. GrantComesFirst' /\ ConvertedWasGranted'
    <3>1. \A j \in DOMAIN leads : GrantedSince(j)' = GrantedSince(j)
      BY <2>1, <2>4 DEF GrantedSince
    <3>2. \A j \in DOMAIN leads' : leads'[j].since <= Len(grants')
      BY <2>1, <2>2, <2>3, <2>4 DEF GrantComesFirst
    <3>3. ASSUME NEW o \in Operators, granting'[o] # 0
          PROVE  granting'[o] \in DOMAIN leads' /\ (GrantedSince(granting[o]))'
      <4>1. granting[o] # 0 /\ granting' = granting
        BY <2>1, <3>3
      <4>2. granting[o] \in DOMAIN leads /\ GrantedSince(granting[o])
        BY <4>1 DEF GrantComesFirst
      <4> QED
        BY <2>1, <2>4, <4>1, <4>2 DEF GrantedSince
    <3>4. ConvertedWasGranted'
      BY <2>1, <2>3, <2>4 DEF ConvertedWasGranted
    <3> QED
      BY <3>2, <3>3, <3>4 DEF GrantComesFirst
  <2>7. ASSUME ~raced'
        PROVE  SentAlone' /\ OneOpenLead'
    <3>1. /\ ~raced /\ \A t \in Senders : sending[t] = sending[s] => t = s
          /\ \A j \in DOMAIN leads : leads[j].kind = sending[s] => leads[j].status \notin Pending
      BY <2>1, <2>7 DEF SentAlone
    <3>2. \A t \in Senders : sending'[t] = IF t = s THEN "nothing" ELSE sending[t]
      BY <2>1 DEF PlansTypeOK
    <3>3. SentAlone'
      BY <2>3, <2>4, <3>1, <3>2 DEF SentAlone
    <3>4. OneOpenLead'
      BY <2>3, <2>4, <3>1 DEF OneOpenLead
    <3> QED
      BY <3>3, <3>4
  <2>8. SentAlone' /\ OneOpenLead'
    BY <2>7 DEF SentAlone, OneOpenLead
  <2> QED
    BY <2>5, <2>6, <2>8
<1> QED
  BY <1>1, <1>2

(* A status may be set as long as nothing is converted that was not        *)
(* granted, and nothing handled is opened again by who did not see it.     *)
LEMMA StatusStep ==
  ASSUME PlansInv, NEW i \in DOMAIN leads, NEW status \in {"NEW", "CONTACTED", "CONVERTED", "DECLINED"},
         SetStatus(i, status), UNCHANGED <<day, plan, grants, sending>>,
         granting' \in [Operators -> Nat], \A o \in Operators : granting'[o] \in {granting[o], 0},
         leads[i].kind = "PRO" /\ status = "CONVERTED" => GrantedSince(i),
         raced' \in BOOLEAN, ~raced' => ~raced /\ (status \in Pending => leads[i].status \in Pending)
  PROVE  PlansInv'
<1> USE DEF PlansInv
<1>1. /\ leads' \in Seq(Lead) /\ DOMAIN leads' = DOMAIN leads
      /\ \A j \in DOMAIN leads :
           /\ leads'[j].kind = leads[j].kind /\ leads'[j].since = leads[j].since
           /\ leads'[j].status = IF j = i THEN status ELSE leads[j].status
  BY StatusSet DEF PlansTypeOK
<1>2. PlansTypeOK' /\ PlanIsLast'
  BY <1>1 DEF PlansTypeOK, PlanIsLast
<1>3. \A j \in DOMAIN leads : GrantedSince(j) => GrantedSince(j)'
  BY <1>1 DEF GrantedSince
<1>4. GrantComesFirst'
  <2>1. \A j \in DOMAIN leads' : leads'[j].since <= Len(grants')
    BY <1>1 DEF GrantComesFirst
  <2>2. ASSUME NEW o \in Operators, granting'[o] # 0
        PROVE  granting'[o] \in DOMAIN leads' /\ (GrantedSince(granting[o]))'
    <3>1. granting'[o] = granting[o] /\ granting[o] # 0
      BY <2>2
    <3>2. granting[o] \in DOMAIN leads /\ GrantedSince(granting[o])
      BY <3>1 DEF GrantComesFirst
    <3> QED
      BY <1>1, <3>1, <3>2 DEF GrantedSince
  <2> QED
    BY <2>1, <2>2 DEF GrantComesFirst
<1>5. ConvertedWasGranted'
  <2>1. ASSUME NEW j \in DOMAIN leads', leads'[j].kind = "PRO", leads'[j].status = "CONVERTED"
        PROVE  GrantedSince(j)'
    BY <1>1, <1>3, <2>1 DEF ConvertedWasGranted, GrantedSince
  <2> QED
    BY <2>1 DEF ConvertedWasGranted, GrantedSince
<1>6. ASSUME ~raced'
      PROVE  SentAlone' /\ OneOpenLead'
  <2>1. \A j \in DOMAIN leads : leads'[j].status \in Pending => leads[j].status \in Pending
    BY <1>1, <1>6
  <2> QED
    BY <1>1, <1>6, <2>1 DEF SentAlone, OneOpenLead
<1>7. SentAlone' /\ OneOpenLead'
  BY <1>6 DEF SentAlone, OneOpenLead
<1> QED
  BY <1>2, <1>4, <1>5, <1>7

LEMMA PlanOperatorStep ==
  ASSUME PlansInv,
         \/ SavePlan
         \/ \E i \in DOMAIN leads : \E shown \in Shown(i) :
              Handle(i, shown) \/ \E o \in Operators : GrantFromLead(o, i, shown)
         \/ \E o \in Operators : ConvertLead(o) \/ ConvertFails(o)
  PROVE  PlansInv'
<1> USE DEF PlansInv
<1>1. CASE SavePlan
  <2>1. PICK to \in [plan : {"FREE", "PRO"}, expiresAt : {NoDate, day + 1}] : SetPlan(to)
    BY <1>1 DEF SavePlan
  <2>2. to \in Source
    BY DEF Source, PlansTypeOK
  <2>3. UNCHANGED <<day, leads, sending, granting, raced>>
    BY <1>1 DEF SavePlan
  <2>4. PlansTypeOK' /\ PlanIsLast'
    BY <2>1, <2>2, <2>3, PlanSet DEF PlansTypeOK, PlanIsLast
  <2>5. /\ ConvertedWasGranted'
        /\ \A i \in DOMAIN leads : leads[i].since <= Len(grants') /\ (GrantedSince(i) => GrantedSince(i)')
    BY <2>1, <2>2, <2>3, GrantsStand
  <2>6. GrantComesFirst'
    <3>1. ASSUME NEW o \in Operators, granting'[o] # 0
          PROVE  granting'[o] \in DOMAIN leads' /\ (GrantedSince(granting[o]))'
      <4>1. granting[o] \in DOMAIN leads /\ GrantedSince(granting[o])
        BY <2>3, <3>1 DEF GrantComesFirst
      <4>2. DOMAIN grants \subseteq DOMAIN grants' /\ \A g \in DOMAIN grants : grants'[g] = grants[g]
        BY <2>1, <2>2, PlanSet
      <4> QED
        BY <2>3, <4>1, <4>2 DEF GrantedSince
    <3> QED
      BY <2>3, <2>5, <3>1 DEF GrantComesFirst
  <2> QED
    BY <2>3, <2>4, <2>5, <2>6 DEF SentAlone, OneOpenLead
<1>2. ASSUME NEW i \in DOMAIN leads, NEW shown \in Shown(i), Handle(i, shown)
      PROVE  PlansInv'
  <2>1. PICK status \in {"CONTACTED", "CONVERTED", "DECLINED"} :
          /\ SetStatus(i, status)
          /\ status = "CONTACTED" => shown = "NEW"
          /\ status = "CONVERTED" => leads[i].kind # "PRO"
    BY <1>2 DEF Handle
  <2>2. /\ raced' = (raced \/ shown # leads[i].status) /\ raced' \in BOOLEAN
        /\ UNCHANGED <<day, plan, grants, sending, granting>>
    BY <1>2 DEF Handle, PlansTypeOK
  <2>3. ~raced' => ~raced /\ leads[i].status \in Pending
    BY <2>2 DEF Shown
  <2>4. granting' \in [Operators -> Nat] /\ \A o \in Operators : granting'[o] \in {granting[o], 0}
    BY <2>2 DEF PlansTypeOK
  <2> QED
    BY <2>1, <2>2, <2>3, <2>4, StatusStep
<1>3. ASSUME NEW i \in DOMAIN leads, NEW shown \in Shown(i), NEW o \in Operators, GrantFromLead(o, i, shown)
      PROVE  PlansInv'
  <2> DEFINE to == [plan |-> "PRO", expiresAt |-> NoDate]
  <2>1. SetPlan(to) /\ leads' = leads
    BY <1>3 DEF GrantFromLead, FirstCall
  <2>2. to \in Source /\ to.plan = "PRO"
    BY DEF Source
  <2> HIDE DEF to
  <2>3. /\ UNCHANGED <<day, sending>> /\ granting' = [granting EXCEPT ![o] = i]
        /\ raced' \in BOOLEAN /\ (~raced' => ~raced)
    BY <1>3 DEF GrantFromLead, PlansTypeOK
  <2>4. /\ plan' = to /\ grants' \in Seq(Source) /\ Len(grants') = Len(grants) + 1
        /\ grants' # <<>> /\ grants'[Len(grants')] = to
        /\ DOMAIN grants \subseteq DOMAIN grants' /\ Len(grants) + 1 \in DOMAIN grants'
        /\ \A g \in DOMAIN grants : grants'[g] = grants[g]
    BY <2>1, <2>2, PlanSet
  <2>5. i \in Nat
    BY DEF PlansTypeOK
  <2>6. PlansTypeOK' /\ PlanIsLast'
    BY <2>1, <2>2, <2>3, <2>4, <2>5 DEF PlansTypeOK, PlanIsLast
  <2>7. /\ ConvertedWasGranted'
        /\ \A j \in DOMAIN leads : leads[j].since <= Len(grants') /\ (GrantedSince(j) => GrantedSince(j)')
    BY <2>1, <2>2, GrantsStand
  <2>8. GrantComesFirst'
    <3>1. GrantedSince(i)'
      <4>1. leads[i] \in Lead /\ leads[i].since <= Len(grants) /\ Len(grants) \in Nat
        BY DEF PlansTypeOK, GrantComesFirst
      <4>2. Len(grants) + 1 > leads[i].since
        BY <4>1 DEF Lead
      <4> QED
        BY <2>1, <2>2, <2>4, <4>2 DEF GrantedSince
    <3>2. ASSUME NEW u \in Operators, granting'[u] # 0
          PROVE  granting'[u] \in DOMAIN leads /\ \E g \in DOMAIN grants' : g > leads'[granting'[u]].since /\ grants'[g].plan = "PRO"
      <4>1. CASE u = o
        BY <2>3, <3>1, <4>1 DEF GrantedSince, PlansTypeOK
      <4>2. CASE u # o
        <5>1. granting'[u] = granting[u] /\ granting[u] # 0
          BY <2>3, <3>2, <4>2 DEF PlansTypeOK
        <5>2. granting[u] \in DOMAIN leads /\ GrantedSince(granting[u])
          BY <5>1 DEF GrantComesFirst
        <5> QED
          BY <2>1, <2>4, <5>1, <5>2 DEF GrantedSince
      <4> QED
        BY <4>1, <4>2
    <3> QED
      BY <2>1, <2>7, <3>2 DEF GrantComesFirst, GrantedSince
  <2> QED
    BY <2>1, <2>3, <2>6, <2>7, <2>8 DEF SentAlone, OneOpenLead
<1>4. ASSUME NEW o \in Operators, ConvertLead(o)
      PROVE  PlansInv'
  <2>1. /\ granting[o] # 0 /\ SetStatus(granting[o], "CONVERTED")
        /\ granting' = [granting EXCEPT ![o] = 0]
        /\ UNCHANGED <<day, plan, grants, sending, raced>>
    BY <1>4 DEF ConvertLead
  <2>2. granting[o] \in DOMAIN leads /\ GrantedSince(granting[o])
    BY <2>1 DEF GrantComesFirst
  <2>3. granting' \in [Operators -> Nat] /\ \A u \in Operators : granting'[u] \in {granting[u], 0}
    BY <2>1 DEF PlansTypeOK
  <2>4. raced' \in BOOLEAN /\ "CONVERTED" \notin Pending
    BY <2>1 DEF PlansTypeOK, Pending
  <2> QED
    BY <2>1, <2>2, <2>3, <2>4, StatusStep
<1>5. ASSUME NEW o \in Operators, ConvertFails(o)
      PROVE  PlansInv'
  <2>1. /\ granting' = [granting EXCEPT ![o] = 0]
        /\ UNCHANGED <<day, plan, grants, leads, sending, raced>>
    BY <1>5 DEF ConvertFails
  <2>2. granting' \in [Operators -> Nat] /\ \A u \in Operators : granting'[u] \in {granting[u], 0}
    BY <2>1 DEF PlansTypeOK
  <2>3. GrantComesFirst'
    <3>1. ASSUME NEW u \in Operators, granting'[u] # 0
          PROVE  granting'[u] \in DOMAIN leads' /\ (GrantedSince(granting[u]))'
      <4>1. granting'[u] = granting[u] /\ granting[u] # 0
        BY <2>2, <3>1
      <4>2. granting[u] \in DOMAIN leads /\ GrantedSince(granting[u])
        BY <4>1 DEF GrantComesFirst
      <4> QED
        BY <2>1, <4>1, <4>2 DEF GrantedSince
    <3>2. \A j \in DOMAIN leads' : leads'[j].since <= Len(grants')
      BY <2>1 DEF GrantComesFirst
    <3>3. ASSUME NEW u \in Operators, granting'[u] # 0
          PROVE  granting'[u] = granting[u]
      BY <2>2, <3>3
    <3> QED
      BY <2>1, <3>1, <3>2, <3>3 DEF GrantComesFirst, GrantedSince
  <2> QED
    BY <2>1, <2>2, <2>3
       DEF PlansTypeOK, PlanIsLast, SentAlone, OneOpenLead, ConvertedWasGranted
<1> QED
  BY <1>1, <1>2, <1>3, <1>4, <1>5

(* The plan of today is what the last entry of the history gives.          *)
LEMMA HistoryTells == PlansInv => HistoryExplainsPlan
<1> SUFFICES ASSUME PlansInv PROVE HistoryExplainsPlan
  OBVIOUS
<1>1. day \in Nat /\ plan \in Source
  BY DEF PlansInv, PlansTypeOK
<1>2. CASE grants = <<>>
  <2>1. plan.plan = "FREE"
    BY <1>2 DEF PlansInv, PlanIsLast
  <2> QED
    BY <1>2, <2>1 DEF HistoryExplainsPlan, EffectivePlan
<1>3. CASE grants # <<>>
  <2>1. Last(grants) = plan
    BY <1>3 DEF PlansInv, PlanIsLast, Last
  <2>2. plan.plan \in {"FREE", "PRO"} /\ plan.expiresAt \in Nat \cup {NoDate}
    BY <1>1 DEF Source
  <2>3. EffectivePlan(plan, day) = "PRO" <=>
          plan.plan = "PRO" /\ ~(plan.expiresAt # NoDate /\ plan.expiresAt <= day)
    BY <2>2 DEF EffectivePlan
  <2>4. ~(plan.expiresAt # NoDate /\ plan.expiresAt <= day) <=> plan.expiresAt = NoDate \/ plan.expiresAt > day
    BY <1>1, <2>2
  <2> QED
    BY <1>3, <2>1, <2>3, <2>4 DEF HistoryExplainsPlan
<1> QED
  BY <1>2, <1>3

(* However many people ask and operators act, from pages as old as they    *)
(* may be: one open request of a kind unless two were on their way at once *)
(* or a handled one was opened again, nothing converted that was not       *)
(* granted, and a plan of today that is the last entry of the history.     *)
THEOREM PlansAreAsTold == PlansSpec => []PlansAsTold
<1>1. PlansInv /\ [PlansNext]_planVars => PlansInv'
  <2> SUFFICES ASSUME PlansInv, [PlansNext]_planVars PROVE PlansInv'
    OBVIOUS
  <2>1. CASE PlansNext
    <3>1. CASE DayPasses
      BY <3>1 DEF DayPasses, PlansInv, PlansTypeOK, PlanIsLast, SentAlone, GrantComesFirst, GrantedSince, OneOpenLead,
                  ConvertedWasGranted
    <3> QED
      BY <2>1, <3>1, SendersStep, PlanOperatorStep DEF PlansNext
  <2>2. CASE UNCHANGED planVars
    BY <2>2 DEF planVars, PlansInv, PlansTypeOK, PlanIsLast, SentAlone, GrantComesFirst, GrantedSince, OneOpenLead,
                ConvertedWasGranted
  <2> QED
    BY <2>1, <2>2
<1>2. PlansInv => PlansAsTold
  BY HistoryTells DEF PlansInv, PlansAsTold
<1> QED
  BY <1>1, <1>2, InitPlansInv, PTL DEF PlansSpec

-----------------------------------------------------------------------------
(* Proofs about the setup.                                                 *)

LEMMA NothingTyped ==
  /\ NoRoles \in RoleTable
  /\ NoPage \in SetupPage /\ NoPage.pc = "closed" /\ NoPage.todo = {}
  /\ NoOverview \in Overview /\ NoOverview.pc = "none" /\ NoOverview.key = 0
<1>1. NoRoles \in RoleTable
  BY DEF NoRoles, RoleTable
<1> QED
  BY <1>1 DEF NoPage, SetupPage, NoOverview, Overview

LEMMA RolesNowTyped == SetupTypeOK => RolesNow \in RoleTable
<1> SUFFICES ASSUME SetupTypeOK PROVE RolesNow \in RoleTable
  OBVIOUS
<1>1. \A s \in CrmSections : roles[s] \in Roles \cup {"none"}
  BY DEF SetupTypeOK, RoleTable
<1>2. \A s \in CrmSections : RoleOf(s) \in Roles
  BY <1>1 DEF RoleOf, DefaultRole, Roles
<1> QED
  BY <1>2 DEF RolesNow, RoleTable

LEMMA InitSetupInv == SetupInit => SetupInv
<1> SUFFICES ASSUME SetupInit PROVE SetupInv
  OBVIOUS
<1> USE DEF SetupInit
<1>1. overview.kept = NoOverview /\ overview.read = NoOverview
  OBVIOUS
<1>2. SetupTypeOK
  BY NothingTyped DEF SetupTypeOK, RoleTable
<1>3. Busy = {}
  BY NothingTyped DEF Busy
<1>4. ~lastSetup.known
  BY DEF NoSetup
<1>5. OverviewSound(overview.kept) /\ OverviewSound(overview.read)
  BY <1>1, NothingTyped DEF OverviewSound
<1> QED
  BY <1>1, <1>2, <1>3, <1>4, <1>5, NothingTyped
     DEF SetupInv, KnownWhileIdle, SetupInForce, SetupAsShown, OverviewOfLastSetup, Visible

(* A page is opened, and what it shows is changed.                         *)
LEMMA SetupPageStep ==
  ASSUME SetupInv, NEW a \in Wizards, OpenSetup(a) \/ Choose(a)
  PROVE  SetupInv'
<1> USE DEF SetupInv
<1>1. UNCHANGED <<there, roles, disabled, completed, partly, lastSetup, overview>>
  BY DEF OpenSetup, Choose
<1>2. wizard[a] \in SetupPage /\ DOMAIN wizard = Wizards /\ disabled \in SUBSET AppSections
  BY DEF SetupTypeOK
<1>3. /\ wizard[a].pc \in {"closed", "open"} /\ wizard'[a].pc = "open"
      /\ wizard' \in [Wizards -> SetupPage]
      /\ \A b \in Wizards : b # a => wizard'[b] = wizard[b]
  <2>1. CASE OpenSetup(a)
    <3> DEFINE shown == [s \in CrmSections |-> IF s \in there THEN RoleOf(s) ELSE "none"]
    <3>1. shown \in RoleTable
      BY RolesNowTyped DEF RolesNow, RoleTable
    <3>2. \/ wizard' = [wizard EXCEPT ![a] = [NoPage EXCEPT !.pc = "open", !.off = disabled, !.roles = shown]]
          \/ wizard' = [wizard EXCEPT ![a] = [NoPage EXCEPT !.pc = "open", !.off = disabled]]
          \/ wizard' = [wizard EXCEPT ![a] = [NoPage EXCEPT !.pc = "open"]]
      BY <2>1 DEF OpenSetup
    <3> HIDE DEF shown
    <3>3. PICK page : /\ wizard' = [wizard EXCEPT ![a] = page]
                      /\ \/ page = [NoPage EXCEPT !.pc = "open", !.off = disabled, !.roles = shown]
                         \/ page = [NoPage EXCEPT !.pc = "open", !.off = disabled]
                         \/ page = [NoPage EXCEPT !.pc = "open"]
      BY <3>2, Zenon
    <3>4. page \in SetupPage /\ page.pc = "open"
      BY <1>2, <3>1, <3>3, NothingTyped DEF SetupPage
    <3> QED
      BY <1>2, <2>1, <3>3, <3>4 DEF OpenSetup, SetupTypeOK
  <2>2. CASE Choose(a)
    <3>1. ASSUME NEW s \in ListedSections(a), NEW r \in Roles, wizard' = [wizard EXCEPT ![a].roles[s] = r]
          PROVE  /\ wizard'[a].pc = wizard[a].pc /\ wizard' \in [Wizards -> SetupPage]
                 /\ \A b \in Wizards : b # a => wizard'[b] = wizard[b]
      <4> DEFINE table == [wizard[a].roles EXCEPT ![s] = r]
      <4>1. wizard[a].roles \in RoleTable
        BY <1>2 DEF SetupPage
      <4>2. table \in RoleTable
        BY <4>1 DEF RoleTable
      <4>3. wizard' = [wizard EXCEPT ![a].roles = table]
        BY <1>2, <3>1
      <4> HIDE DEF table
      <4> QED
        BY <1>2, <4>2, <4>3 DEF SetupPage, SetupTypeOK
    <3>2. ASSUME NEW k \in AppSections,
                 wizard' = [wizard EXCEPT ![a].off = IF k \in @ THEN @ \ {k} ELSE @ \cup {k}]
          PROVE  /\ wizard'[a].pc = wizard[a].pc /\ wizard' \in [Wizards -> SetupPage]
                 /\ \A b \in Wizards : b # a => wizard'[b] = wizard[b]
      <4> DEFINE sections == IF k \in wizard[a].off THEN wizard[a].off \ {k} ELSE wizard[a].off \cup {k}
      <4>1. wizard[a].off \in SUBSET AppSections
        BY <1>2 DEF SetupPage
      <4>2. sections \in SUBSET AppSections
        BY <4>1
      <4>3. wizard' = [wizard EXCEPT ![a].off = sections]
        BY <1>2, <3>2
      <4> HIDE DEF sections
      <4> QED
        BY <1>2, <4>2, <4>3 DEF SetupPage, SetupTypeOK
    <3> QED
      BY <2>2, <3>1, <3>2 DEF Choose
  <2> QED
    BY <2>1, <2>2
<1>4. Busy' = Busy /\ a \notin Busy
  BY <1>3 DEF Busy
<1>5. SetupTypeOK'
  BY <1>1, <1>3 DEF SetupTypeOK
<1>6. \A b \in Busy' : SavingSound(b)'
  BY <1>1, <1>3, <1>4 DEF SavingSound, ListedSections, Busy
<1>7. Untouched' = Untouched /\ RolesNow' = RolesNow
  BY <1>1, <1>3, <1>4 DEF Untouched, ListedSections, Busy, RolesNow, RoleOf
<1>8. OverviewSound(overview.kept)' /\ OverviewSound(overview.read)'
  BY <1>1, <1>7 DEF OverviewSound
<1>9. KnownWhileIdle' /\ SetupAsShown'
  BY <1>1, <1>4 DEF KnownWhileIdle, SetupInForce, SetupAsShown, RoleOf
<1>10. OverviewOfLastSetup'
  BY <1>8 DEF OverviewSound, OverviewOfLastSetup, Visible, OverviewKey, Untouched
<1> QED
  BY <1>5, <1>6, <1>8, <1>9, <1>10 DEF SetupInForce

LEMMA BeginSaveStep ==
  ASSUME SetupInv, NEW a \in Wizards, BeginSave(a)
  PROVE  SetupInv'
<1> USE DEF SetupInv
<1> DEFINE listed == ListedSections(a)
           busy == Busy # {}
<1>1. /\ UNCHANGED <<there, roles, disabled, completed, partly, overview>>
      /\ wizard[a].pc = "open" /\ lastSetup' = NoSetup
  BY DEF BeginSave
<1>2. \A b \in Wizards : wizard[b] \in SetupPage
  BY DEF SetupTypeOK
<1>3. listed \in SUBSET CrmSections /\ busy \in BOOLEAN /\ there \in SUBSET CrmSections
  BY DEF ListedSections, SetupTypeOK
<1>4. wizard' = [b \in Wizards |->
        IF b = a THEN [wizard[a] EXCEPT !.pc = "saving", !.todo = listed, !.known = there, !.overlapped = busy]
        ELSE IF b \in Busy THEN [wizard[b] EXCEPT !.overlapped = TRUE] ELSE wizard[b]]
  BY DEF BeginSave
<1> HIDE DEF listed, busy
<1>5. wizard'[a] = [wizard[a] EXCEPT !.pc = "saving", !.todo = listed, !.known = there, !.overlapped = busy]
  BY <1>4
<1>6. /\ wizard'[a] \in SetupPage /\ wizard'[a].pc = "saving" /\ wizard'[a].todo = listed
      /\ wizard'[a].overlapped = busy /\ wizard'[a].roles = wizard[a].roles
  BY <1>2, <1>3, <1>5 DEF SetupPage
<1>7. ASSUME NEW b \in Wizards, b # a
      PROVE  /\ wizard'[b] \in SetupPage /\ wizard'[b].pc = wizard[b].pc /\ wizard'[b].todo = wizard[b].todo
             /\ wizard'[b].roles = wizard[b].roles
             /\ wizard'[b].overlapped = (wizard[b].overlapped \/ b \in Busy)
  <2>1. wizard[b] \in SetupPage
    BY <1>2
  <2>2. CASE b \in Busy
    <3>1. wizard'[b] = [wizard[b] EXCEPT !.overlapped = TRUE]
      BY <1>4, <1>7, <2>2
    <3> QED
      BY <2>1, <2>2, <3>1 DEF SetupPage
  <2>3. CASE b \notin Busy
    <3>1. wizard'[b] = wizard[b]
      BY <1>4, <1>7, <2>3
    <3> QED
      BY <2>1, <2>3, <3>1 DEF SetupPage
  <2> QED
    BY <2>2, <2>3
<1>8. wizard' \in [Wizards -> SetupPage]
  BY <1>4, <1>6, <1>7
<1>9. Busy' = Busy \cup {a} /\ a \notin Busy
  BY <1>1, <1>6, <1>7 DEF Busy
<1>10. \A b \in Wizards : ListedSections(b)' = ListedSections(b)
  BY <1>6, <1>7 DEF ListedSections
<1>11. SetupTypeOK'
  BY <1>1, <1>8 DEF SetupTypeOK
<1>12. \A b \in Busy' : SavingSound(b)'
  <2>1. ASSUME NEW b \in Busy
        PROVE  SavingSound(b)'
    <3>1. b \in Wizards /\ b # a /\ SavingSound(b)
      BY <1>9 DEF Busy
    <3> QED
      BY <1>7, <1>10, <3>1 DEF SavingSound
  <2>2. SavingSound(a)'
    BY <1>6, <1>9, <1>10 DEF SavingSound, listed, busy
  <2> QED
    BY <1>9, <2>1, <2>2
<1>13. Untouched' => Untouched
  <2>1. \A b \in Busy : b \in Wizards /\ b # a
    BY <1>9 DEF Busy
  <2> QED
    BY <1>1, <1>7, <1>9, <1>10, <2>1 DEF Untouched
<1>14. OverviewSound(overview.kept)' /\ OverviewSound(overview.read)'
  BY <1>1, <1>13 DEF OverviewSound, RolesNow, RoleOf
<1>15. ~lastSetup'.known
  BY <1>1 DEF NoSetup
<1>16. OverviewOfLastSetup'
  BY <1>14 DEF OverviewSound, OverviewOfLastSetup, Visible, OverviewKey, Untouched
<1> QED
  BY <1>11, <1>12, <1>14, <1>15, <1>16 DEF KnownWhileIdle, SetupInForce, SetupAsShown

(* A role is written: the overviews read before are looked at no more once *)
(* the save is completed, and are not told of until then.                  *)
LEMMA SaveRoleStep ==
  ASSUME SetupInv, NEW a \in Wizards, SaveRole(a)
  PROVE  SetupInv'
<1> USE DEF SetupInv
<1>1. /\ UNCHANGED <<there, disabled, completed, partly, lastSetup, overview>>
      /\ wizard[a].pc = "saving"
  BY DEF SaveRole
<1>2. PICK s \in wizard[a].todo \cap wizard[a].known :
        roles' = [roles EXCEPT ![s] = wizard[a].roles[s]] /\ wizard' = [wizard EXCEPT ![a].todo = @ \ {s}]
  BY DEF SaveRole, Upserted
<1>3. wizard[a] \in SetupPage /\ DOMAIN wizard = Wizards /\ roles \in RoleTable /\ a \in Busy
  BY <1>1 DEF SetupTypeOK, Busy
<1>4. wizard[a].roles \in RoleTable /\ wizard[a].todo \in SUBSET CrmSections
  BY <1>3 DEF SetupPage
<1>5. /\ wizard' \in [Wizards -> SetupPage] /\ wizard'[a].pc = "saving" /\ wizard'[a].todo = wizard[a].todo \ {s}
      /\ wizard'[a].roles = wizard[a].roles /\ wizard'[a].overlapped = wizard[a].overlapped
  BY <1>1, <1>2, <1>3, <1>4 DEF SetupPage, SetupTypeOK
<1>6. \A b \in Wizards : b # a => wizard'[b] = wizard[b]
  BY <1>2, <1>3 DEF SetupTypeOK
<1>7. roles' \in RoleTable /\ \A t \in CrmSections : roles'[t] = IF t = s THEN wizard[a].roles[s] ELSE roles[t]
  BY <1>2, <1>3, <1>4 DEF RoleTable
<1>8. SetupTypeOK' /\ Busy' = Busy /\ \A b \in Wizards : ListedSections(b)' = ListedSections(b)
  BY <1>1, <1>3, <1>5, <1>6, <1>7 DEF SetupTypeOK, Busy, ListedSections
<1>9. \A b \in Busy' : SavingSound(b)'
  <2>1. ASSUME NEW b \in Busy, b # a
        PROVE  SavingSound(b)'
    BY <1>3, <1>6, <1>8, <2>1 DEF SavingSound, Busy
  <2>2. SavingSound(a)'
    <3>1. SavingSound(a)
      BY <1>3
    <3>2. \A t \in ListedSections(a) : t \in CrmSections
      BY DEF ListedSections
    <3> QED
      BY <1>3, <1>5, <1>7, <1>8, <3>1, <3>2 DEF SavingSound
  <2> QED
    BY <1>8, <2>1, <2>2
<1>10. ~Untouched'
  <2>1. s \in ListedSections(a)
    BY <1>2, <1>3 DEF SavingSound
  <2> QED
    BY <1>3, <1>5, <1>8, <2>1 DEF Untouched
<1>11. OverviewSound(overview.kept)' /\ OverviewSound(overview.read)'
  BY <1>1, <1>10 DEF OverviewSound
<1>12. ~lastSetup'.known /\ Busy' # {}
  BY <1>1, <1>3, <1>8 DEF KnownWhileIdle
<1> QED
  BY <1>8, <1>9, <1>11, <1>12
     DEF KnownWhileIdle, SetupInForce, SetupAsShown, OverviewOfLastSetup

LEMMA SaveStopsStep ==
  ASSUME SetupInv, NEW a \in Wizards, SaveStops(a)
  PROVE  SetupInv'
<1> USE DEF SetupInv
<1>1. /\ UNCHANGED <<there, roles, disabled, completed, lastSetup, overview>>
      /\ wizard[a].pc = "saving" /\ partly' = (partly \/ wizard[a].todo # ListedSections(a))
      /\ wizard' = [wizard EXCEPT ![a].pc = "open", ![a].todo = {}, ![a].known = {}]
  BY DEF SaveStops
<1>2. wizard[a] \in SetupPage /\ DOMAIN wizard = Wizards /\ a \in Busy
  BY <1>1 DEF SetupTypeOK, Busy
<1>3. wizard' \in [Wizards -> SetupPage] /\ wizard'[a].pc = "open"
  BY <1>1, <1>2 DEF SetupPage, SetupTypeOK
<1>4. \A b \in Wizards : b # a => wizard'[b] = wizard[b]
  BY <1>1, <1>2
<1>5. SetupTypeOK' /\ Busy' = Busy \ {a}
  BY <1>1, <1>3, <1>4 DEF SetupTypeOK, Busy
<1>6. \A b \in Busy' : SavingSound(b)'
  BY <1>1, <1>2, <1>4, <1>5 DEF SavingSound, Busy, ListedSections
<1>7. Untouched' => Untouched
  <2> SUFFICES ASSUME Untouched' PROVE Untouched
    OBVIOUS
  <2>1. partly' = FALSE
    BY DEF Untouched
  <2>2. partly \in BOOLEAN
    BY DEF SetupTypeOK
  <2>3. ~partly /\ wizard[a].todo = ListedSections(a)
    BY <1>1, <2>1, <2>2
  <2>4. ASSUME NEW b \in Busy, b # a
        PROVE  wizard[b].todo = ListedSections(b)
    <3>1. b \in Wizards /\ b \in Busy'
      BY <1>5, <2>4 DEF Busy
    <3>2. wizard'[b] = wizard[b] /\ wizard'[b].todo = ListedSections(b)'
      BY <1>4, <2>4, <3>1 DEF Untouched
    <3> QED
      BY <3>2 DEF ListedSections
  <2> QED
    BY <2>3, <2>4 DEF Untouched
<1>8. OverviewSound(overview.kept)' /\ OverviewSound(overview.read)'
  BY <1>1, <1>7 DEF OverviewSound, RolesNow, RoleOf
<1>9. ~lastSetup'.known
  BY <1>1, <1>2 DEF KnownWhileIdle
<1>10. OverviewOfLastSetup'
  BY <1>8 DEF OverviewSound, OverviewOfLastSetup, Visible, OverviewKey, Untouched
<1> QED
  BY <1>5, <1>6, <1>8, <1>9, <1>10 DEF KnownWhileIdle, SetupInForce, SetupAsShown

LEMMA CompleteSaveStep ==
  ASSUME SetupInv, NEW a \in Wizards, CompleteSave(a)
  PROVE  SetupInv'
<1> USE DEF SetupInv
<1>1. /\ UNCHANGED <<there, roles, overview>>
      /\ wizard[a].pc = "saving" /\ wizard[a].todo = {}
      /\ disabled' = wizard[a].off /\ completed' = completed + 1 /\ partly' = FALSE
      /\ wizard' = [wizard EXCEPT ![a] = NoPage]
  BY DEF CompleteSave
<1>2. wizard[a] \in SetupPage /\ a \in Busy /\ SavingSound(a) /\ completed \in Nat
  BY <1>1 DEF SetupTypeOK, Busy
<1>3. /\ wizard' \in [Wizards -> SetupPage] /\ wizard'[a].pc = "closed"
      /\ \A b \in Wizards : b # a => wizard'[b] = wizard[b]
  BY <1>1, NothingTyped DEF SetupTypeOK
<1>4. wizard[a].off \in SUBSET AppSections
  BY <1>2 DEF SetupPage
<1>5. SetupTypeOK' /\ Busy' = Busy \ {a}
  <2>1. Busy' = Busy \ {a}
    BY <1>3 DEF Busy
  <2>2. completed' \in Nat /\ disabled' \in SUBSET AppSections /\ partly' \in BOOLEAN
    <3>1. completed' = completed + 1 /\ disabled' = wizard[a].off /\ partly' = FALSE
      BY <1>1
    <3>2. completed' \in Nat
      BY <1>2, <3>1
    <3>3. disabled' \in SUBSET AppSections
      BY <1>4, <3>1, Zenon
    <3> QED
      BY <3>1, <3>2, <3>3
  <2>3. there' = there /\ roles' = roles /\ overview' = overview /\ wizard' \in [Wizards -> SetupPage]
    BY <1>1, <1>3
  <2> QED
    BY <2>1, <2>2, <2>3 DEF SetupTypeOK
<1>6. \A b \in Busy' : SavingSound(b)'
  BY <1>1, <1>2, <1>3, <1>5 DEF SavingSound, Busy, ListedSections
<1>7. /\ OverviewSound(overview.kept)' /\ OverviewSound(overview.read)'
      /\ overview'.kept.key # completed'
  <2>1. overview.kept \in Overview /\ overview.read \in Overview
    BY DEF SetupTypeOK
  <2>2. overview.kept.key \in Nat /\ overview.read.key \in Nat
    BY <2>1 DEF Overview
  <2>3. /\ overview.kept.key <= completed' /\ overview.kept.key # completed'
        /\ overview.read.key <= completed' /\ overview.read.key # completed'
    BY <1>1, <1>2, <2>2 DEF OverviewSound
  <2> QED
    BY <1>1, <2>3 DEF OverviewSound
<1>8. KnownWhileIdle' /\ SetupAsShown'
  <2>1. CASE wizard[a].overlapped
    <3>1. ~lastSetup'.known
      BY <2>1 DEF CompleteSave, NoSetup
    <3> QED
      BY <3>1 DEF KnownWhileIdle, SetupAsShown
  <2>2. CASE ~wizard[a].overlapped
    <3>1. lastSetup'.roles = wizard[a].roles /\ lastSetup'.off = wizard[a].off
      BY <2>2 DEF CompleteSave
    <3>2. Busy = {a} /\ \A s \in ListedSections(a) : roles[s] = wizard[a].roles[s]
      BY <1>1, <1>2, <2>2 DEF SavingSound
    <3>3. ASSUME NEW s \in CrmSections, wizard[a].roles[s] # "none"
          PROVE  RoleOf(s)' = wizard[a].roles[s]
      BY <1>1, <3>2, <3>3 DEF ListedSections, RoleOf
    <3> QED
      BY <1>1, <1>5, <3>1, <3>2, <3>3 DEF KnownWhileIdle, SetupAsShown
  <2> QED
    BY <2>1, <2>2
<1> QED
  BY <1>5, <1>6, <1>7, <1>8 DEF SetupInForce, OverviewOfLastSetup, Visible, OverviewKey

(* The overview is asked for, read, kept and dropped, and a section goes,  *)
(* while pages save.                                                       *)
LEMMA OverviewStep ==
  ASSUME SetupInv, SectionDeleted \/ OverviewAsked \/ OverviewListed \/ OverviewKept \/ OverviewExpires
  PROVE  SetupInv'
<1> USE DEF SetupInv
<1>1. UNCHANGED <<roles, disabled, completed, partly, wizard, lastSetup>>
  BY DEF SectionDeleted, OverviewAsked, OverviewListed, OverviewKept, OverviewExpires
<1>2. completed \in Nat /\ overview \in [kept : Overview, read : Overview]
  BY DEF SetupTypeOK
<1>3. overview.kept \in Overview /\ overview.read \in Overview
  BY <1>2
<1>4. /\ Busy' = Busy /\ Untouched' = Untouched /\ RolesNow' = RolesNow
      /\ \A b \in Wizards : ListedSections(b)' = ListedSections(b)
      /\ \A s \in CrmSections : RoleOf(s)' = RoleOf(s)
  BY <1>1 DEF Busy, Untouched, ListedSections, RolesNow, RoleOf
<1>12. there' \in SUBSET CrmSections
  BY DEF SetupTypeOK, SectionDeleted, OverviewAsked, OverviewListed, OverviewKept, OverviewExpires
<1>5. ASSUME NEW kept \in Overview, NEW read \in Overview, overview' = [kept |-> kept, read |-> read],
             OverviewSound(kept), OverviewSound(read)
      PROVE  SetupInv'
  <2>1. SetupTypeOK'
    BY <1>1, <1>5, <1>12 DEF SetupTypeOK
  <2>2. OverviewSound(overview.kept)' /\ OverviewSound(overview.read)'
    BY <1>1, <1>4, <1>5 DEF OverviewSound
  <2>3. OverviewOfLastSetup'
    BY <2>2 DEF OverviewSound, OverviewOfLastSetup, Visible, OverviewKey, Untouched
  <2> QED
    BY <1>1, <1>4, <2>1, <2>2, <2>3 DEF SavingSound, KnownWhileIdle, SetupInForce, SetupAsShown, Busy
<1>6. overview = [kept |-> overview.kept, read |-> overview.read]
  BY <1>2
<1>7. CASE SectionDeleted
  <2>1. overview' = [kept |-> overview.kept, read |-> overview.read]
    BY <1>6, <1>7 DEF SectionDeleted
  <2> QED
    BY <1>3, <1>5, <2>1
<1>8. CASE OverviewAsked
  <2> DEFINE asked == [NoOverview EXCEPT !.pc = "entered", !.key = completed]
  <2>1. overview' = [kept |-> overview.kept, read |-> asked]
    BY <1>2, <1>8 DEF OverviewAsked, OverviewKey
  <2>2. asked \in Overview /\ asked.pc = "entered" /\ asked.key = completed
    BY <1>2, NothingTyped DEF Overview
  <2> HIDE DEF asked
  <2>3. OverviewSound(asked)
    BY <1>2, <2>2 DEF OverviewSound
  <2> QED
    BY <1>3, <1>5, <2>1, <2>2, <2>3
<1>9. CASE OverviewListed
  <2> DEFINE now == RolesNow
             listed == [overview.read EXCEPT !.pc = "listed", !.roles = now]
  <2>1. now \in RoleTable
    BY RolesNowTyped
  <2>2. overview' = [overview EXCEPT !.read.pc = "listed", !.read.roles = now]
    BY <1>9 DEF OverviewListed
  <2> HIDE DEF now
  <2>3. overview' = [kept |-> overview.kept, read |-> listed]
    BY <1>2, <2>2
  <2>4. listed \in Overview /\ listed.key = overview.read.key /\ listed.roles = now
    BY <1>3, <2>1 DEF Overview
  <2> HIDE DEF listed
  <2>5. OverviewSound(listed)
    BY <2>4 DEF OverviewSound, now
  <2> QED
    BY <1>3, <1>5, <2>3, <2>4, <2>5
<1>10. CASE OverviewKept
  <2> DEFINE newly == [overview.read EXCEPT !.pc = "kept"]
  <2>1. newly \in Overview /\ newly.key = overview.read.key /\ newly.roles = overview.read.roles
    BY <1>3 DEF Overview
  <2>2. PICK kept \in {newly, overview.kept} : overview' = [kept |-> kept, read |-> NoOverview]
    BY <1>10 DEF OverviewKept
  <2> HIDE DEF newly
  <2>3. overview.read.pc = "listed"
    BY <1>10 DEF OverviewKept
  <2>4. OverviewSound(newly)
    BY <2>1, <2>3 DEF OverviewSound
  <2>5. kept \in Overview /\ OverviewSound(kept)
    BY <1>3, <2>1, <2>4
  <2>6. NoOverview \in Overview /\ OverviewSound(NoOverview)
    BY <1>2, NothingTyped DEF OverviewSound
  <2> QED
    BY <1>5, <2>2, <2>5, <2>6
<1>11. CASE OverviewExpires
  <2>1. overview' = [kept |-> NoOverview, read |-> overview.read]
    BY <1>2, <1>11 DEF OverviewExpires
  <2>2. NoOverview \in Overview /\ OverviewSound(NoOverview)
    BY <1>2, NothingTyped DEF OverviewSound
  <2> QED
    BY <1>3, <1>5, <2>1, <2>2
<1> QED
  BY <1>7, <1>8, <1>9, <1>10, <1>11

(* However many setup pages are open and however old, and wherever a save  *)
(* stops: after a save that no other overlapped the portal is as its page  *)
(* showed it, and the overview shown is of the roles there are.            *)
THEOREM SetupIsInForce == SetupSpec => []SetupInForce
<1>1. SetupInv /\ [SetupNext]_setupVars => SetupInv'
  <2> SUFFICES ASSUME SetupInv, [SetupNext]_setupVars PROVE SetupInv'
    OBVIOUS
  <2>1. CASE SetupNext
    BY <2>1, SetupPageStep, BeginSaveStep, SaveRoleStep, SaveStopsStep, CompleteSaveStep, OverviewStep DEF SetupNext
  <2>2. CASE UNCHANGED setupVars
    BY <2>2 DEF setupVars, SetupInv, SetupTypeOK, KnownWhileIdle, SavingSound, ListedSections, Busy, Untouched,
                OverviewSound, RolesNow, RoleOf, SetupInForce, SetupAsShown, OverviewOfLastSetup, Visible, OverviewKey
  <2> QED
    BY <2>1, <2>2
<1>2. SetupInv => SetupInForce
  BY DEF SetupInv
<1> QED
  BY <1>1, <1>2, InitSetupInv, PTL DEF SetupSpec

-----------------------------------------------------------------------------
(* Moving about the app (Navigation).                                      *)

(* Paths of two and of three parts.                                        *)
LEMMA PathOfTwo == ASSUME NEW a, NEW b PROVE <<a>> \o <<b>> = <<a, b>>
<1> DEFINE S == {a, b}
           s == <<a>>
           t == <<b>>
           c == s \o t
           d == <<a, b>>
<1>1. s \in Seq(S) /\ t \in Seq(S) /\ d \in Seq(S) /\ Len(s) = 1 /\ Len(t) = 1 /\ Len(d) = 2
  OBVIOUS
<1>2. s[1] = a /\ t[1] = b /\ d[1] = a /\ d[2] = b
  OBVIOUS
<1> HIDE DEF S, s, t, d
<1>3. c \in Seq(S) /\ Len(c) = 2 /\ \A i \in 1 .. 2 : c[i] = IF i <= 1 THEN s[i] ELSE t[i - 1]
  <2>1. /\ c \in Seq(S) /\ Len(c) = Len(s) + Len(t)
        /\ \A i \in 1 .. Len(s) + Len(t) : c[i] = IF i <= Len(s) THEN s[i] ELSE t[i - Len(s)]
    BY <1>1, ConcatProperties
  <2>2. Len(s) + Len(t) = 2
    BY <1>1
  <2> QED BY <1>1, <2>1, <2>2
<1> HIDE DEF c
<1>4. c[1] = a /\ c[2] = b
  BY <1>2, <1>3
<1>5. \A i \in 1 .. Len(c) : c[i] = d[i]
  BY <1>2, <1>3, <1>4
<1>6. c = d
  BY <1>1, <1>3, <1>5, SeqEqual
<1> QED BY <1>6 DEF c, d, s, t

LEMMA PathOfThree == ASSUME NEW a, NEW b, NEW e PROVE <<a, b>> \o <<e>> = <<a, b, e>>
<1> DEFINE S == {a, b, e}
           s == <<a, b>>
           t == <<e>>
           c == s \o t
           d == <<a, b, e>>
<1>1. s \in Seq(S) /\ t \in Seq(S) /\ d \in Seq(S) /\ Len(s) = 2 /\ Len(t) = 1 /\ Len(d) = 3
  OBVIOUS
<1>2. s[1] = a /\ s[2] = b /\ t[1] = e /\ d[1] = a /\ d[2] = b /\ d[3] = e
  OBVIOUS
<1> HIDE DEF S, s, t, d
<1>3. c \in Seq(S) /\ Len(c) = 3 /\ \A i \in 1 .. 3 : c[i] = IF i <= 2 THEN s[i] ELSE t[i - 2]
  <2>1. /\ c \in Seq(S) /\ Len(c) = Len(s) + Len(t)
        /\ \A i \in 1 .. Len(s) + Len(t) : c[i] = IF i <= Len(s) THEN s[i] ELSE t[i - Len(s)]
    BY <1>1, ConcatProperties
  <2>2. Len(s) + Len(t) = 3
    BY <1>1
  <2> QED BY <1>1, <2>1, <2>2
<1> HIDE DEF c
<1>4. c[1] = a /\ c[2] = b /\ c[3] = e
  BY <1>2, <1>3
<1>5. \A i \in 1 .. Len(c) : c[i] = d[i]
  BY <1>2, <1>3, <1>4
<1>6. c = d
  BY <1>1, <1>3, <1>5, SeqEqual
<1> QED BY <1>6 DEF c, d, s, t

(* The pages, by the ways they are guarded.                                *)
LEMMA PathsAre ==
  /\ Project = <<"projects", "p">>
  /\ AnalyticsPages = {<<"analytics">>, <<"analytics", "team">>, <<"analytics", "meetings">>, <<"analytics", "hours">>,
                       <<"analytics", "tasks">>}
  /\ ChannelPages = {<<"marketing">>, <<"marketing", "sales">>, <<"marketing", "items">>}
  /\ OpenPages = {<<"projects">>, <<"finance">>, <<"finance", "overview">>, <<"pricing">>, <<"how-it-works">>,
                  <<"implementation">>, <<"projects", "p">>, <<"projects", "p", "finance">>, <<"projects", "p", "team">>}
  /\ AdminPages = {<<"setup">>, <<"settings", "stages">>, <<"settings", "brand">>, <<"settings", "time-fields">>,
                   <<"settings", "crm-sources">>}
  /\ ProjectAnalytics = {<<"projects", "p", "analytics">>, <<"report", "projects", "p">>}
  /\ Project \o <<"history">> = <<"projects", "p", "history">>
  /\ Project \o <<"edit">> = <<"projects", "p", "edit">>
  /\ Sub(Project, {"edit"}) = {<<"projects", "p", "edit">>}
  /\ Sub(<<"settings">>, {"auto-finance", "categories"}) = {<<"settings", "auto-finance">>, <<"settings", "categories">>}
  /\ Sub(<<"projects">>, {"new", "import"}) = {<<"projects", "new">>, <<"projects", "import">>}
BY PathOfTwo, PathOfThree DEF Project, AnalyticsPages, ChannelPages, OpenPages, AdminPages, ProjectAnalytics, Sub

(* The paths a page answers under: not «/», and not one that was moved.    *)
Answering == Paths \ ({Home} \cup DOMAIN Moved)

(* The pages one by one, and what the guard of each says.                  *)
LEMMA ShownAre ==
  Answering = AnalyticsPages \cup ChannelPages \cup OpenPages \cup AdminPages \cup ProjectAnalytics
            \cup {<<"marketing", "funnels">>, <<"history">>, <<"settings">>, <<"settings", "auto-finance">>,
                  <<"settings", "categories">>, <<"projects", "new">>, <<"projects", "import">>,
                  <<"projects", "p", "edit">>, <<"projects", "p", "history">>}
BY PathsAre DEF Answering, Paths, Home, Moved

LEMMA GuardsAre ==
  /\ \A path \in AnalyticsPages : GuardOf(path) = Page(Managers, {"analytics"}, Home)
  /\ \A path \in ChannelPages : GuardOf(path) = Page(Managers, {"sales"}, Home)
  /\ GuardOf(<<"marketing", "funnels">>) = Page(Managers, {"sales"}, Home)
  /\ GuardOf(<<"history">>) = Page(Managers, {"history"}, Home)
  /\ GuardOf(<<"settings", "auto-finance">>) = Page(Managers, {"automation"}, Home)
  /\ \A path \in {<<"settings">>, <<"settings", "categories">>} : GuardOf(path) = Page(Managers, {}, Home)
  /\ \A path \in AdminPages : GuardOf(path) = Page({"ADMIN"}, {}, Home)
  /\ \A path \in {<<"projects", "new">>, <<"projects", "import">>, <<"projects", "p", "edit">>} :
       GuardOf(path) = Page(Managers, {}, <<"projects">>)
  /\ \A path \in ProjectAnalytics : GuardOf(path) = Page(Managers, {"analytics"}, Project)
  /\ GuardOf(<<"projects", "p", "history">>) = Page(Managers, {}, Project)
  /\ \A path \in OpenPages : GuardOf(path) = Page(Everyone, {}, Home)
<1>1. \A path \in AnalyticsPages : GuardOf(path) = Page(Managers, {"analytics"}, Home)
  BY PathsAre DEF GuardOf
<1>2. \A path \in ChannelPages : GuardOf(path) = Page(Managers, {"sales"}, Home)
  BY PathsAre DEF GuardOf
<1>3. GuardOf(<<"marketing", "funnels">>) = Page(Managers, {"sales"}, Home)
  BY PathsAre DEF GuardOf, Funnels
<1>4. GuardOf(<<"history">>) = Page(Managers, {"history"}, Home)
  BY PathsAre DEF GuardOf
<1>5. GuardOf(<<"settings", "auto-finance">>) = Page(Managers, {"automation"}, Home)
  BY PathsAre DEF GuardOf
<1>6. \A path \in {<<"settings">>, <<"settings", "categories">>} : GuardOf(path) = Page(Managers, {}, Home)
  BY PathsAre DEF GuardOf
<1>7. \A path \in AdminPages : GuardOf(path) = Page({"ADMIN"}, {}, Home)
  BY PathsAre DEF GuardOf
<1>8. \A path \in {<<"projects", "new">>, <<"projects", "import">>, <<"projects", "p", "edit">>} :
        GuardOf(path) = Page(Managers, {}, <<"projects">>)
  BY PathsAre DEF GuardOf
<1>9. \A path \in ProjectAnalytics : GuardOf(path) = Page(Managers, {"analytics"}, Project)
  BY PathsAre DEF GuardOf
<1>10. GuardOf(<<"projects", "p", "history">>) = Page(Managers, {}, Project)
  BY PathsAre DEF GuardOf
<1>11. \A path \in OpenPages : GuardOf(path) = Page(Everyone, {}, Home)
  BY PathsAre DEF GuardOf
<1> QED BY <1>1, <1>2, <1>3, <1>4, <1>5, <1>6, <1>7, <1>8, <1>9, <1>10, <1>11

(* A path that starts with another one agrees with it part by part.        *)
LEMMA PrefixMeans ==
  ASSUME NEW S, NEW s \in Seq(S), NEW t \in Seq(S)
  PROVE  IsPrefix(s, t) <=> Len(s) <= Len(t) /\ \A i \in 1 .. Len(s) : s[i] = t[i]
<1>1. Len(s) \in Nat /\ Len(t) \in Nat
  OBVIOUS
<1>2. SubSeq(s, 1, Len(s)) \in Seq(S) /\ Len(SubSeq(s, 1, Len(s))) = Len(s)
      /\ \A i \in 1 .. Len(s) : SubSeq(s, 1, Len(s))[i] = s[i]
  BY <1>1, SubSeqProperties
<1>3. ASSUME Len(s) <= Len(t)
      PROVE  /\ SubSeq(t, 1, Len(s)) \in Seq(S) /\ Len(SubSeq(t, 1, Len(s))) = Len(s)
             /\ \A i \in 1 .. Len(s) : SubSeq(t, 1, Len(s))[i] = t[i]
  <2>1. \A k \in 1 .. Len(s) : t[k] \in S
    BY <1>1, <1>3
  <2> QED BY <1>1, <1>3, <2>1, SubSeqProperties
<1> DEFINE a == SubSeq(s, 1, Len(s))
           b == SubSeq(t, 1, Len(s))
<1> HIDE DEF a, b
<1>4. ASSUME Len(s) <= Len(t) PROVE a = b <=> \A i \in 1 .. Len(s) : s[i] = t[i]
  <2>1. \A i \in 1 .. Len(s) : a[i] = s[i] /\ b[i] = t[i]
    BY <1>2, <1>3, <1>4 DEF a, b
  <2>2. a \in Seq(S) /\ b \in Seq(S) /\ Len(a) = Len(s) /\ Len(b) = Len(s)
    BY <1>2, <1>3, <1>4 DEF a, b
  <2>3. (\A i \in 1 .. Len(a) : a[i] = b[i]) => a = b
    BY <2>2, SeqEqual
  <2> QED BY <2>1, <2>2, <2>3
<1> QED BY <1>4 DEF IsPrefix, a, b

(* Every path is one of names.                                             *)
Names ==
  {"analytics", "team", "meetings", "hours", "tasks", "marketing", "sales", "items", "funnels", "projects", "finance",
   "overview", "pricing", "how-it-works", "implementation", "p", "setup", "settings", "stages", "brand", "time-fields",
   "crm-sources", "report", "history", "auto-finance", "categories", "new", "import", "edit"}

IsPath(path) == path \in Seq(Names) /\ Len(path) \in 1 .. 3

(* Paths of one, two and three names.                                      *)
LEMMA PathIs ==
  /\ \A a \in Names : IsPath(<<a>>) /\ Len(<<a>>) = 1
  /\ \A a, b \in Names : IsPath(<<a, b>>) /\ Len(<<a, b>>) = 2
  /\ \A a, b, c \in Names : IsPath(<<a, b, c>>)
<1> DEFINE S == Names
<1> HIDE DEF S
<1>1. \A a \in S : <<a>> \in Seq(S) /\ Len(<<a>>) = 1
  OBVIOUS
<1>2. \A a, b \in S : <<a, b>> \in Seq(S) /\ Len(<<a, b>>) = 2
  OBVIOUS
<1>3. \A a, b, c \in S : <<a, b, c>> \in Seq(S) /\ Len(<<a, b, c>>) = 3
  OBVIOUS
<1> QED BY <1>1, <1>2, <1>3 DEF IsPath, S

LEMMA SubPathIs ==
  /\ \A N \in SUBSET Names, a \in Names : \A path \in Sub(<<a>>, N) : IsPath(path)
  /\ \A N \in SUBSET Names, a, b \in Names : \A path \in Sub(<<a, b>>, N) : IsPath(path)
<1>1. \A N \in SUBSET Names, a \in Names : \A path \in Sub(<<a>>, N) : \E n \in Names : path = <<a, n>>
  BY PathOfTwo DEF Sub
<1>2. \A N \in SUBSET Names, a, b \in Names : \A path \in Sub(<<a, b>>, N) : \E n \in Names : path = <<a, b, n>>
  BY PathOfThree DEF Sub
<1> QED BY <1>1, <1>2, PathIs

(* Every page is a path of one to three names.                             *)
LEMMA PathsOfNames == \A path \in Answering : IsPath(path)
<1>1. \A path \in AnalyticsPages : IsPath(path)
  <2>1. {"analytics", "team", "meetings", "hours", "tasks"} \subseteq Names
    BY DEF Names
  <2> QED BY <2>1, PathIs, SubPathIs DEF AnalyticsPages
<1>2. \A path \in ChannelPages \cup {<<"marketing", "funnels">>} : IsPath(path)
  <2>1. {"marketing", "sales", "items", "funnels"} \subseteq Names
    BY DEF Names
  <2> QED BY <2>1, PathIs, SubPathIs DEF ChannelPages
<1>3. \A path \in OpenPages \cup {<<"projects", "p", "edit">>, <<"projects", "p", "history">>} : IsPath(path)
  <2>1. {"projects", "p", "finance", "team", "overview", "edit", "history"} \subseteq Names
    BY DEF Names
  <2>2. {"pricing", "how-it-works", "implementation"} \subseteq Names
    BY DEF Names
  <2>3. \A path \in {<<"pricing">>, <<"how-it-works">>, <<"implementation">>} : IsPath(path)
    BY <2>2, PathIs
  <2>4. \A path \in {<<"projects">>, <<"finance">>, <<"finance", "overview">>, <<"projects", "p">>} : IsPath(path)
    BY <2>1, PathIs
  <2>5. \A path \in {<<"projects", "p", "finance">>, <<"projects", "p", "team">>, <<"projects", "p", "edit">>,
                     <<"projects", "p", "history">>} : IsPath(path)
    BY <2>1, PathIs
  <2> QED BY <2>3, <2>4, <2>5, PathsAre
<1>4. \A path \in AdminPages \cup ProjectAnalytics : IsPath(path)
  <2>1. {"setup", "settings", "stages", "brand", "time-fields", "crm-sources", "report", "projects", "p", "analytics"}
          \subseteq Names
    BY DEF Names
  <2>2. \A path \in AdminPages : IsPath(path)
    BY <2>1, PathIs, PathsAre
  <2>3. \A path \in ProjectAnalytics : IsPath(path)
    BY <2>1, PathIs, PathsAre
  <2> QED BY <2>2, <2>3
<1>5. \A path \in {<<"history">>, <<"settings">>, <<"settings", "auto-finance">>, <<"settings", "categories">>,
                   <<"projects", "new">>, <<"projects", "import">>} : IsPath(path)
  <2>1. {"history", "settings", "auto-finance", "categories", "projects", "new", "import"} \subseteq Names
    BY DEF Names
  <2> QED BY <2>1, PathIs
<1> QED BY <1>1, <1>2, <1>3, <1>4, <1>5, ShownAre

(* A path starts with another one of one name, or of two.                  *)
LEMMA StartsWithOne ==
  ASSUME NEW path, IsPath(path), NEW a \in Names
  PROVE  IsPrefix(<<a>>, path) <=> path[1] = a
<1> DEFINE s == <<a>>
<1>1. s[1] = a /\ Len(s) = 1
  OBVIOUS
<1>2. s \in Seq(Names)
  BY PathIs DEF IsPath
<1> HIDE DEF s
<1>3. IsPrefix(s, path) <=> Len(s) <= Len(path) /\ \A i \in 1 .. Len(s) : s[i] = path[i]
  BY <1>2, PrefixMeans DEF IsPath
<1>4. IsPrefix(s, path) <=> path[1] = a
  BY <1>1, <1>3 DEF IsPath
<1> QED BY <1>4 DEF s

LEMMA StartsWithTwo ==
  ASSUME NEW path, IsPath(path), NEW a \in Names, NEW b \in Names
  PROVE  IsPrefix(<<a, b>>, path) <=> Len(path) >= 2 /\ path[1] = a /\ path[2] = b
<1> DEFINE s == <<a, b>>
<1>1. s[1] = a /\ s[2] = b /\ Len(s) = 2
  OBVIOUS
<1>2. s \in Seq(Names)
  BY PathIs DEF IsPath
<1> HIDE DEF s
<1>3. IsPrefix(s, path) <=> Len(s) <= Len(path) /\ \A i \in 1 .. Len(s) : s[i] = path[i]
  BY <1>2, PrefixMeans DEF IsPath
<1>4. IsPrefix(s, path) <=> Len(path) >= 2 /\ path[1] = a /\ path[2] = b
  BY <1>1, <1>3 DEF IsPath
<1> QED BY <1>4 DEF s

(* The sections that cover a page, by its first names.                     *)
LEMMA SectionsAre ==
  ASSUME NEW path \in Answering
  PROVE  /\ "analytics" \in SectionsOfPath(path) <=> path[1] = "analytics"
         /\ "sales" \in SectionsOfPath(path) <=> path[1] = "marketing"
         /\ "history" \in SectionsOfPath(path) <=> path[1] = "history"
         /\ "automation" \in SectionsOfPath(path) <=> path = <<"settings", "auto-finance">>
         /\ SectionsOfPath(path) \subseteq OptionalSections
<1>1. IsPath(path)
  BY PathsOfNames
<1>2. {"analytics", "marketing", "history", "settings", "auto-finance"} \subseteq Names
  BY DEF Names
<1>3. IsPrefix(<<"settings", "auto-finance">>, path) <=> path = <<"settings", "auto-finance">>
  <2>1. Len(path) >= 2 /\ path[1] = "settings" /\ path[2] = "auto-finance" => path = <<"settings", "auto-finance">>
    BY ShownAre, PathsAre
  <2>2. path = <<"settings", "auto-finance">> => Len(path) >= 2 /\ path[1] = "settings" /\ path[2] = "auto-finance"
    OBVIOUS
  <2> QED BY <1>1, <1>2, <2>1, <2>2, StartsWithTwo
<1>4. /\ SectionHref["analytics"] = <<"analytics">> /\ SectionHref["sales"] = <<"marketing">>
      /\ SectionHref["history"] = <<"history">> /\ SectionHref["automation"] = <<"settings", "auto-finance">>
  BY DEF SectionHref, OptionalSections
<1>5. /\ IsPrefix(<<"analytics">>, path) <=> path[1] = "analytics"
      /\ IsPrefix(<<"marketing">>, path) <=> path[1] = "marketing"
      /\ IsPrefix(<<"history">>, path) <=> path[1] = "history"
  BY <1>1, <1>2, StartsWithOne
<1>6. {"analytics", "sales", "history", "automation"} = OptionalSections
  BY DEF OptionalSections
<1>7. \A k \in OptionalSections : k \in SectionsOfPath(path) <=> IsPrefix(SectionHref[k], path)
  BY DEF SectionsOfPath
<1>8. SectionsOfPath(path) \subseteq OptionalSections
  BY DEF SectionsOfPath
<1> QED BY <1>3, <1>4, <1>5, <1>6, <1>7, <1>8

(* The list of sections and the guards of the pages agree.                 *)
LEMMA SectionsAreGuarded ==
  \A path \in Answering : SectionsOfPath(path) \subseteq GuardOf(path).section
<1> TAKE path \in Answering
<1>1. /\ path \in AnalyticsPages => path[1] = "analytics" /\ "analytics" \in GuardOf(path).section
      /\ path \in ChannelPages \cup {<<"marketing", "funnels">>} => path[1] = "marketing" /\ "sales" \in GuardOf(path).section
      /\ path = <<"history">> => path[1] = "history" /\ "history" \in GuardOf(path).section
      /\ path = <<"settings", "auto-finance">> => path[1] = "settings" /\ "automation" \in GuardOf(path).section
  <2>1. \A allowed, k, back : k \in Page(allowed, {k}, back).section
    BY DEF Page
  <2>2. path \in AnalyticsPages => path[1] = "analytics"
    BY PathsAre
  <2>3. path \in ChannelPages \cup {<<"marketing", "funnels">>} => path[1] = "marketing"
    BY PathsAre
  <2> QED BY <2>1, <2>2, <2>3, GuardsAre
<1>2. \/ path \in AnalyticsPages \/ path \in ChannelPages \cup {<<"marketing", "funnels">>}
      \/ path = <<"history">> \/ path = <<"settings", "auto-finance">>
      \/ path[1] \notin {"analytics", "marketing", "history"} /\ path # <<"settings", "auto-finance">>
  BY ShownAre, PathsAre
<1>3. \A k \in SectionsOfPath(path) : k \in {"analytics", "sales", "history", "automation"}
  BY SectionsAre DEF OptionalSections
<1> QED BY <1>1, <1>2, <1>3, SectionsAre

(* What was moved is at a page now.                                        *)
LEMMA MovedAre == \A path \in DOMAIN Moved : Moved[path] \in Answering
BY ShownAre DEF Moved

(* «/» sends everyone to a page that admits him.                           *)
LEMMA HomeAdmits ==
  ASSUME role \in Everyone
  PROVE  HomePath(role, off) \in Answering /\ Admitted(GuardOf(HomePath(role, off)))
<1>1. <<"analytics">> \in AnalyticsPages /\ <<"marketing">> \in ChannelPages /\ <<"finance", "overview">> \in OpenPages
  BY PathsAre
<1>2. HomePath(role, off) \in Answering
  BY <1>1, ShownAre DEF HomePath
<1>3. CASE role # "EMPLOYEE" /\ "analytics" \notin off
  <2>1. role \in Managers /\ HomePath(role, off) = <<"analytics">>
    BY <1>3 DEF Everyone, HomePath
  <2> QED BY <1>1, <1>2, <1>3, <2>1, GuardsAre DEF Admitted, Page
<1>4. CASE role # "EMPLOYEE" /\ "analytics" \in off /\ "sales" \notin off
  <2>1. role \in Managers /\ HomePath(role, off) = <<"marketing">>
    BY <1>4 DEF Everyone, HomePath
  <2> QED BY <1>1, <1>2, <1>4, <2>1, GuardsAre DEF Admitted, Page
<1>5. CASE role = "EMPLOYEE" \/ ("analytics" \in off /\ "sales" \in off)
  <2>1. HomePath(role, off) = <<"finance", "overview">>
    BY <1>5 DEF HomePath
  <2> QED BY <1>1, <1>2, <2>1, GuardsAre DEF Admitted, Page
<1> QED BY <1>3, <1>4, <1>5

(* A page sends those it does not admit to «/», or to one that admits all. *)
LEMMA BackAdmits ==
  ASSUME role \in Everyone, NEW path \in Answering
  PROVE  GuardOf(path).back = Home \/ (GuardOf(path).back \in Answering /\ Admitted(GuardOf(GuardOf(path).back)))
<1>1. GuardOf(path).back \in {Home, <<"projects">>, <<"projects", "p">>}
  <2>1. \A allowed, section, back : Page(allowed, section, back).back = back
    BY DEF Page
  <2>2. \A p \in AnalyticsPages \cup ChannelPages \cup OpenPages \cup AdminPages : GuardOf(p).back = Home
    BY <2>1, GuardsAre
  <2>3. \A p \in {<<"marketing", "funnels">>, <<"history">>, <<"settings">>, <<"settings", "auto-finance">>,
                <<"settings", "categories">>} : GuardOf(p).back = Home
    BY <2>1, GuardsAre
  <2>4. \A p \in {<<"projects", "new">>, <<"projects", "import">>, <<"projects", "p", "edit">>} :
           GuardOf(p).back = <<"projects">>
    BY <2>1, GuardsAre
  <2>5. \A p \in ProjectAnalytics \cup {<<"projects", "p", "history">>} : GuardOf(p).back = <<"projects", "p">>
    BY <2>1, GuardsAre DEF Project
  <2> QED BY <2>2, <2>3, <2>4, <2>5, ShownAre
<1>2. <<"projects">> \in OpenPages /\ <<"projects", "p">> \in OpenPages /\ OpenPages \subseteq Answering
  BY PathsAre, ShownAre
<1>3. \A p \in OpenPages : Admitted(GuardOf(p))
  BY GuardsAre DEF Admitted, Page
<1> QED BY <1>1, <1>2, <1>3

(* The screens of the menu: their cards, pages and the guards of these.    *)
CardOf(first) ==
  CASE first = "analytics" -> {<<"analytics">>, <<"analytics", "team">>, <<"analytics", "meetings">>}
    [] first = "marketing" -> {<<"marketing">>, <<"marketing", "sales">>, <<"marketing", "funnels">>}
    [] first = "projects" -> {<<"projects">>, <<"projects", "new">>}
    [] first = "finance" -> {<<"finance", "overview">>, <<"finance">>}
    [] first = "settings" -> {<<"settings">>, <<"settings", "stages">>, <<"history">>, <<"pricing">>}
    [] first = "how-it-works" -> {<<"how-it-works">>, <<"implementation">>}

Cards == {"analytics", "marketing", "projects", "finance", "settings", "how-it-works"}

IsCard(i, first) ==
  /\ i.base = <<first>> /\ i.href \in CardOf(first)
  /\ i.roles = IF first \in {"analytics", "marketing", "settings"} THEN Managers ELSE Everyone
  /\ \A s \in i.screens : s.href \in CardOf(first) /\ (s.href = <<"projects", "new">> => s.roles = Managers)
  /\ \A s, t \in i.screens : s.href = t.href => s = t
  /\ i.href \notin {<<"projects", "new">>, <<"settings", "stages">>, <<"history">>, <<"pricing">>}

(* Screens, cards and their pages as nav.tsx lists them.                   *)
LEMMA ScreenIs ==
  \A h : Screen(h).href = h /\ Screen(h).roles = Everyone /\ Screen(h).exact = FALSE
         /\ Exact(h).href = h /\ Exact(h).roles = Everyone /\ Exact(h).exact = TRUE
BY DEF Screen, Exact

LEMMA CardsAre == \A i \in Items : \E first \in Cards : IsCard(i, first)
<1>0. \A h, b, r, s : Card(h, b, r, s).href = h /\ Card(h, b, r, s).base = b /\ Card(h, b, r, s).roles = r
                      /\ Card(h, b, r, s).screens = s
  BY DEF Card
<1>1. IsCard(Card(<<"analytics">>, <<"analytics">>, Managers,
                  {Exact(<<"analytics">>), Screen(<<"analytics", "team">>), Screen(<<"analytics", "meetings">>)}), "analytics")
  BY <1>0, ScreenIs DEF IsCard, CardOf
<1>2. IsCard(Card(<<"marketing">>, <<"marketing">>, Managers,
                  {Exact(<<"marketing">>), Screen(<<"marketing", "sales">>), Screen(<<"marketing", "funnels">>)}), "marketing")
  BY <1>0, ScreenIs DEF IsCard, CardOf
<1>3. IsCard(Card(<<"projects">>, <<"projects">>, Everyone,
                  {Screen(<<"projects">>), [Screen(<<"projects", "new">>) EXCEPT !.roles = Managers]}), "projects")
  <2> DEFINE s == [Screen(<<"projects", "new">>) EXCEPT !.roles = Managers]
  <2>1. s.href = <<"projects", "new">> /\ s.roles = Managers
    BY DEF Screen
  <2> DEFINE i == Card(<<"projects">>, <<"projects">>, Everyone, {Screen(<<"projects">>), s})
  <2>2. i.href = <<"projects">> /\ i.base = <<"projects">> /\ i.roles = Everyone /\ i.screens = {Screen(<<"projects">>), s}
    BY <1>0
  <2>3. <<"projects">> # <<"projects", "new">> /\ CardOf("projects") = {<<"projects">>, <<"projects", "new">>}
    BY DEF CardOf
  <2> HIDE DEF s, i
  <2>4. \A x \in i.screens : x.href \in CardOf("projects") /\ (x.href = <<"projects", "new">> => x.roles = Managers)
    BY <2>1, <2>2, <2>3, ScreenIs
  <2>5. \A x, t \in i.screens : x.href = t.href => x = t
    BY <2>1, <2>2, <2>3, ScreenIs
  <2>6. IsCard(i, "projects")
    BY <2>2, <2>3, <2>4, <2>5 DEF IsCard
  <2> QED BY <2>6 DEF i, s
<1>4. IsCard(Card(<<"finance", "overview">>, <<"finance">>, Everyone,
                  {Screen(<<"finance", "overview">>), Screen(<<"finance">>)}), "finance")
  BY <1>0, ScreenIs DEF IsCard, CardOf
<1>5. IsCard(Card(<<"settings">>, <<"settings">>, Managers,
                  {Screen(<<"settings">>), Screen(<<"settings", "stages">>), Screen(<<"history">>), Screen(<<"pricing">>)}),
             "settings")
  BY <1>0, ScreenIs DEF IsCard, CardOf
<1>6. IsCard(Card(<<"how-it-works">>, <<"how-it-works">>, Everyone,
                  {Screen(<<"how-it-works">>), Screen(<<"implementation">>)}), "how-it-works")
  BY <1>0, ScreenIs DEF IsCard, CardOf
<1> QED BY <1>1, <1>2, <1>3, <1>4, <1>5, <1>6 DEF Items, Cards

(* Those a page lets in, where its section is not switched off.            *)
Opens(path, allowed) ==
  /\ path \in Answering /\ GuardOf(path).section \subseteq SectionsOfPath(path) /\ allowed \subseteq GuardOf(path).roles

(* The guard of a page asks no more than the menu does, except for «Стадии *)
(* CRM».                                                                   *)
LEMMA MenuOpens ==
  /\ \A path \in CardOf("analytics") \cup CardOf("marketing") : Opens(path, Managers)
  /\ \A path \in CardOf("projects") \cup CardOf("finance") \cup CardOf("how-it-works") :
       IF path = <<"projects", "new">> THEN Opens(path, Managers) ELSE Opens(path, Everyone)
  /\ \A path \in CardOf("settings") : IF path = <<"settings", "stages">> THEN Opens(path, {"ADMIN"}) ELSE Opens(path, Managers)
<1>0. /\ \A r, k, b : Page(r, k, b).section = k
      /\ \A r, k, b : Page(r, k, b).roles = r
      /\ Managers \subseteq Everyone
  BY DEF Page, Everyone
<1>1. \A path \in CardOf("analytics") : Opens(path, Managers)
  <2>1. \A path \in CardOf("analytics") : path \in AnalyticsPages /\ path \in Answering /\ path[1] = "analytics"
    BY PathsAre, ShownAre DEF CardOf
  <2> QED BY <1>0, <2>1, GuardsAre, SectionsAre DEF Opens
<1>2. \A path \in CardOf("marketing") : Opens(path, Managers)
  <2>1. \A path \in CardOf("marketing") :
          path \in ChannelPages \cup {<<"marketing", "funnels">>} /\ path \in Answering /\ path[1] = "marketing"
    BY PathsAre, ShownAre DEF CardOf
  <2> QED BY <1>0, <2>1, GuardsAre, SectionsAre DEF Opens
<1>3. \A path \in OpenPages : Opens(path, Everyone) /\ Opens(path, Managers)
  <2>1. \A path \in OpenPages : path \in Answering
    BY ShownAre
  <2> QED BY <1>0, <2>1, GuardsAre DEF Opens
<1>4. Opens(<<"projects", "new">>, Managers) /\ Opens(<<"settings">>, Managers)
  <2>1. <<"projects", "new">> \in Answering /\ <<"settings">> \in Answering
    BY ShownAre
  <2>2. GuardOf(<<"projects", "new">>).section = {} /\ GuardOf(<<"settings">>).section = {}
        /\ GuardOf(<<"projects", "new">>).roles = Managers /\ GuardOf(<<"settings">>).roles = Managers
    BY <1>0, GuardsAre
  <2> QED BY <2>1, <2>2 DEF Opens
<1>5. Opens(<<"settings", "stages">>, {"ADMIN"})
  <2>1. <<"settings", "stages">> \in AdminPages /\ <<"settings", "stages">> \in Answering
    BY PathsAre, ShownAre
  <2> QED BY <1>0, <2>1, GuardsAre DEF Opens
<1>6. Opens(<<"history">>, Managers)
  <2> DEFINE path == <<"history">>
  <2>1. path \in Answering /\ path[1] = "history"
    BY ShownAre
  <2>2. GuardOf(path).section = {"history"} /\ GuardOf(path).roles = Managers
    BY <1>0, GuardsAre
  <2> HIDE DEF path
  <2>3. Opens(path, Managers)
    BY <2>1, <2>2, SectionsAre DEF Opens
  <2> QED BY <2>3 DEF path
<1>7. /\ CardOf("projects") = {<<"projects">>, <<"projects", "new">>} /\ <<"projects">> \in OpenPages
      /\ CardOf("finance") \subseteq OpenPages /\ CardOf("how-it-works") \subseteq OpenPages
      /\ CardOf("settings") = {<<"settings">>, <<"settings", "stages">>, <<"history">>, <<"pricing">>}
      /\ <<"pricing">> \in OpenPages /\ <<"projects", "new">> \notin OpenPages
  BY PathsAre DEF CardOf
<1> QED BY <1>1, <1>2, <1>3, <1>4, <1>5, <1>6, <1>7

(* A link is to a page which lets in those it is shown to; but for those   *)
(* that mislead, whose pages send them home.                               *)
LeadsThere(path) ==
  IF Misleading(path) THEN ~Admitted(GuardOf(path)) /\ GuardOf(path).back = Home ELSE Admitted(GuardOf(path))

LEMMA OpensTo ==
  \A path, allowed : Opens(path, allowed) /\ role \in allowed /\ SectionsOfPath(path) \cap off = {} => Admitted(GuardOf(path))
BY DEF Opens, Admitted

LEMMA MenuPages == \A i \in Items : i.href \in Answering /\ \A s \in i.screens : s.href \in Answering
<1>1. \A first \in Cards : \A path \in CardOf(first) : path \in Answering
  BY MenuOpens DEF Opens, Cards
<1> QED BY <1>1, CardsAre DEF IsCard

Leads(path) == path \in Answering /\ LeadsThere(path)

(* Which pages admit whom, and which links mislead.                        *)
LEMMA PagesLead ==
  ASSUME role \in Everyone
  PROVE  /\ \A path \in OpenPages : Leads(path)
         /\ role \in Managers =>
              \A path \in {<<"settings">>, <<"settings", "categories">>, <<"projects", "new">>, <<"projects", "import">>,
                           <<"projects", "p", "edit">>, <<"projects", "p", "history">>} : Leads(path)
         /\ role = "ADMIN" => \A path \in AdminPages \cup {AutoFinance} : Leads(path)
         /\ role \in Managers /\ "analytics" \notin off => \A path \in AnalyticsPages \cup ProjectAnalytics : Leads(path)
         /\ role \in Managers /\ "sales" \notin off => \A path \in ChannelPages \cup {<<"marketing", "funnels">>} : Leads(path)
         /\ role \in Managers /\ "automation" \notin off => Leads(AutoFinance)
         /\ role \in Managers /\ "history" \notin off => Leads(<<"history">>)
         /\ role = "MANAGER" => Leads(<<"settings", "stages">>) /\ Leads(<<"settings", "brand">>)
         /\ role = "EMPLOYEE" => Leads(<<"settings">>) /\ Leads(<<"settings", "stages">>) /\ Leads(<<"history">>)
<1>0. /\ \A r, k, b : Page(r, k, b).section = k /\ Page(r, k, b).roles = r /\ Page(r, k, b).back = b
      /\ Managers = {"ADMIN", "MANAGER"} /\ Everyone = {"ADMIN", "MANAGER", "EMPLOYEE"}
  BY DEF Page, Everyone, Managers
<1>a. AutoFinance = <<"settings", "auto-finance">> BY DEF AutoFinance
<1> DEFINE Plain(path) == path \notin {<<"settings", "stages">>, <<"settings", "brand">>, AutoFinance, <<"settings">>, <<"history">>}
<1>1. \A path : Plain(path) => ~Misleading(path)
  BY DEF Misleading
<1>2. \A path \in OpenPages : Leads(path)
  <2> TAKE path \in OpenPages
  <2>1. Plain(path) /\ path \in Answering BY <1>a, PathsAre, ShownAre
  <2>2. Admitted(GuardOf(path)) BY <1>0, GuardsAre DEF Admitted
  <2> QED BY <1>1, <2>1, <2>2 DEF Leads, LeadsThere
<1>3. ASSUME role \in Managers,
             NEW path \in {<<"settings">>, <<"settings", "categories">>, <<"projects", "new">>, <<"projects", "import">>,
                           <<"projects", "p", "edit">>, <<"projects", "p", "history">>}
      PROVE  Leads(path)
  <2>1. path \in Answering BY ShownAre
  <2>2. Admitted(GuardOf(path)) BY <1>0, <1>3, GuardsAre DEF Admitted
  <2>3. Plain(path) \/ path = <<"settings">> BY <1>a
  <2>4. ~Misleading(path)
    <3>1. role # "EMPLOYEE" BY <1>0, <1>3
    <3>2. <<"settings">> \notin {<<"settings", "stages">>, <<"settings", "brand">>, AutoFinance} BY <1>a
    <3>3. path = <<"settings">> => ~Misleading(path) BY <3>1, <3>2 DEF Misleading
    <3> QED BY <1>1, <2>3, <3>3
  <2> QED BY <2>1, <2>2, <2>4 DEF Leads, LeadsThere
<1>4. ASSUME role = "ADMIN", NEW path \in AdminPages PROVE Leads(path)
  <2>1. path \in Answering BY ShownAre
  <2>2. Admitted(GuardOf(path)) BY <1>0, <1>4, GuardsAre DEF Admitted
  <2>3. path # AutoFinance BY <1>a, PathsAre
  <2>4. ~Misleading(path) BY <1>4, <2>3 DEF Misleading
  <2> QED BY <2>1, <2>2, <2>4 DEF Leads, LeadsThere
<1>5. AutoFinance \in Answering /\ GuardOf(AutoFinance).section = {"automation"}
      /\ GuardOf(AutoFinance).roles = Managers /\ GuardOf(AutoFinance).back = Home
  BY <1>0, <1>a, ShownAre, GuardsAre
<1>6. role \in Managers /\ "automation" \notin off => Leads(AutoFinance)
  <2> SUFFICES ASSUME role \in Managers, "automation" \notin off PROVE Leads(AutoFinance)
    OBVIOUS
  <2>1. Admitted(GuardOf(AutoFinance)) BY <1>5 DEF Admitted
  <2>2. role # "EMPLOYEE" /\ AutoFinance \notin {<<"settings", "stages">>, <<"settings", "brand">>} BY <1>0, <1>a
  <2>3. ~Misleading(AutoFinance) BY <2>2 DEF Misleading
  <2> QED BY <1>5, <2>1, <2>3 DEF Leads, LeadsThere
<1>7. role = "ADMIN" => Leads(AutoFinance)
  <2> SUFFICES ASSUME role = "ADMIN", "automation" \in off PROVE Leads(AutoFinance)
    BY <1>0, <1>6
  <2>1. ~Admitted(GuardOf(AutoFinance)) BY <1>5 DEF Admitted
  <2>2. Misleading(AutoFinance) BY DEF Misleading
  <2> QED BY <1>5, <2>1, <2>2 DEF Leads, LeadsThere
<1>8. ASSUME role \in Managers, "analytics" \notin off, NEW path \in AnalyticsPages \cup ProjectAnalytics PROVE Leads(path)
  <2>1. path \in Answering /\ Plain(path) BY <1>a, PathsAre, ShownAre
  <2>2. Admitted(GuardOf(path)) BY <1>0, <1>8, GuardsAre DEF Admitted
  <2> QED BY <1>1, <2>1, <2>2 DEF Leads, LeadsThere
<1>9. ASSUME role \in Managers, "sales" \notin off, NEW path \in ChannelPages \cup {<<"marketing", "funnels">>}
      PROVE  Leads(path)
  <2>1. path \in Answering /\ Plain(path) BY <1>a, PathsAre, ShownAre
  <2>2. Admitted(GuardOf(path)) BY <1>0, <1>9, GuardsAre DEF Admitted
  <2> QED BY <1>1, <2>1, <2>2 DEF Leads, LeadsThere
<1>10. role \in Managers /\ "history" \notin off => Leads(<<"history">>)
  <2> SUFFICES ASSUME role \in Managers, "history" \notin off PROVE Leads(<<"history">>)
    OBVIOUS
  <2>1. <<"history">> \in Answering BY ShownAre
  <2>2. Admitted(GuardOf(<<"history">>)) BY <1>0, GuardsAre DEF Admitted
  <2>3. role # "EMPLOYEE" /\ <<"history">> \notin {<<"settings", "stages">>, <<"settings", "brand">>, AutoFinance}
    BY <1>0, <1>a
  <2>4. ~Misleading(<<"history">>) BY <2>3 DEF Misleading
  <2> QED BY <2>1, <2>2, <2>4 DEF Leads, LeadsThere
<1>11. ASSUME NEW path \in {<<"settings", "stages">>, <<"settings", "brand">>}, role \in {"MANAGER", "EMPLOYEE"}
       PROVE  path \in Answering /\ ~Admitted(GuardOf(path)) /\ GuardOf(path).back = Home
  <2>1. path \in AdminPages /\ path \in Answering BY PathsAre, ShownAre
  <2>2. GuardOf(path).roles = {"ADMIN"} /\ GuardOf(path).back = Home BY <1>0, <2>1, GuardsAre
  <2> QED BY <1>11, <2>1, <2>2 DEF Admitted
<1>12. role = "MANAGER" => Leads(<<"settings", "stages">>) /\ Leads(<<"settings", "brand">>)
  <2> SUFFICES ASSUME role = "MANAGER", NEW path \in {<<"settings", "stages">>, <<"settings", "brand">>} PROVE Leads(path)
    OBVIOUS
  <2>1. Misleading(path) BY DEF Misleading
  <2> QED BY <1>11, <2>1 DEF Leads, LeadsThere
<1>13. role = "EMPLOYEE" => Leads(<<"settings">>) /\ Leads(<<"settings", "stages">>) /\ Leads(<<"history">>)
  <2> SUFFICES ASSUME role = "EMPLOYEE", NEW path \in {<<"settings">>, <<"settings", "stages">>, <<"history">>} PROVE Leads(path)
    OBVIOUS
  <2>1. Misleading(path) BY DEF Misleading
  <2>2. CASE path = <<"settings", "stages">> BY <1>11, <2>1, <2>2 DEF Leads, LeadsThere
  <2>3. CASE path \in {<<"settings">>, <<"history">>}
    <3>1. path \in Answering BY <2>3, ShownAre
    <3>2. GuardOf(path).roles = Managers /\ GuardOf(path).back = Home BY <1>0, <2>3, GuardsAre
    <3>3. ~Admitted(GuardOf(path)) BY <1>0, <3>2 DEF Admitted
    <3> QED BY <2>1, <3>1, <3>2, <3>3 DEF Leads, LeadsThere
  <2> QED BY <2>2, <2>3
<1> QED BY <1>2, <1>3, <1>4, <1>6, <1>7, <1>8, <1>9, <1>10, <1>12, <1>13

(* So what a card shows now leads where it says, whoever sees it.          *)
LEMMA CardLeads ==
  ASSUME role \in Everyone, NEW first \in Cards, NEW path \in CardOf(first), SectionsOfPath(path) \cap off = {},
         role \in Managers \/ (first \notin {"analytics", "marketing"} /\ path # <<"projects", "new">>)
  PROVE  Leads(path)
<1>1. CASE role \in Managers /\ path \notin {<<"settings", "stages">>, <<"history">>}
  <2>1. /\ first \in {"analytics", "marketing"} => Opens(path, Managers)
        /\ first \in {"projects", "finance", "how-it-works"} => Opens(path, Managers) \/ Opens(path, Everyone)
        /\ first = "settings" => Opens(path, Managers)
    BY <1>1, MenuOpens
  <2>2. path \in Answering /\ Admitted(GuardOf(path))
    BY <1>1, <2>1, OpensTo DEF Cards, Opens
  <2>3. path \notin {<<"settings", "brand">>, AutoFinance} BY DEF Cards, CardOf, AutoFinance
  <2>4. role # "EMPLOYEE" BY <1>1 DEF Managers
  <2>5. ~Misleading(path) BY <1>1, <2>3, <2>4 DEF Misleading
  <2> QED BY <2>2, <2>5 DEF Leads, LeadsThere
<1>2. CASE role \in Managers /\ path = <<"settings", "stages">>
  <2>1. path \in AdminPages BY <1>2, PathsAre
  <2>2. role = "ADMIN" \/ role = "MANAGER" BY <1>2 DEF Managers
  <2> QED BY <1>2, <2>1, <2>2, PagesLead
<1>3. CASE role \in Managers /\ path = <<"history">>
  <2>1. path \in Answering /\ path[1] = "history" BY <1>3, ShownAre
  <2>2. "history" \notin off BY <2>1, SectionsAre
  <2> QED BY <1>3, <2>2, PagesLead
<1>4. CASE role = "EMPLOYEE"
  <2>1. role \notin Managers BY <1>4 DEF Managers
  <2>2. first \in {"projects", "finance", "settings", "how-it-works"} /\ path # <<"projects", "new">>
    BY <2>1 DEF Cards
  <2>3. path \in OpenPages \/ path \in {<<"settings">>, <<"settings", "stages">>, <<"history">>}
    BY <2>2, PathsAre DEF CardOf
  <2> QED BY <1>4, <2>3, PagesLead
<1> QED BY <1>1, <1>2, <1>3, <1>4 DEF Everyone

LEMMA MenuLinksLead ==
  ASSUME role \in Everyone, NEW path \in MenuLinks(off)
  PROVE  Leads(path)
<1>1. PICK i \in VisibleItems(off) : path = i.href \/ \E s \in VisibleScreens(i.screens, off) : path = s.href
  BY DEF MenuLinks
<1>2. i \in Items /\ role \in i.roles /\ SectionsOfPath(i.href) \cap off = {}
  BY DEF VisibleItems
<1>3. PICK first \in Cards : IsCard(i, first)
  BY <1>2, CardsAre
<1>4. path \in CardOf(first) /\ SectionsOfPath(path) \cap off = {}
  BY <1>1, <1>2, <1>3 DEF IsCard, VisibleScreens
<1>5. path = <<"projects", "new">> => role \in Managers
  BY <1>1, <1>3 DEF IsCard, VisibleScreens
<1>6. first \in {"analytics", "marketing", "settings"} => role \in Managers
  BY <1>2, <1>3 DEF IsCard
<1> QED BY <1>4, <1>5, <1>6, CardLeads

(* A link of a page leads where it says those the page has let in.         *)
LEMMA PageLinksLead ==
  ASSUME role \in Everyone, NEW path \in Answering, Admitted(GuardOf(path)), NEW link \in PageLinks(path, off)
  PROVE  Leads(link)
<1>0. /\ \A r, k, b : Page(r, k, b).section = k /\ Page(r, k, b).roles = r
      /\ role = "ADMIN" => role \in Managers
      /\ AutoFinance = <<"settings", "auto-finance">> /\ Project = <<"projects", "p">>
  BY DEF Page, Managers, AutoFinance, Project
<1>1. /\ <<"projects">> \in OpenPages /\ <<"finance">> \in OpenPages /\ <<"pricing">> \in OpenPages
      /\ <<"how-it-works">> \in OpenPages /\ <<"implementation">> \in OpenPages
      /\ <<"projects", "p">> \in OpenPages /\ <<"projects", "p", "finance">> \in OpenPages /\ <<"projects", "p", "team">> \in OpenPages
      /\ <<"setup">> \in AdminPages /\ <<"settings", "time-fields">> \in AdminPages
      /\ <<"settings", "stages">> \in AdminPages /\ <<"settings", "brand">> \in AdminPages
      /\ <<"projects", "p", "analytics">> \in ProjectAnalytics
  BY PathsAre
<1>t. ASSUME NEW l \in ProjectTabs(off) PROVE Leads(l)
  <2> DEFINE names == {"finance", "team"} \cup (IF role \in Managers THEN {"history", "edit"} ELSE {})
                                \cup (IF TabAnalytics(off) THEN {"analytics"} ELSE {})
  <2>1. l = Project \/ \E n \in names : l = Project \o <<n>>
    BY <1>t DEF ProjectTabs, Sub
  <2>2. \A n \in names : Project \o <<n>> = <<"projects", "p", n>>
    BY <1>0, PathOfThree
  <2>3. ASSUME NEW n \in names PROVE Leads(<<"projects", "p", n>>)
    <3>1. n \in {"finance", "team"} \/ (n \in {"history", "edit"} /\ role \in Managers) \/ (n = "analytics" /\ TabAnalytics(off))
      OBVIOUS
    <3>2. n \in {"finance", "team"} => Leads(<<"projects", "p", n>>) BY <1>1, PagesLead
    <3>3. n \in {"history", "edit"} /\ role \in Managers => Leads(<<"projects", "p", n>>) BY PagesLead
    <3>4. n = "analytics" /\ TabAnalytics(off) => Leads(<<"projects", "p", n>>) BY <1>1, PagesLead DEF TabAnalytics
    <3> QED BY <3>1, <3>2, <3>3, <3>4
  <2> HIDE DEF names
  <2> QED BY <1>0, <1>1, <2>1, <2>2, <2>3, PagesLead
<1>2. ASSUME path = <<"settings">>, link \in SettingsLinks(off) PROVE Leads(link)
  <2>1. role \in Managers BY <1>0, <1>2, GuardsAre DEF Admitted
  <2>2. \/ link = AutoFinance /\ ("automation" \notin off \/ role = "ADMIN")
        \/ link = <<"settings", "categories">>
        \/ role = "ADMIN" /\ (link \in AdminPages \/ link = <<"pricing">>)
    BY <1>2 DEF SettingsLinks
  <2> QED BY <1>1, <2>1, <2>2, PagesLead
<1>3. ASSUME path = AutoFinance, link = <<"settings">> PROVE Leads(link)
  <2>1. role \in Managers BY <1>0, <1>3, GuardsAre DEF Admitted
  <2> QED BY <1>3, <2>1, PagesLead
<1>4. ASSUME path = <<"setup">>, link \in {<<"settings", "time-fields">>, <<"settings", "stages">>, <<"implementation">>}
      PROVE  Leads(link)
  <2>1. role = "ADMIN" BY <1>0, <1>1, <1>4, GuardsAre DEF Admitted
  <2> QED BY <1>1, <1>4, <2>1, PagesLead
<1>5. ASSUME link \in ListButtons PROVE Leads(link)
  <2>1. role \in Managers /\ link \in {<<"projects", "new">>, <<"projects", "import">>} BY <1>5, PathsAre DEF ListButtons
  <2> QED BY <2>1, PagesLead
<1>6. ASSUME link \in OverviewLinks PROVE Leads(link)
  <2>1. \/ link \in OpenPages \/ (role \in Managers /\ link = <<"projects", "new">>)
        \/ (role = "ADMIN" /\ link \in AdminPages)
    BY <1>1, <1>6 DEF OverviewLinks
  <2> QED BY <2>1, PagesLead
<1>7. ASSUME path \in AnalyticsPages, link \in AnalyticsPages \cup {Project \o <<"analytics">>, <<"projects", "new">>}
      PROVE  Leads(link)
  <2>1. role \in Managers /\ "analytics" \notin off BY <1>0, <1>7, GuardsAre DEF Admitted
  <2>2. link \in AnalyticsPages \cup {<<"projects", "p", "analytics">>, <<"projects", "new">>} BY <1>0, <1>7, PathOfThree
  <2> QED BY <1>1, <2>1, <2>2, PagesLead
<1>8. ASSUME path \in ChannelPages \cup {<<"marketing", "funnels">>},
             link \in ChannelPages \cup {<<"marketing", "funnels">>, <<"pricing">>}
      PROVE  Leads(link)
  <2>1. role \in Managers /\ "sales" \notin off BY <1>0, <1>8, GuardsAre DEF Admitted
  <2> QED BY <1>1, <1>8, <2>1, PagesLead
<1>9. ASSUME role = "ADMIN", link = <<"setup">> PROVE Leads(link)
  BY <1>1, <1>9, PagesLead
<1>10. ASSUME link \in ProjectTabs(off) \cup {<<"pricing">>} PROVE Leads(link)
  BY <1>1, <1>t, <1>10, PagesLead
<1>11. ASSUME path \in ProjectAnalytics, link \in ProjectAnalytics PROVE Leads(link)
  <2>1. role \in Managers /\ "analytics" \notin off BY <1>0, <1>11, GuardsAre DEF Admitted
  <2> QED BY <1>11, <2>1, PagesLead
<1>12. ASSUME path = <<"report", "projects", "p">>, link = <<"settings", "brand">> PROVE Leads(link)
  <2>1. path \in ProjectAnalytics BY <1>12, PathsAre
  <2>2. role \in Managers BY <1>0, <2>1, GuardsAre DEF Admitted
  <2>3. role = "ADMIN" \/ role = "MANAGER" BY <2>2 DEF Managers
  <2> QED BY <1>1, <1>12, <2>3, PagesLead
<1>13. \/ path = <<"settings">> /\ link \in SettingsLinks(off)
       \/ path = AutoFinance /\ link \in {<<"settings">>}
       \/ path = <<"setup">> /\ link \in {<<"settings", "time-fields">>, <<"settings", "stages">>, <<"implementation">>}
       \/ link \in ListButtons
       \/ link \in OverviewLinks
       \/ path \in AnalyticsPages /\ link \in AnalyticsPages \cup {Project \o <<"analytics">>, <<"projects", "new">>}
       \/ /\ path \in ChannelPages \cup {<<"marketing", "funnels">>}
          /\ link \in ChannelPages \cup {<<"marketing", "funnels">>, <<"pricing">>}
       \/ role = "ADMIN" /\ link \in {<<"setup">>}
       \/ link \in ProjectTabs(off) \cup {<<"pricing">>}
       \/ path \in ProjectAnalytics /\ link \in ProjectAnalytics
       \/ path = <<"report", "projects", "p">> /\ link \in {<<"settings", "brand">>}
  BY DEF PageLinks, When
<1>14. \A a : link \in {a} => link = a
  OBVIOUS
<1> QED
  <2> HIDE DEF Leads
  <2> QED BY <1>2, <1>3, <1>4, <1>5, <1>6, <1>7, <1>8, <1>9, <1>10, <1>11, <1>12, <1>13, <1>14

(* The cards of the menu have no first name of a path in common.           *)
FirstNames(first) ==
  IF first = "settings" THEN {"settings", "history", "pricing"}
  ELSE IF first = "how-it-works" THEN {"how-it-works", "implementation"} ELSE {first}

LEMMA NamesApart ==
  /\ \A f \in Cards : f \in FirstNames(f) /\ f \in Names
  /\ \A f \in Cards : \A path \in CardOf(f) : path[1] \in FirstNames(f)
  /\ \A f, g \in Cards : f # g => FirstNames(f) \cap FirstNames(g) = {}
<1>1. \A f \in Cards : f \in FirstNames(f) /\ f \in Names
  BY DEF Cards, FirstNames, Names
<1>2. \A f \in Cards : \A path \in CardOf(f) : path[1] \in FirstNames(f)
  <2>1. \A path \in CardOf("analytics") : path[1] \in FirstNames("analytics")
    BY DEF CardOf, FirstNames
  <2>2. \A path \in CardOf("marketing") : path[1] \in FirstNames("marketing")
    BY DEF CardOf, FirstNames
  <2>3. \A path \in CardOf("projects") : path[1] \in FirstNames("projects")
    BY DEF CardOf, FirstNames
  <2>4. \A path \in CardOf("finance") : path[1] \in FirstNames("finance")
    BY DEF CardOf, FirstNames
  <2>5. \A path \in CardOf("settings") : path[1] \in FirstNames("settings")
    BY DEF CardOf, FirstNames
  <2>6. \A path \in CardOf("how-it-works") : path[1] \in FirstNames("how-it-works")
    BY DEF CardOf, FirstNames
  <2> QED BY <2>1, <2>2, <2>3, <2>4, <2>5, <2>6 DEF Cards
<1>3. \A f, g \in Cards : f # g => FirstNames(f) \cap FirstNames(g) = {}
  BY DEF Cards, FirstNames
<1> QED BY <1>1, <1>2, <1>3

(* A card is known by its base.                                            *)
LEMMA CardsApart == \A i, j \in Items : i.base = j.base => i = j
<1>0. \A h, b, r, s : Card(h, b, r, s).base = b
  BY DEF Card
<1>1. /\ <<"analytics">> # <<"marketing">> /\ <<"analytics">> # <<"projects">> /\ <<"analytics">> # <<"finance">>
      /\ <<"analytics">> # <<"settings">> /\ <<"analytics">> # <<"how-it-works">> /\ <<"marketing">> # <<"projects">>
      /\ <<"marketing">> # <<"finance">> /\ <<"marketing">> # <<"settings">> /\ <<"marketing">> # <<"how-it-works">>
      /\ <<"projects">> # <<"finance">> /\ <<"projects">> # <<"settings">> /\ <<"projects">> # <<"how-it-works">>
      /\ <<"finance">> # <<"settings">> /\ <<"finance">> # <<"how-it-works">> /\ <<"settings">> # <<"how-it-works">>
  OBVIOUS
<1> DEFINE c1 == Card(<<"analytics">>, <<"analytics">>, Managers,
                     {Exact(<<"analytics">>), Screen(<<"analytics", "team">>), Screen(<<"analytics", "meetings">>)})
           c2 == Card(<<"marketing">>, <<"marketing">>, Managers,
                     {Exact(<<"marketing">>), Screen(<<"marketing", "sales">>), Screen(<<"marketing", "funnels">>)})
           c3 == Card(<<"projects">>, <<"projects">>, Everyone,
                     {Screen(<<"projects">>), [Screen(<<"projects", "new">>) EXCEPT !.roles = Managers]})
           c4 == Card(<<"finance", "overview">>, <<"finance">>, Everyone,
                     {Screen(<<"finance", "overview">>), Screen(<<"finance">>)})
           c5 == Card(<<"settings">>, <<"settings">>, Managers,
                     {Screen(<<"settings">>), Screen(<<"settings", "stages">>), Screen(<<"history">>), Screen(<<"pricing">>)})
           c6 == Card(<<"how-it-works">>, <<"how-it-works">>, Everyone,
                     {Screen(<<"how-it-works">>), Screen(<<"implementation">>)})
<1>2. Items = {c1, c2, c3, c4, c5, c6}
  BY DEF Items
<1>3. /\ c1.base = <<"analytics">> /\ c2.base = <<"marketing">> /\ c3.base = <<"projects">>
      /\ c4.base = <<"finance">> /\ c5.base = <<"settings">> /\ c6.base = <<"how-it-works">>
  BY <1>0
<1> HIDE DEF c1, c2, c3, c4, c5, c6
<1> QED BY <1>1, <1>2, <1>3

(* A path starts with its own first name, and with itself only at full     *)
(* length.                                                                 *)
LEMMA SamePrefix ==
  ASSUME NEW h, IsPath(h), NEW path, IsPath(path), IsPrefix(h, path)
  PROVE  Len(h) <= Len(path) /\ h[1] = path[1] /\ (Len(h) = Len(path) => h = path)
<1>1. Len(h) <= Len(path) /\ \A i \in 1 .. Len(h) : h[i] = path[i]
  BY PrefixMeans DEF IsPath
<1>2. Len(h) \in 1 .. 3 /\ h \in Seq(Names) /\ path \in Seq(Names)
  BY DEF IsPath
<1>3. Len(h) = Len(path) => h = path
  BY <1>1, <1>2, SeqEqual
<1> QED BY <1>1, <1>2, <1>3

(* The screen of its own page covers it whole; those of other cards, and   *)
(* the cards themselves, do not cover it.                                  *)
LEMMA OwnCardMatches ==
  ASSUME NEW i \in Items, NEW s \in i.screens, NEW path, path = s.href
  PROVE  /\ path \in Answering /\ Covers(path, s) /\ MatchLength(path, i) = Len(path) /\ Len(path) \in 1 .. 3
         /\ \A x \in i.screens : Covers(path, x) => Len(x.href) \in Nat /\ Len(x.href) <= Len(path)
                                                      /\ (Len(x.href) = Len(path) => x = s)
<1>1. PICK first \in Cards : IsCard(i, first)
  BY CardsAre
<1>2. path \in Answering /\ \A x \in i.screens : x.href \in Answering
  BY MenuPages
<1>3. IsPath(path) /\ \A x \in i.screens : IsPath(x.href)
  BY <1>2, PathsOfNames
<1>4. Len(path) \in 1 .. 3 /\ \A x \in i.screens : Len(x.href) \in Nat
  BY <1>3 DEF IsPath
<1>5. Covers(path, s)
  <2>1. IsPrefix(path, path)
    BY <1>3, PrefixMeans DEF IsPath
  <2> QED BY <2>1 DEF Covers
<1>6. \A x \in i.screens : Covers(path, x) => Len(x.href) <= Len(path) /\ (Len(x.href) = Len(path) => x = s)
  <2> TAKE x \in i.screens
  <2>1. CASE x.exact
    <3>1. Covers(path, x) => x.href = path
      BY <2>1 DEF Covers
    <3> QED BY <1>1, <1>4, <3>1 DEF IsCard
  <2>2. CASE ~x.exact
    <3>1. Covers(path, x) => IsPrefix(x.href, path)
      BY <2>2 DEF Covers
    <3>2. Covers(path, x) => Len(x.href) <= Len(path) /\ (Len(x.href) = Len(path) => x.href = path)
      BY <1>3, <3>1, SamePrefix
    <3> QED BY <1>1, <3>2 DEF IsCard
  <2> QED BY <2>1, <2>2
<1> DEFINE base == IF IsPrefix(i.base, path) THEN Len(i.base) ELSE -1
           lengths == {base} \cup {Len(x.href) : x \in {y \in i.screens : Covers(path, y)}}
<1>7. base \in Int /\ base <= Len(path)
  <2>1. i.base = <<first>> /\ first \in Names
    BY <1>1, NamesApart DEF IsCard
  <2>2. IsPath(i.base) /\ Len(i.base) = 1
    BY <2>1, PathIs
  <2> QED BY <1>4, <2>2
<1> HIDE DEF base
<1>8. Len(path) \in lengths /\ \A l \in lengths : l \in Int /\ l <= Len(path)
  BY <1>4, <1>5, <1>6, <1>7
<1> HIDE DEF lengths
<1>9. Max(lengths) \in lengths /\ \A l \in lengths : Max(lengths) >= l
  BY <1>4, <1>8 DEF Max
<1>10. Max(lengths) = Len(path)
  BY <1>4, <1>8, <1>9
<1>11. MatchLength(path, i) = Max(lengths)
  BY DEF MatchLength, lengths, base
<1> QED BY <1>2, <1>4, <1>5, <1>6, <1>10, <1>11

(* A card does not match a path that begins with no first name of its own. *)
LEMMA OtherPathsDoNot ==
  ASSUME NEW path, IsPath(path), NEW j \in Items, NEW g \in Cards, IsCard(j, g), path[1] \notin FirstNames(g)
  PROVE  MatchLength(path, j) = -1
<1>1. ~IsPrefix(j.base, path)
  <2>1. j.base = <<g>> /\ g \in Names /\ g \in FirstNames(g)
    BY NamesApart DEF IsCard
  <2> QED BY <2>1, StartsWithOne
<1>2. \A x \in j.screens : ~Covers(path, x)
  <2> TAKE x \in j.screens
  <2>1. IsPath(x.href) /\ x.href[1] \in FirstNames(g)
    BY MenuPages, PathsOfNames, NamesApart DEF IsCard
  <2>2. x.href # path
    BY <2>1
  <2>3. ~IsPrefix(x.href, path)
    BY <2>1, SamePrefix
  <2> QED BY <2>2, <2>3 DEF Covers
<1>3. MatchLength(path, j) = Max({-1})
  <2>1. {Len(x.href) : x \in {y \in j.screens : Covers(path, y)}} = {}
    BY <1>2
  <2> QED BY <1>1, <2>1 DEF MatchLength
<1>4. Max({-1}) = -1
  BY DEF Max
<1> QED BY <1>3, <1>4

(* A path of one card matches no other card.                               *)
LEMMA OtherCardsDoNot ==
  ASSUME NEW i \in Items, NEW s \in i.screens, NEW j \in Items, j # i
  PROVE  MatchLength(s.href, j) = -1
<1>1. PICK f \in Cards : IsCard(i, f)
  BY CardsAre
<1>2. PICK g \in Cards : IsCard(j, g)
  BY CardsAre
<1>3. f # g
  BY <1>1, <1>2, CardsApart DEF IsCard
<1> DEFINE path == s.href
<1>4. IsPath(path) /\ path[1] \in FirstNames(f)
  BY <1>1, MenuPages, PathsOfNames, NamesApart DEF IsCard
<1>5. path[1] \notin FirstNames(g)
  BY <1>3, <1>4, NamesApart
<1> HIDE DEF path
<1> QED BY <1>2, <1>4, <1>5, OtherPathsDoNot DEF path

(* A tab of the top bar is of the card that covers the page, and leads     *)
(* where it says those the page has let in.                                *)
LEMMA TabLinksLead ==
  ASSUME role \in Everyone, NEW path \in Answering, role \in GuardOf(path).roles, NEW link \in TabLinks(path, off)
  PROVE  Leads(link)
<1>1. PICK i \in ActiveItem(TopBar, path) : \E s \in VisibleScreens(i.screens, off) : link = s.href
  <2>1. link \in {s.href : s \in UNION {VisibleScreens(i.screens, off) : i \in ActiveItem(TopBar, path)}}
    BY DEF TabLinks
  <2> QED BY <2>1
<1>2. i \in Items /\ MatchLength(path, i) >= 0
  BY DEF ActiveItem, TopBar
<1>3. PICK first \in Cards : IsCard(i, first)
  BY <1>2, CardsAre
<1>4. link \in CardOf(first) /\ SectionsOfPath(link) \cap off = {}
  BY <1>1, <1>3 DEF IsCard, VisibleScreens
<1>5. link = <<"projects", "new">> => role \in Managers
  BY <1>1, <1>3 DEF IsCard, VisibleScreens
<1>6. role \in Managers \/ first \notin {"analytics", "marketing"}
  <2> SUFFICES ASSUME role = "EMPLOYEE" PROVE first \notin {"analytics", "marketing"}
    BY DEF Everyone
  <2>1. path \in OpenPages
    <3>1. \A r, k, b : Page(r, k, b).roles = r BY DEF Page
    <3>2. role \notin Managers /\ role \notin {"ADMIN"} BY DEF Managers
    <3> QED BY <3>1, <3>2, GuardsAre, ShownAre
  <2>2. path[1] \notin {"analytics", "marketing"} BY <2>1, PathsAre
  <2>3. path[1] \in FirstNames(first)
    <3>1. IsPath(path) BY PathsOfNames
    <3>2. MatchLength(path, i) # -1 BY <1>2
    <3> QED BY <1>2, <1>3, <3>1, <3>2, OtherPathsDoNot
  <2> QED BY <2>2, <2>3 DEF FirstNames
<1> QED BY <1>4, <1>5, <1>6, CardLeads

(* So the page of a link of the menu lights its card and its screen, and   *)
(* only these.                                                             *)
LEMMA ScreenIsLit ==
  ASSUME NEW i \in VisibleItems(menu), NEW s \in VisibleScreens(i.screens, menu)
  PROVE  /\ ActiveItem(VisibleItems(menu), s.href) = {i}
         /\ ActiveScreen(VisibleScreens(i.screens, menu), s.href) = {s}
<1> DEFINE path == s.href
           items == VisibleItems(menu)
           screens == VisibleScreens(i.screens, menu)
<1>1. i \in Items /\ s \in i.screens /\ items \subseteq Items /\ screens \subseteq i.screens /\ i \in items /\ s \in screens
  BY DEF VisibleItems, VisibleScreens
<1>2. /\ Covers(path, s) /\ MatchLength(path, i) = Len(path) /\ Len(path) \in 1 .. 3
      /\ \A x \in i.screens : Covers(path, x) => Len(x.href) \in Nat /\ Len(x.href) <= Len(path)
                                                   /\ (Len(x.href) = Len(path) => x = s)
  BY <1>1, OwnCardMatches
<1>3. \A j \in items : j # i => MatchLength(path, j) = -1
  BY <1>1, OtherCardsDoNot
<1> HIDE DEF items, screens
<1>4. ActiveItem(items, path) = {i}
  <2>1. \A j \in ActiveItem(items, path) : j = i
    BY <1>3 DEF ActiveItem
  <2>2. i \in ActiveItem(items, path)
    BY <1>1, <1>2, <1>3 DEF ActiveItem
  <2> QED BY <2>1, <2>2
<1>5. ActiveScreen(screens, path) = {s}
  <2>1. s \in ActiveScreen(screens, path)
    BY <1>1, <1>2 DEF ActiveScreen
  <2>2. \A t \in ActiveScreen(screens, path) : t = s
    <3> TAKE t \in ActiveScreen(screens, path)
    <3>1. t \in i.screens /\ Covers(path, t) /\ Len(s.href) <= Len(t.href)
      BY <1>1, <1>2 DEF ActiveScreen
    <3> QED BY <1>2, <3>1
  <2> QED BY <2>1, <2>2
<1> QED BY <1>4, <1>5 DEF items, screens

NavigationSpec == NavigationInit /\ [][NavigationNext]_navigationVars

(* Redirects that are left, at most, on the way from a path.               *)
Rest(path) ==
  IF path = Home THEN 1 ELSE IF path \in DOMAIN Moved THEN 3 ELSE IF Admitted(GuardOf(path)) THEN 0 ELSE 2

PlaceOK ==
  /\ at = [path |-> at.path, asked |-> at.asked, by |-> at.by, pc |-> at.pc, hops |-> at.hops,
             fresh |-> at.fresh]
  /\ at.by \in {"link", "address"} /\ at.pc \in {"asked", "shown", "missing"} /\ at.hops \in Nat

(* The redirects so far and those that are left make no circle.            *)
UnderWay == at.pc = "asked" => at.path \in Paths /\ at.hops + Rest(at.path) <= 3

Arrived ==
  at.pc # "asked" =>
    /\ at.path \in Answering /\ at.hops <= 3 /\ role \in GuardOf(at.path).roles
    /\ at.fresh => Admitted(GuardOf(at.path))

(* A link is under way to its own page, or leads home.                     *)
Promised ==
  at.by = "link" =>
    IF at.pc # "asked" THEN at.path = IF Misleading(at.asked) THEN HomePath(role, off) ELSE at.asked
    ELSE \/ at.path = at.asked /\ Leads(at.path)
         \/ Misleading(at.asked) /\ at.path \in {Home, HomePath(role, off)}

WaysInv == role \in Everyone /\ PlaceOK /\ UnderWay /\ Arrived /\ Promised

(* How many redirects are left, kind by kind.                              *)
LEMMA RestIs ==
  ASSUME role \in Everyone
  PROVE  /\ \A path : Rest(path) \in 0 .. 3
         /\ Rest(Home) = 1 /\ Home \in Paths
         /\ \A path \in DOMAIN Moved : Rest(path) = 3 /\ path \in Paths
         /\ \A path \in Answering : Rest(path) = (IF Admitted(GuardOf(path)) THEN 0 ELSE 2) /\ path \in Paths
         /\ \A path \in Paths : path = Home \/ path \in DOMAIN Moved \/ path \in Answering
<1>1. Home \in Paths /\ DOMAIN Moved \subseteq Paths
  BY DEF Paths
<1>2. Home \notin DOMAIN Moved
  <2>1. Home # <<"automation">> /\ Home # <<"sales-funnels">>
    BY DEF Home
  <2> QED BY <2>1 DEF Moved
<1> QED BY <1>1, <1>2 DEF Rest, Answering

LEMMA AskedIs ==
  ASSUME NEW path, NEW by \in {"link", "address"}
  PROVE  LET a == AskedFor(path, by) IN
           /\ a = [path |-> a.path, asked |-> a.asked, by |-> a.by, pc |-> a.pc, hops |-> a.hops,
                   fresh |-> a.fresh]
           /\ a.path = path /\ a.by = by /\ a.pc = "asked" /\ a.hops = 0 /\ (by = "link" => a.asked = path)
           /\ a.fresh = FALSE
BY DEF AskedFor

(* What a page admits and where links lead is by role and sections only.   *)
LEMMA SameReader ==
  ASSUME UNCHANGED <<role, off>>, NEW path
  PROVE  /\ Rest(path)' = Rest(path) /\ Admitted(GuardOf(path))' = Admitted(GuardOf(path))
         /\ Misleading(path)' = Misleading(path) /\ Leads(path)' = Leads(path)
         /\ HomePath(role, off)' = HomePath(role, off)
BY DEF Rest, Admitted, Misleading, Leads, LeadsThere

(* A link or an address begins a way.                                      *)
LEMMA WayBegins ==
  ASSUME WaysInv, NEW path \in Paths, NEW by \in {"link", "address"}, at' = AskedFor(path, by),
         UNCHANGED <<role, off>>, by = "link" => Leads(path)
  PROVE  WaysInv'
<1>1. /\ at' = [path |-> at'.path, asked |-> at'.asked, by |-> at'.by, pc |-> at'.pc, hops |-> at'.hops,
             fresh |-> at'.fresh]
      /\ at'.path = path /\ at'.by = by /\ at'.pc = "asked" /\ at'.hops = 0 /\ (by = "link" => at'.asked = path)
      /\ at'.fresh = FALSE
  BY AskedIs
<1>2. role' \in Everyone /\ Rest(path) \in 0 .. 3
  BY RestIs DEF WaysInv
<1>3. Rest(at.path)' = Rest(path) /\ (Leads(at.path)' <=> Leads(path))
  <2>1. Rest(at.path)' = Rest(path)' /\ (Leads(at.path)' <=> Leads(path)') BY <1>1 DEF Rest, Leads, LeadsThere, Admitted, Misleading
  <2> QED BY <2>1, SameReader
<1>4. UnderWay'
  BY <1>1, <1>2, <1>3 DEF UnderWay
<1>5. Promised'
  BY <1>1, <1>3 DEF Promised
<1>6. Arrived' /\ PlaceOK'
  BY <1>1 DEF Arrived, PlaceOK
<1> QED BY <1>2, <1>4, <1>5, <1>6 DEF WaysInv

(* The steps, one lemma for each kind.                                     *)
LEMMA WaysBegin == NavigationInit => WaysInv
<1> SUFFICES ASSUME NavigationInit PROVE WaysInv
  OBVIOUS
<1>1. /\ at = [path |-> at.path, asked |-> at.asked, by |-> at.by, pc |-> at.pc, hops |-> at.hops,
             fresh |-> at.fresh]
      /\ at.path = Home /\ at.by = "address" /\ at.pc = "asked" /\ at.hops = 0
  BY AskedIs DEF NavigationInit
<1>2. role \in Everyone
  BY DEF NavigationInit
<1>3. Rest(Home) = 1 /\ Home \in Paths
  BY <1>2, RestIs
<1> QED BY <1>1, <1>2, <1>3 DEF WaysInv, PlaceOK, UnderWay, Arrived, Promised

LEMMA FollowKeeps == WaysInv /\ Follow => WaysInv'
<1> SUFFICES ASSUME WaysInv, Follow PROVE WaysInv'
  OBVIOUS
<1>1. role \in Everyone /\ at.pc = "shown" /\ UNCHANGED <<role, off, menu>> /\ Answering \subseteq Paths
  BY DEF WaysInv, Follow, Answering
<1>2. ASSUME NEW path \in MenuLinks(menu) \cup TabLinks(at.path, menu),
             at' = AskedFor(path, IF menu = off THEN "link" ELSE "address")
      PROVE  WaysInv'
  <2>1. path \in Answering
    <3>1. path \in MenuLinks(menu) => path \in Answering
      BY MenuPages DEF MenuLinks, VisibleItems, VisibleScreens
    <3>2. path \in TabLinks(at.path, menu) => path \in Answering
      <4>1. \A i \in ActiveItem(TopBar, at.path) : \A s \in VisibleScreens(i.screens, menu) : s.href \in Answering
        BY MenuPages DEF ActiveItem, TopBar, VisibleScreens
      <4> QED BY <4>1 DEF TabLinks
    <3> QED BY <1>2, <3>1, <3>2
  <2>2. menu = off => Leads(path)
    <3>1. at.path \in Answering /\ role \in GuardOf(at.path).roles
      BY <1>1 DEF WaysInv, Arrived
    <3> QED BY <1>1, <1>2, <3>1, MenuLinksLead, TabLinksLead
  <2>3. CASE menu = off
    BY <1>1, <1>2, <2>1, <2>2, <2>3, WayBegins
  <2>4. CASE menu # off
    BY <1>1, <1>2, <2>1, <2>4, WayBegins
  <2> QED BY <2>3, <2>4
<1>3. ASSUME at.fresh, NEW path \in PageLinks(at.path, off), at' = AskedFor(path, "link")
      PROVE  WaysInv'
  <2>1. at.path \in Answering /\ Admitted(GuardOf(at.path))
    BY <1>1, <1>3 DEF WaysInv, Arrived
  <2>2. Leads(path) /\ path \in Answering
    BY <1>1, <2>1, PageLinksLead DEF Leads
  <2> QED BY <1>1, <1>3, <2>2, WayBegins
<1>4. ASSUME NEW path \in Paths, at' = AskedFor(path, "address")
      PROVE  WaysInv'
  BY <1>1, <1>4, WayBegins
<1> QED BY <1>2, <1>3, <1>4 DEF Follow

(* A redirect takes the way one page on.                                   *)
LEMMA WayGoesOn ==
  ASSUME WaysInv, at.pc = "asked", NEW path \in Paths, at' = [at EXCEPT !.path = path, !.hops = @ + 1],
         UNCHANGED <<role, off>>, Rest(path) + 1 <= Rest(at.path),
         at.by = "link" => Misleading(at.asked) /\ path \in {Home, HomePath(role, off)}
  PROVE  WaysInv'
<1>1. /\ at' = [path |-> at'.path, asked |-> at'.asked, by |-> at'.by, pc |-> at'.pc, hops |-> at'.hops,
             fresh |-> at'.fresh]
      /\ at'.path = path /\ at'.asked = at.asked /\ at'.by = at.by /\ at'.pc = "asked" /\ at'.hops = at.hops + 1
  BY DEF WaysInv, PlaceOK
<1>2. role \in Everyone /\ at.hops \in Nat /\ at.hops + Rest(at.path) <= 3 /\ PlaceOK
  BY DEF WaysInv, UnderWay, PlaceOK
<1>3. Rest(path) \in 0 .. 3 /\ Rest(at.path) \in 0 .. 3
  BY <1>2, RestIs
<1>4. /\ Rest(at.path)' = Rest(path) /\ (Misleading(at.asked)' <=> Misleading(at.asked))
      /\ HomePath(role, off)' = HomePath(role, off)
  <2>1. Rest(at.path)' = Rest(path)' /\ (Misleading(at.asked)' <=> Misleading(at.asked))
    BY <1>1 DEF Rest, Misleading, Admitted
  <2> QED BY <2>1, SameReader
<1>5. UnderWay'
  <2>1. at.hops + 1 + Rest(path) <= 3
    BY <1>2, <1>3
  <2> QED BY <1>1, <1>4, <2>1 DEF UnderWay
<1>6. Promised'
  BY <1>1, <1>4 DEF Promised
<1>7. Arrived' /\ PlaceOK' /\ role' \in Everyone
  BY <1>1, <1>2 DEF Arrived, PlaceOK
<1> QED BY <1>5, <1>6, <1>7 DEF WaysInv

LEMMA RedirectsKeep == WaysInv /\ (RedirectHome \/ RedirectMoved \/ SendBack) => WaysInv'
<1> SUFFICES ASSUME WaysInv, RedirectHome \/ RedirectMoved \/ SendBack PROVE WaysInv'
  OBVIOUS
<1>1. role \in Everyone /\ PlaceOK /\ at.pc = "asked" /\ at.path \in Paths /\ UNCHANGED <<role, off>>
  BY DEF WaysInv, UnderWay, RedirectHome, RedirectMoved, SendBack, Guarded
<1>2. CASE RedirectHome
  <2> DEFINE path == HomePath(role, off)
  <2>1. path \in Answering /\ Admitted(GuardOf(path))
    BY <1>1, HomeAdmits
  <2>2. path \in Paths /\ Rest(path) = 0 /\ Rest(at.path) = 1 /\ at.path \notin Answering
    <3>1. at.path = Home
      BY <1>2 DEF RedirectHome
    <3> QED BY <1>1, <2>1, <3>1, RestIs DEF Answering
  <2>3. at' = [at EXCEPT !.path = path, !.hops = @ + 1]
    BY <1>2 DEF RedirectHome
  <2> HIDE DEF path
  <2>4. Rest(path) + 1 <= Rest(at.path)
    BY <2>2
  <2>5. at.by = "link" => Misleading(at.asked) /\ path \in {Home, HomePath(role, off)}
    BY <1>1, <2>2 DEF WaysInv, Promised, Leads, path
  <2> QED BY <1>1, <2>2, <2>3, <2>4, <2>5, WayGoesOn
<1>3. CASE RedirectMoved
  <2> DEFINE path == Moved[at.path]
  <2>1. path \in Answering /\ at.path \in DOMAIN Moved
    BY <1>3, MovedAre DEF RedirectMoved
  <2>2. path \in Paths /\ Rest(path) \in {0, 2} /\ Rest(at.path) = 3 /\ at.path \notin Answering
    BY <1>1, <2>1, RestIs DEF Answering
  <2>3. at' = [at EXCEPT !.path = path, !.hops = @ + 1]
    BY <1>1, <1>3 DEF RedirectMoved, PlaceOK
  <2> HIDE DEF path
  <2>4. Rest(path) + 1 <= Rest(at.path)
    BY <2>2
  <2>5. at.by # "link"
    <3>1. at.path # Home
      BY <2>2, RestIs, <1>1
    <3>2. at.path # HomePath(role, off)
      BY <1>1, <2>2, HomeAdmits
    <3> QED BY <1>1, <2>2, <3>1, <3>2 DEF WaysInv, Promised, Leads
  <2> QED BY <1>1, <2>2, <2>3, <2>4, <2>5, WayGoesOn
<1>4. CASE SendBack
  <2> DEFINE path == GuardOf(at.path).back
  <2>1. at.path \in Answering /\ ~Admitted(GuardOf(at.path))
    BY <1>1, <1>4 DEF SendBack, Guarded, Answering
  <2>2. path = Home \/ (path \in Answering /\ Admitted(GuardOf(path)))
    BY <1>1, <2>1, BackAdmits
  <2>3. path \in Paths /\ Rest(path) \in {0, 1} /\ Rest(at.path) = 2
    BY <1>1, <2>1, <2>2, RestIs
  <2>4. at' = [at EXCEPT !.path = path, !.hops = @ + 1]
    BY <1>1, <1>4 DEF SendBack, PlaceOK
  <2>5. at.by = "link" => Misleading(at.asked) /\ path \in {Home, HomePath(role, off)}
    <3>1. at.path # Home
      BY <2>1 DEF Answering
    <3>2. at.path # HomePath(role, off)
      BY <1>1, <2>1, HomeAdmits
    <3>3. at.by = "link" => at.path = at.asked /\ LeadsThere(at.path)
      BY <1>1, <3>1, <3>2 DEF WaysInv, Promised, Leads
    <3> QED BY <2>1, <3>3 DEF LeadsThere
  <2> HIDE DEF path
  <2>6. Rest(path) + 1 <= Rest(at.path)
    BY <2>3
  <2> QED BY <1>1, <2>3, <2>4, <2>5, <2>6, WayGoesOn
<1> QED BY <1>2, <1>3, <1>4

LEMMA ShowKeeps == WaysInv /\ Show => WaysInv'
<1> SUFFICES ASSUME WaysInv, Show PROVE WaysInv'
  OBVIOUS
<1>1. /\ role \in Everyone /\ PlaceOK /\ at.pc = "asked" /\ at.path \in Paths /\ at.hops + Rest(at.path) <= 3
      /\ UNCHANGED <<role, off>> /\ at.path \in Answering /\ role \in GuardOf(at.path).roles
      /\ Admitted(GuardOf(at.path))
  BY DEF WaysInv, UnderWay, Show, Guarded, Answering, Admitted
<1>2. at.hops \in Nat /\ at.hops <= 3
  <2>1. Rest(at.path) \in 0 .. 3 /\ at.hops \in Nat
    BY <1>1, RestIs DEF PlaceOK
  <2> QED BY <1>1, <2>1
<1> DEFINE pc == IF Missing(at.path) THEN "missing" ELSE "shown"
<1>3. at' = [at EXCEPT !.pc = pc, !.fresh = TRUE] /\ pc \in {"missing", "shown"}
  BY DEF Show
<1> HIDE DEF pc
<1>4. /\ at' = [path |-> at'.path, asked |-> at'.asked, by |-> at'.by, pc |-> at'.pc, hops |-> at'.hops,
             fresh |-> at'.fresh]
      /\ at'.path = at.path /\ at'.asked = at.asked /\ at'.by = at.by /\ at'.pc = pc /\ at'.hops = at.hops
      /\ at'.fresh = TRUE
  BY <1>1, <1>3 DEF PlaceOK
<1>5. PlaceOK' /\ UnderWay' /\ role' \in Everyone
  BY <1>1, <1>3, <1>4 DEF PlaceOK, UnderWay
<1>6. Arrived'
  <2>1. GuardOf(at.path)' = GuardOf(at'.path)
    BY DEF GuardOf
  <2>2. Admitted(GuardOf(at.path))' = Admitted(GuardOf(at.path))
    BY <1>1, <1>4, <2>1 DEF Admitted
  <2> QED BY <1>1, <1>2, <1>4, <2>1, <2>2 DEF Arrived
<1>7. Promised'
  <2>1. Misleading(at.asked)' = Misleading(at.asked) /\ HomePath(role, off)' = HomePath(role, off)
    BY <1>1, <1>4 DEF Misleading
  <2>2. at.path # Home
    BY <1>1 DEF Answering
  <2>3. at.by = "link" => at.path = IF Misleading(at.asked) THEN HomePath(role, off) ELSE at.asked
    BY <1>1, <2>2 DEF WaysInv, Promised, Leads, LeadsThere
  <2> QED BY <1>1, <1>3, <1>4, <2>1, <2>3 DEF Promised
<1> QED BY <1>5, <1>6, <1>7 DEF WaysInv

LEMMA SwitchKeeps == WaysInv /\ Switch => WaysInv'
<1> SUFFICES ASSUME WaysInv, Switch PROVE WaysInv'
  OBVIOUS
<1>1. role \in Everyone /\ PlaceOK /\ role' = role
  BY DEF WaysInv, Switch
<1>2. /\ at' = [path |-> at'.path, asked |-> at'.asked, by |-> at'.by, pc |-> at'.pc, hops |-> at'.hops,
             fresh |-> at'.fresh]
      /\ at'.path = at.path /\ at'.by = "address" /\ at'.pc = at.pc /\ at'.hops = 0
      /\ at'.fresh = FALSE
  BY <1>1 DEF Switch, PlaceOK
<1>3. Rest(at.path)' \in 0 .. 3
  <2>1. role' \in Everyone
    BY <1>1
  <2> QED BY <2>1 DEF Rest
<1>4. UnderWay'
  BY <1>2, <1>3 DEF WaysInv, UnderWay
<1>5. Arrived'
  BY <1>1, <1>2 DEF WaysInv, Arrived
<1>6. PlaceOK' /\ Promised'
  BY <1>1, <1>2 DEF PlaceOK, Promised
<1> QED BY <1>1, <1>4, <1>5, <1>6 DEF WaysInv

LEMMA WaysGoOn == WaysInv /\ [NavigationNext]_navigationVars => WaysInv'
<1> SUFFICES ASSUME WaysInv, [NavigationNext]_navigationVars PROVE WaysInv'
  OBVIOUS
<1>1. CASE GoBack
  <2>1. Home \in Paths /\ UNCHANGED <<role, off>> /\ at' = AskedFor(Home, "address")
    BY <1>1 DEF GoBack, Paths
  <2> QED BY <2>1, WayBegins
<1>2. CASE UNCHANGED <<role, off, at>>
  <2>1. /\ UNCHANGED <<Rest(at.path), Leads(at.path), Misleading(at.asked), HomePath(role, off)>>
        /\ UNCHANGED Admitted(GuardOf(at.path))
    BY <1>2 DEF Rest, Leads, LeadsThere, Admitted, Misleading
  <2> QED BY <1>2, <2>1 DEF WaysInv, PlaceOK, UnderWay, Arrived, Promised
<1>3. OpenAgain \/ UNCHANGED navigationVars => UNCHANGED <<role, off, at>>
  BY DEF OpenAgain, navigationVars
<1> QED BY <1>1, <1>2, <1>3, FollowKeeps, RedirectsKeep, ShowKeeps, SwitchKeeps DEF NavigationNext

(* Whatever is switched off, nobody is sent round in a circle, a link that *)
(* is shown leads to the page it names (or home, where it is misleading),  *)
(* a link of the menu lights its card and screen there, and a page of a    *)
(* section that is switched off is not shown (nav.tsx, the guards of the   *)
(* pages, page.tsx of «/»).                                                *)
THEOREM WaysAreAsPromised == NavigationSpec => WaysLeadThere
<1>1. WaysInv => SentToAPage /\ LinksLeadThere
  <2> SUFFICES ASSUME WaysInv PROVE SentToAPage /\ LinksLeadThere
    OBVIOUS
  <2>1. at.hops <= 3
    <3>1. Rest(at.path) \in 0 .. 3 /\ at.hops \in Nat
      BY RestIs DEF WaysInv, PlaceOK
    <3> QED BY <3>1 DEF WaysInv, UnderWay, Arrived
  <2> QED BY <2>1 DEF WaysInv, Arrived, Promised, SentToAPage, LinksLeadThere, Answering
<1>2. OwnLinkLit
  BY ScreenIsLit DEF OwnLinkLit
<1>3. WaysInv /\ [NavigationNext]_navigationVars => SwitchedOffNotShown
  <2> SUFFICES ASSUME WaysInv, [NavigationNext]_navigationVars, at.pc = "asked", at'.pc = "shown"
               PROVE  SectionsOfPath(at.path) \cap off = {}
    BY DEF SwitchedOffNotShown
  <2>1. PlaceOK /\ at.path \in Paths
    BY DEF WaysInv, UnderWay
  <2>2. \A path, by : AskedFor(path, by).pc = "asked"
    BY DEF AskedFor
  <2>3. Show
    <3>1. ~Follow /\ ~GoBack
      BY DEF Follow, GoBack
    <3>2. RedirectHome \/ RedirectMoved \/ SendBack \/ Switch => at'.pc = at.pc
      BY <2>1 DEF RedirectHome, RedirectMoved, SendBack, Switch, PlaceOK
    <3>3. OpenAgain \/ UNCHANGED navigationVars => at' = at
      BY DEF OpenAgain, navigationVars
    <3> QED BY <3>1, <3>2, <3>3 DEF NavigationNext
  <2>4. at.path \in Answering /\ GuardOf(at.path).section \cap off = {}
    BY <2>1, <2>3 DEF Show, Guarded, Answering, Admitted
  <2> QED BY <2>4, SectionsAreGuarded
<1> QED BY <1>1, <1>2, <1>3, WaysBegin, WaysGoOn, PTL DEF NavigationSpec, WaysLeadThere
=============================================================================
