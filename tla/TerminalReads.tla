---------------------------- MODULE TerminalReads ----------------------------
(***************************************************************************)
(* How the dashboard reads: a tab asks its own server for a key of one     *)
(* chain, the server climbs that chain's ladder of hosts, wraps what it    *)
(* got, and a shared cache may keep the answer for the next reader.  Two   *)
(* tabs share the chain cookie, and answers arrive in any order.  A host   *)
(* answers as it likes on every try; Health is what its /health would say. *)
(***************************************************************************)
EXTENDS Integers, FiniteSets, Sequences, FiniteSetsExt, SequencesExt

CONSTANTS Null,            \* not given, not read, nothing there
          Tabs,            \* tabs of one browser: they share its cookies
          Configured,      \* [ChainKeys -> the host the environment names]
          Presses,         \* [ChainKeys -> the sequence of published hosts]
          Health,          \* [host -> the chain its /health names, or Null]
          MaxAsks, MaxTurns \* bounds: requests and chain switches

ChainKeys == {"mainnet", "testnet"}
DefaultChain == "mainnet"

VARIABLES cookie,          \* the chain cookie of the browser, or Null
          tabs,            \* tab -> the chain it shows and what it shows
          asked,           \* tab -> its request under way, or Null
          rigs,            \* chain -> the ladder, what hosts said, the page memo
          shared,          \* chain -> what the shared cache holds for its keys
          asks, turns

vars == <<cookie, tabs, asked, rigs, shared, asks, turns>>

-----------------------------------------------------------------------------
(* Which chain is asked for, and which hosts may answer for it.            *)

ParseChainKey(raw) == IF raw \in ChainKeys THEN raw ELSE Null

ResolveChain(param, inCookie) ==
  CHOOSE c \in ChainKeys :
    c = IF ParseChainKey(param) # Null THEN param
        ELSE IF ParseChainKey(inCookie) # Null THEN inCookie ELSE DefaultChain

\* What each chain has: a bundled snapshot and direct reads are mainnet's alone.
Chains == [c \in ChainKeys |-> [bundle |-> c = "mainnet", directReads |-> c = "mainnet"]]

\* A tab names its own chain in every key, so the cookie never decides for it.
RequestChain(param) == ResolveChain(param, cookie)

\* Configured, published, alternates: in that order, each once.
SellerCandidates(configured, published, alternates) ==
  FoldLeft(LAMBDA out, h : IF h = Null \/ \E i \in DOMAIN out : out[i] = h
                           THEN out ELSE Append(out, h),
           <<>>, <<configured, published>> \o alternates)

ChainCandidates(c) == SellerCandidates(Configured[c], Head(Presses[c]), Presses[c])

ChainMismatch(c, said) == said \in ChainKeys /\ said # c

IsHostFailure(status) == status \in {"500", "timeout"}
ShouldTryNextHost(status, absent) == IsHostFailure(status) \/ absent
IsRefusal(status) == status = "401"

\* Mutant: whichever press answers is taken for the chain's.
AttemptAnyPress(status, wrong, absent) ==
  [ok |-> status = "200", hostFailed |-> ShouldTryNextHost(status, absent),
   upstream |-> IF status = "200" THEN "ok" ELSE IF status = "timeout" THEN "timeout"
                ELSE IF absent THEN "absent" ELSE "error",
   refused |-> IsRefusal(status)]

\* What one try of a host comes to.  ok needs a host that is not known to serve
\* another chain; a missing page climbs only when the host's own list of routes
\* lacks it.
Attempt(status, wrong, absent) ==
  [ok |-> status = "200" /\ ~wrong,
   hostFailed |-> wrong \/ ShouldTryNextHost(status, absent),
   upstream |-> IF status = "200" /\ ~wrong THEN "ok"
                ELSE IF status = "timeout" THEN "timeout"
                ELSE IF absent THEN "absent" ELSE "error",
   refused |-> IsRefusal(status)]

\* The snapshot of the build belongs to one chain: the other is shown empty.
Cushion(c) == IF Chains[c].bundle THEN "bundle" ELSE "empty"

\* Only the default chain's answers may sit in a cache that several readers share.
SharedCache(c) == IF c = DefaultChain THEN "shared" ELSE "private"
EnvelopeHeaders(c, live) == IF live THEN SharedCache(c) ELSE "no-store"

\* The stamp on an answer must be the chain that was asked for.
SameChain(env, c) == env.chain = c

-----------------------------------------------------------------------------
Empty(c) == [chain |-> c, shown |-> Null]

Init ==
  /\ cookie = Null
  /\ tabs = [t \in Tabs |-> Empty(DefaultChain)]
  /\ asked = [t \in Tabs |-> Null]
  /\ rigs = [c \in ChainKeys |->
               [active |-> Head(ChainCandidates(c)), fellBack |-> FALSE, memo |-> Null,
                identity |-> [h \in Range(ChainCandidates(c)) |-> "unasked"]]]
  /\ shared = [c \in ChainKeys |-> Null]
  /\ asks = 0 /\ turns = 0

\* The toggle: the cookie of every tab, the chain of this one, and a reload that
\* throws away what the tab showed and was waiting for.
SetChain(t, c) ==
  /\ turns < MaxTurns /\ tabs[t].chain # c
  /\ cookie' = c
  /\ tabs' = [tabs EXCEPT ![t] = Empty(c)]
  /\ asked' = [asked EXCEPT ![t] = Null]
  /\ turns' = turns + 1
  /\ UNCHANGED <<rigs, shared, asks>>

\* A new tab on a path without a chain in it takes the cookie's.
OpenAgain(t) ==
  /\ turns < MaxTurns
  /\ tabs' = [tabs EXCEPT ![t] = Empty(ResolveChain(Null, cookie))]
  /\ asked' = [asked EXCEPT ![t] = Null]
  /\ turns' = turns + 1
  /\ UNCHANGED <<cookie, rigs, shared, asks>>

\* A poll of the tab's page: the shared cache may answer, then the memo of the
\* server, else the server tries the host its ladder stands on.
Poll(t) ==
  LET key == tabs[t].chain  c == RequestChain(key)
      Answered(env) == [key |-> key, chain |-> c, step |-> "answered", host |-> Null, first |-> Null, env |-> env]
  IN  /\ asked[t] = Null /\ asks < MaxAsks /\ asks' = asks + 1
      /\ \/ shared[key] # Null /\ asked' = [asked EXCEPT ![t] = Answered(shared[key])]
         \/ rigs[c].memo # Null /\ asked' = [asked EXCEPT ![t] = Answered(rigs[c].memo)]
         \/ asked' = [asked EXCEPT ![t] = [key |-> key, chain |-> c, step |-> "first", env |-> Null,
                                           host |-> rigs[c].active, first |-> Null]]
      /\ UNCHANGED <<cookie, tabs, rigs, shared, turns>>

\* The first answer of a host is followed by one look at its health; a look that
\* fails clears the host for good.
Verdict(c, h, status, seen) ==
  IF status # "200" \/ rigs[c].identity[h] # "unasked" THEN rigs[c].identity[h]
  ELSE IF seen /\ ChainMismatch(c, Health[h]) THEN "wrong" ELSE "fine"

Outcome(c, live, host) == [live |-> live, chain |-> c, host |-> host,
                           data |-> IF live THEN "live" ELSE Cushion(c)]

\* A try comes back.  The ladder moves only to a host that answered well; when
\* both fail, the answer is the first one's.
Tried(t, status, seen, lacks) ==
  LET r == asked[t]  c == r.chain  h == r.host  v == Verdict(c, h, status, seen)
      a == Attempt(status, v = "wrong", status = "404" /\ lacks)
      next == SelectInSeq(ChainCandidates(c), LAMBDA x : x # rigs[c].active)
      climb == r.step = "first" /\ ~a.ok /\ a.hostFailed /\ next # 0
      env == Outcome(c, a.ok, IF a.ok THEN h ELSE Null)
  IN  /\ r # Null /\ r.step \in {"first", "second"}
      /\ rigs' = [rigs EXCEPT
           ![c] = [active |-> IF r.step = "second" /\ a.ok THEN h ELSE @.active,
                   fellBack |-> @.fellBack \/ (r.step = "second" /\ a.ok),
                   identity |-> [@.identity EXCEPT ![h] = v],
                   memo |-> IF climb THEN @.memo ELSE env]]
      /\ asked' = [asked EXCEPT ![t] =
           IF climb THEN [r EXCEPT !.step = "second", !.first = h, !.host = ChainCandidates(c)[next]]
           ELSE [r EXCEPT !.step = "answered", !.env = env]]
      /\ shared' = [shared EXCEPT ![r.key] =
           IF ~climb /\ EnvelopeHeaders(c, a.ok) = "shared" THEN env ELSE @]
      /\ UNCHANGED <<cookie, tabs, asks, turns>>

\* An answer reaches the tab, which drops one that is stamped with another chain
\* and keeps what it showed before.
Answer(t) ==
  /\ asked[t] # Null /\ asked[t].step = "answered"
  /\ tabs' = [tabs EXCEPT ![t].shown = IF SameChain(asked[t].env, tabs[t].chain) THEN asked[t].env ELSE @]
  /\ asked' = [asked EXCEPT ![t] = Null]
  /\ UNCHANGED <<cookie, rigs, shared, asks, turns>>

\* Ten seconds pass at the edge and five at the server: both forget.
Forget ==
  /\ \E c \in ChainKeys : shared[c] # Null \/ rigs[c].memo # Null
  /\ shared' = [c \in ChainKeys |-> Null]
  /\ rigs' = [c \in ChainKeys |-> [rigs[c] EXCEPT !.memo = Null]]
  /\ UNCHANGED <<cookie, tabs, asked, asks, turns>>

Next ==
  \/ \E t \in Tabs, c \in ChainKeys : SetChain(t, c)
  \/ \E t \in Tabs : OpenAgain(t) \/ Poll(t) \/ Answer(t)
  \/ \E t \in Tabs, s \in {"200", "401", "404", "500", "timeout"}, seen \in BOOLEAN, lacks \in BOOLEAN :
       asked[t] # Null /\ Tried(t, s, seen, lacks)
  \/ Forget

Spec == Init /\ [][Next]_vars

-----------------------------------------------------------------------------
\* What a tab shows is of the chain its toggle names, the bundled snapshot never
\* stands in for the other chain, and what it shows as live did not come from a
\* host that has said it serves another chain; whichever way the two tabs
\* switch, their answers cross and the ladder climbs.
TabsShowTheirChain ==
  \A t \in Tabs : tabs[t].shown # Null =>
    LET s == tabs[t].shown IN
    /\ s.chain = tabs[t].chain
    /\ s.data = "bundle" => tabs[t].chain = DefaultChain
    /\ s.live => rigs[s.chain].identity[s.host] = "fine"

\* The cache that other readers share never holds a stand-in for a press that did
\* not answer, nor anything of the chain a reader has to choose.
SharedAnswersAreLive ==
  \A c \in ChainKeys : shared[c] # Null => shared[c].live /\ shared[c].chain = DefaultChain /\ c = DefaultChain

\* The ladder never leaves its first host but for one that answered well and was
\* not found to serve another chain.
LadderStandsOnAnAnswer ==
  \A c \in ChainKeys : rigs[c].fellBack => rigs[c].identity[rigs[c].active] = "fine"

\* The second try of a read is at another host than its first.  The code does not
\* have this: when another read moves the ladder in between, the first host that
\* is not where the ladder stands is the one that has just failed.
SecondTryIsElsewhere ==
  \A t \in Tabs : (asked[t] # Null /\ asked[t].step = "second") => asked[t].host # asked[t].first
=============================================================================
