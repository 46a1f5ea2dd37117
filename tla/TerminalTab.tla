------------------------------ MODULE TerminalTab ------------------------------
(***************************************************************************)
(* What one tab concludes from the answers it gets: how often it asks, what *)
(* it retries, when it says the press is live, stale, waking or away, what  *)
(* it reads from the chain itself meanwhile; and what its server keeps      *)
(* between readers: the last good answer of a press and the count of what  *)
(* callers asked of the paid screen.                                        *)
(***************************************************************************)
EXTENDS Integers, FiniteSets, Sequences, FiniteSetsExt, SequencesExt

CONSTANTS Null,
          StaleWindow, WakeWindow, WakeEta,  \* 90, 120 and 60 seconds in the code
          LastGoodMaxAge,                    \* ten minutes
          PerKey, Everyone, Window,          \* 6 and 60 calls a minute
          Indices,                           \* the indices of the oracle
          MaxRetries,                        \* 6
          Callers, EndOfTime, MaxCalls

VARIABLES now,
          env,       \* the page's last answer: live, and whether one ever came
          lastLive, wakeStarted, wakePinged,   \* what the tab remembers of it
          onchain,   \* indices a direct read brought, or Null
          retries,   \* failures in a row of a page that says nothing when it fails
          stopped,   \* its retries are over: nothing but a new key asks again
          hits,      \* the screen's calls: who, when
          kept,      \* the server's last good answer of a press: when
          served,    \* what it last served of it
          pings      \* wake pings of this outage

vars == <<now, env, lastLive, wakeStarted, wakePinged, onchain, retries, stopped, hits, kept, served, pings>>

-----------------------------------------------------------------------------
(* How often each page asks.                                               *)

\* What the pages of the press ask for, and every how many seconds; the hedger
\* and the futures ask more often while a press is there to answer.
PressPolls(hedgerLive, futuresFrom) ==
  [terminal |-> 15, revenue |-> 10, webhooks |-> 8, x402 |-> 60, catalog |-> 60, receipts |-> 5,
   hedger |-> IF hedgerLive THEN 15 ELSE 60,
   futures |-> CASE futuresFrom = "chain" -> 30 [] futuresFrom = "live" -> 4 [] OTHER -> 15]

GatePolls == [health |-> 30, gate |-> 60, clusters |-> 60, humanId |-> 60]

\* The chain is asked only while the press is away.
OnchainPolls(enabled) == IF enabled THEN [prints |-> 60, history |-> 120] ELSE [prints |-> 0, history |-> 0]

\* A run is watched closely while it runs; the attack's clock never stops, the
\* buyer's does.
RunPolls(buyer, attack) ==
  [buyerMs |-> IF buyer = "running" THEN 700 ELSE 0, ready |-> 30000, balances |-> 12000,
   attackMs |-> IF attack = "running" THEN 700 ELSE 20000]

\* The pages of the operator; the ones about a business wait for its name and
\* carry the reader's card.
OperatorPolls(business) ==
  LET named(s) == IF business = Null THEN 0 ELSE s
  IN  [tape |-> 30, ops |-> 60, serves |-> 300, businesses |-> 300, statement |-> named(30),
       audit |-> named(60), traction |-> 120, par |-> 0]

\* A host that says nothing of its routes has said nothing, not that it has none.
ServedPaths(answer) == IF answer = Null \/ answer = {} THEN Null ELSE answer

\* The vault's pages: an open checkpoint is watched, a verdict that came is not
\* asked for again.
FloatPolls(checkpoints, verdict) ==
  [queue |-> IF \E s \in checkpoints : s \in {"open", "claimed"} THEN 3 ELSE 20, vault |-> 15,
   classify |-> IF verdict = "ok" THEN 0 ELSE 4, tape |-> 12, yield |-> 60, reserve |-> 120, gate |-> 60]

\* A refused credential and a route the press lacks are answers, and are not
\* asked for again; anything else is, MaxRetries times, ever more slowly.
RetryIn(status, upstream, n) ==
  IF status \in {401, 403} \/ upstream = "absent" \/ n >= MaxRetries THEN Null
  ELSE Min({30, 2 * 2 ^ n})

-----------------------------------------------------------------------------
(* The connection.                                                         *)

Said(state) == [state |-> state, remaining |-> Null]

ConnState(live, fetched, last, wake, ok, t) ==
  IF live THEN Said("live")
  ELSE IF ~fetched THEN Said("linking")
  ELSE IF last # Null /\ t - last \in 0 .. StaleWindow THEN Said("stale")
  ELSE IF wake # Null /\ t - wake \in 0 .. WakeWindow
    THEN [state |-> "waking", remaining |-> Max({0, WakeEta - (t - wake)})]
  ELSE Said(IF ok THEN "onchain-only" ELSE "archived")

\* Some of the indices is not an oracle that answers.
OnchainOk == onchain \notin {Null, {}} /\ onchain = Indices

Connection == ConnState(env.live, env.fetched, lastLive, wakeStarted, OnchainOk, now)

\* A read of every index, one after the other, and one more pass over those that
\* failed when some did not; nothing at all is no read.
OracleRead(first, second) ==
  LET missed == Indices \ first
      got == IF missed \notin {{}, Indices} THEN first \union (second \intersect missed) ELSE first
  IN  IF got = {} THEN Null ELSE got

\* A history with a hole is no history.
CompleteHistory(points, want) == IF Cardinality(points) = want THEN points ELSE Null

\* The sellers of the registry: the count always, the records of the first
\* twenty-five when asked, and all of it or nothing.
MaxSellers == 25
RegistryRead(count, reads, records) ==
  IF \E i \in 1 .. (IF records THEN Min({count, MaxSellers}) ELSE 0) : reads[i] = Null THEN Null
  ELSE [sellers |-> IF records THEN {i \in 1 .. Min({count, MaxSellers}) : reads[i] = "exists"} ELSE {},
        truncated |-> records /\ count > MaxSellers]

\* A press that is a chain's only source is given longer.
PressTimeout(soleTier) == IF soleTier THEN 25 ELSE 12

-----------------------------------------------------------------------------
Init ==
  /\ now = 0 /\ env = [live |-> FALSE, fetched |-> FALSE]
  /\ lastLive = Null /\ wakeStarted = Null /\ wakePinged = FALSE /\ pings = 0
  /\ onchain = Null /\ retries = 0 /\ stopped = FALSE
  /\ hits = <<>> /\ kept = Null /\ served = Null

\* An answer of the page's own key.  A live one ends the outage; the first that
\* is not starts the only ping of it.
Terminal(live) ==
  /\ env' = [live |-> live, fetched |-> TRUE]
  /\ IF live
     THEN /\ lastLive' = now /\ wakeStarted' = Null /\ wakePinged' = FALSE /\ pings' = 0
     ELSE /\ wakePinged' = TRUE /\ UNCHANGED lastLive
          /\ IF wakePinged THEN UNCHANGED <<wakeStarted, pings>>
             ELSE wakeStarted' = now /\ pings' = pings + 1
  /\ UNCHANGED <<now, onchain, retries, stopped, hits, kept, served>>

\* The direct read, while the press is away: two passes, each of which brings
\* any of the indices.
ReadOnchain(first, second) ==
  /\ ~env.live /\ env.fetched
  /\ onchain' = OracleRead(first, second)
  /\ UNCHANGED <<now, env, lastLive, wakeStarted, wakePinged, pings, retries, stopped, hits, kept, served>>

\* A page whose key fails, and one that answers.
PageFails(status, upstream) ==
  /\ ~stopped
  /\ IF RetryIn(status, upstream, retries) = Null
     THEN stopped' = TRUE /\ UNCHANGED retries
     ELSE retries' = retries + 1 /\ UNCHANGED stopped
  /\ UNCHANGED <<now, env, lastLive, wakeStarted, wakePinged, pings, onchain, hits, kept, served>>

PageAnswers ==
  /\ ~stopped /\ retries' = 0
  /\ UNCHANGED <<now, env, lastLive, wakeStarted, wakePinged, pings, onchain, stopped, hits, kept, served>>

\* The caller's own window first, then everyone's; only a call that is let
\* through counts.
Recent == SelectSeq(hits, LAMBDA h : h.at > now - Window)
Allow(caller) ==
  /\ Len(SelectSeq(Recent, LAMBDA h : h.who = caller)) < PerKey
  /\ Len(Recent) < Everyone

CallScreen(caller) ==
  /\ Len(hits) < MaxCalls
  /\ IF Allow(caller) THEN hits' = Append(hits, [who |-> caller, at |-> now]) ELSE UNCHANGED hits
  /\ UNCHANGED <<now, env, lastLive, wakeStarted, wakePinged, pings, onchain, retries, stopped, kept, served>>

\* Mutant: a kept answer never grows old.
RecallWhatever == kept

\* A read of a press whose answer is kept: a failure serves the kept one while it
\* is young enough, and nothing after that.
Recall == IF kept = Null \/ now - kept > LastGoodMaxAge THEN Null ELSE kept

PressAnswers ==
  /\ kept' = now /\ served' = [of |-> now, at |-> now]
  /\ UNCHANGED <<now, env, lastLive, wakeStarted, wakePinged, pings, onchain, retries, stopped, hits>>

PressFails ==
  /\ served' = IF Recall = Null THEN Null ELSE [of |-> Recall, at |-> now]
  /\ UNCHANGED <<now, env, lastLive, wakeStarted, wakePinged, pings, onchain, retries, stopped, hits, kept>>

Tick ==
  /\ now < EndOfTime /\ now' = now + 1
  /\ UNCHANGED <<env, lastLive, wakeStarted, wakePinged, pings, onchain, retries, stopped, hits, kept, served>>

Next ==
  \/ \E live \in BOOLEAN : Terminal(live)
  \/ \E first, second \in SUBSET Indices : ReadOnchain(first, second)
  \/ \E f \in {<<401, Null>>, <<503, "absent">>, <<503, "timeout">>} : PageFails(f[1], f[2])
  \/ PageAnswers
  \/ \E c \in Callers : CallScreen(c)
  \/ PressAnswers \/ PressFails \/ Tick

Spec == Init /\ [][Next]_vars

-----------------------------------------------------------------------------
\* One outage is one wake ping, however often the page polls meanwhile; the tab
\* claims the chain answers only after the last direct read brought every index,
\* and nothing is called archived while a live answer is fresh or a press may
\* still be waking.
OutageIsTold ==
  /\ pings <= 1
  /\ Connection.state \in {"onchain-only", "archived"} =>
       /\ ~env.live
       /\ lastLive # Null => now - lastLive > StaleWindow
       /\ wakeStarted # Null /\ now - wakeStarted > WakeWindow
  /\ Connection.state = "onchain-only" => onchain = Indices

\* Nobody gets more than a window's worth through the paid screen, in any window
\* and not only in those that start on the minute; nor do all together.
ScreenHolds ==
  \A t \in 0 .. now :
    LET within == {i \in DOMAIN hits : hits[i].at \in t .. t + Window - 1}
    IN  /\ Cardinality(within) <= Everyone
        /\ \A c \in Callers : Cardinality({i \in within : hits[i].who = c}) <= PerKey

\* An answer that stands in for a press that does not answer is never older than
\* the code allows it to be.
KeptIsYoung == served # Null => served.at - served.of <= LastGoodMaxAge
=============================================================================
