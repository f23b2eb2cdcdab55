--------------------------- MODULE DispatchProofs ---------------------------
(***************************************************************************)
(* How old the evidence of a decision can be, that a command starts at     *)
(* most once, that a distro's own provider goes first in its project, and  *)
(* that a git command that may write stays on Windows, for every number of *)
(* invocations, every list of distros, every lifetime of the cache and     *)
(* every duration of a discovery.                                          *)
(*                                                                         *)
(* The argument about time is one inequality per program point.  A probe   *)
(* is no older than its invocation has looked; an entry that is written    *)
(* partial is therefore at most Slow older than its stamp, one that was    *)
(* completed at most TTL + 2 * Slow, because only a partial entry is ever  *)
(* completed; a hit adds at most TTL, what follows it at most Slow.  Where *)
(* the clock is set back, a stamp loses what `back` gains, so that their   *)
(* sum never shrinks.                                                      *)
(*                                                                         *)
(* The argument about distros is about what an inventory covers: as long   *)
(* as nothing fails, a complete one has an answer of every distro, and any *)
(* other one that is not empty has the first distro's (Covers).  The one   *)
(* about git is about every way to a start that an invocation still has:   *)
(* its route, its plans and what it started already (Pinned).              *)
(***************************************************************************)
EXTENDS Dispatch, FiniteSetTheorems, SequenceTheorems, TLAPS

Fields == {"pc", "mode", "route", "want", "found", "todo", "plans", "starts", "elapsed", "outcome"}
FoundFields == {"present", "windows", "wsl", "complete", "age", "seen"}

\* What discovery found, with the fields that carry time
Found(d) ==
    /\ DOMAIN d = FoundFields
    /\ d.age \in Int /\ d.seen \in Nat /\ d.complete \in BOOLEAN

\* The stamp of an entry that is or may become usable hides at most so much, and what the
\* clock was set back (b)
Entry(b, d) ==
    /\ Found(d)
    /\ d.age + b <= TTL + MaxBack =>
         d.seen <= d.age + b + (IF d.complete THEN TTL + 2 * Slow ELSE Slow)

Typed(r) == DOMAIN r = Fields /\ Found(r.found) /\ r.elapsed \in Nat

StartsOnce(r) == r.starts = <<>> \/ (r.pc = "done" /\ Len(r.starts) = 1)

\* A lookup begins with the clock at zero and ends before Slow
InTime(r) ==
    /\ r.pc \in {"idle", "fast", "optimistic", "plan"} => r.elapsed = 0
    /\ r.pc \in Looking => r.elapsed <= Slow

\* Only what is partial is completed, and it is complete when it is saved
Completes(r) ==
    /\ r.pc \in {"lookup", "windows"} => r.want # "rest"
    /\ r.pc = "save" /\ r.want = "rest" => r.found.complete

\* How old the oldest observation in `found` can be; what is saved was stamped just now
Fresh(b, r) ==
    LET since == r.elapsed + b + (IF r.want = "rest" THEN TTL + Slow ELSE 0) IN
    /\ r.pc \in {"list", "distro", "save"} => r.found.seen <= since
    /\ r.pc = "save" => r.found.seen <= since + r.found.age
    /\ r.pc = "decide" =>
         r.found.seen <= r.elapsed + b + (IF r.found.complete THEN 2 * TTL + 2 * Slow ELSE TTL + Slow)

Good(b, r) == Typed(r) /\ StartsOnce(r) /\ InTime(r) /\ Completes(r) /\ Fresh(b, r)

Inv ==
    /\ back \in Nat /\ back <= MaxBack
    /\ DOMAIN cache = Contexts /\ \A c \in Contexts : Entry(back, cache[c])
    /\ DOMAIN inv = Invocations /\ \A i \in Invocations : Good(back, inv[i])

----------------------------------------------------------------------------

LEMMA OlderFound ==
    ASSUME NEW d, Found(d)
    PROVE  /\ Found(Older(d)) /\ Older(d).complete = d.complete
           /\ Older(d) = d \/ (Older(d).seen = d.seen + 1 /\ Older(d).age = d.age + 1)
BY DEF Found, FoundFields, Older

LEMMA NewerFound ==
    ASSUME NEW d, Found(d), NEW by \in Nat
    PROVE  /\ Found(Newer(d, by)) /\ Newer(d, by).complete = d.complete
           /\ Newer(d, by).seen = d.seen
           /\ Newer(d, by) = d \/ Newer(d, by).age = d.age - by
BY DEF Found, FoundFields, Newer

LEMMA OlderEntry ==
    ASSUME NEW b \in Nat, NEW d, Entry(b, d)
    PROVE  Entry(b, Older(d))
BY OlderFound, TimeAssumption, BoundAssumption DEF Entry, Found

\* An entry that no lookup can use any more
LEMMA OutdatedEntry ==
    ASSUME NEW b \in Nat, b <= MaxBack, NEW d, Found(d)
    PROVE  Entry(b, Outdated(d, TTL + MaxBack - b))
<1> DEFINE latest == TTL + MaxBack - b
           e == Outdated(d, latest)
<1>1. latest \in Int /\ Oldest + MaxBack + 1 \in Nat
  BY TimeAssumption, BoundAssumption DEF Oldest
<1>2. /\ DOMAIN e = FoundFields /\ e.age = latest + 1 /\ e.seen = Oldest + MaxBack + 1
      /\ e.complete = d.complete
  BY DEF Found, FoundFields, Outdated
<1>3. e.age + b > TTL + MaxBack
  BY <1>2, TimeAssumption, BoundAssumption
<1> QED BY <1>1, <1>2, <1>3, TimeAssumption, BoundAssumption DEF Entry, Found

\* What the clock takes from the age is in b afterwards
LEMMA NewerEntry ==
    ASSUME NEW b \in Nat, NEW d, Entry(b, d), NEW by \in Nat
    PROVE  Entry(b + by, Newer(d, by))
<1> DEFINE e == Newer(d, by)
           more == IF d.complete THEN TTL + 2 * Slow ELSE Slow
<1>1. Found(d) /\ d.age \in Int /\ d.seen \in Nat
  BY DEF Entry, Found
<1>2. /\ Found(e) /\ e.complete = d.complete /\ e.seen = d.seen
      /\ e.age \in Int /\ (e.age = d.age \/ e.age = d.age - by)
  <2>1. /\ Found(e) /\ e.complete = d.complete /\ e.seen = d.seen
        /\ e = d \/ e.age = d.age - by
    BY <1>1, NewerFound
  <2> HIDE DEF e
  <2> QED BY <1>1, <2>1 DEF Found
<1>3. d.age + b <= TTL + MaxBack => d.seen <= d.age + b + more
  BY DEF Entry
<1>4. more \in Nat /\ TTL \in Nat /\ MaxBack \in Nat
  BY TimeAssumption, BoundAssumption
<1>5. Entry(b + by, e) <=>
        (e.age + (b + by) <= TTL + MaxBack => e.seen <= e.age + (b + by) + more)
  BY <1>2 DEF Entry
<1> HIDE DEF e, more
<1>6. e.age + (b + by) <= TTL + MaxBack => e.seen <= e.age + (b + by) + more
  BY <1>1, <1>2, <1>3, <1>4
<1> QED BY <1>5, <1>6 DEF e

LEMMA EmptyEntry == Found(NoDiscovery) /\ \A b \in Nat : Entry(b, NoDiscovery)
BY TimeAssumption, BoundAssumption DEF Entry, Found, FoundFields, NoDiscovery

LEMMA IdleGood == \A b \in Nat : Good(b, Idle)
BY EmptyEntry, TimeAssumption DEF Good, Typed, Fields, StartsOnce, InTime, Completes, Fresh, Idle,
   Entry, Looking

----------------------------------------------------------------------------
(* One invocation moves and the rest stays *)

LEMMA Back == ASSUME Inv PROVE back \in Nat /\ back <= MaxBack
BY DEF Inv

LEMMA SetKeeps ==
    ASSUME Inv, NEW i \in Invocations, NEW r, Set(i, r), Good(back, r), UNCHANGED back,
           DOMAIN cache' = Contexts, \A c \in Contexts : Entry(back, cache'[c])
    PROVE  Inv'
<1>1. DOMAIN inv' = Invocations
  BY DEF Inv, Set
<1>2. \A j \in Invocations : inv'[j] = IF j = i THEN r ELSE inv[j]
  BY DEF Inv, Set
<1>3. \A j \in Invocations : Good(back, inv'[j])
  BY <1>2 DEF Inv
<1>4. back' = back /\ back \in Nat /\ back <= MaxBack
  BY DEF Inv
<1> QED BY <1>1, <1>3, <1>4 DEF Inv

LEMMA SetAlone ==
    ASSUME Inv, NEW i \in Invocations, NEW r, Set(i, r), Good(back, r), UNCHANGED <<cache, back>>
    PROVE  Inv'
<1>1. DOMAIN cache' = Contexts /\ \A c \in Contexts : Entry(back, cache'[c])
  BY DEF Inv
<1> QED BY <1>1, SetKeeps

\* What finds an invocation that looks nothing up keeps its time
LEMMA Leaves ==
    ASSUME NEW r, Good(back, r), NEW s, DOMAIN s = Fields, StartsOnce(s),
           s.found = r.found, s.elapsed = r.elapsed,
           s.pc \in {"run", "done"}
    PROVE  Good(back, s)
BY DEF Good, Typed, InTime, Completes, Fresh, Looking

LEMMA FinishedGood ==
    ASSUME NEW r, Good(back, r), r.starts = <<>>, NEW outcome
    PROVE  /\ Good(back, Finished(r, outcome))
           /\ \A host, adapter, distro : Good(back, Finished(Started(r, host, adapter, distro), outcome))
<1>1. DOMAIN r = Fields
  BY DEF Good, Typed
<1>2. Good(back, Finished(r, outcome))
  <2> DEFINE s == Finished(r, outcome)
  <2>1. /\ DOMAIN s = Fields /\ s.pc = "done" /\ s.starts = <<>>
        /\ s.found = r.found /\ s.elapsed = r.elapsed
    BY <1>1 DEF Finished, Fields
  <2> QED BY <2>1, Leaves DEF StartsOnce
<1>3. ASSUME NEW host, NEW adapter, NEW distro
      PROVE  Good(back, Finished(Started(r, host, adapter, distro), outcome))
  <2> DEFINE b == Started(r, host, adapter, distro)
             s == Finished(b, outcome)
             start == [host |-> host, adapter |-> adapter, distro |-> distro]
  <2>1. /\ DOMAIN b = Fields /\ b.starts = Append(r.starts, start)
        /\ b.found = r.found /\ b.elapsed = r.elapsed
    BY <1>1 DEF Started, Fields
  <2>2. /\ DOMAIN s = Fields /\ s.pc = "done" /\ s.starts = b.starts
        /\ s.found = r.found /\ s.elapsed = r.elapsed
    BY <2>1 DEF Finished, Fields
  <2>3. <<>> \in Seq({start}) /\ start \in {start}
    OBVIOUS
  <2>4. Len(Append(<<>>, start)) = 1
    BY <2>3
  <2>5. StartsOnce(s)
    BY <2>1, <2>2, <2>4 DEF StartsOnce
  <2> QED BY <2>2, <2>5, Leaves
<1> QED BY <1>2, <1>3

----------------------------------------------------------------------------
(* Planning and discovery *)

LEMMA BeginKeeps == ASSUME Inv, NEW i \in Invocations, Begin(i) PROVE Inv'
<1>1. ASSUME NEW r, Set(i, r), DOMAIN r = Fields, r.found = NoDiscovery, r.starts = <<>>,
             r.elapsed = 0, r.pc \in {"fast", "optimistic", "plan", "windows"},
             r.pc = "windows" => r.want = "all"
      PROVE  Inv'
  <2>1. Typed(r)
    BY <1>1, EmptyEntry DEF Typed
  <2>2. Good(back, r)
    BY <1>1, <2>1, TimeAssumption, Back DEF Good, StartsOnce, InTime, Completes, Fresh, Looking, Oldest
  <2> QED BY <1>1, <2>2, SetAlone DEF Begin, SameWorld
<1> DEFINE route == IF FastPath(request) THEN "raw" ELSE ResolvedRoute(request)
           at == CASE FastPath(request) -> "fast"
                   [] ~FastPath(request) /\ OptimisticRaw(request) -> "optimistic"
                   [] OTHER -> "plan"
<1>2. at \in {"fast", "optimistic", "plan"}
  OBVIOUS
<1>3. CASE Set(i, [Idle EXCEPT !.route = route, !.pc = at])
  <2> HIDE DEF route, at
  <2> DEFINE r == [Idle EXCEPT !.route = route, !.pc = at]
  <2>1. /\ DOMAIN r = Fields /\ r.found = NoDiscovery /\ r.starts = <<>>
        /\ r.elapsed = 0 /\ r.pc = at
    BY DEF Idle, Fields
  <2> QED BY <1>1, <1>2, <1>3, <2>1
<1>4. ASSUME NEW mode, Set(i, [Idle EXCEPT !.mode = mode, !.pc = "windows", !.want = "all"])
      PROVE  Inv'
  <2> DEFINE r == [Idle EXCEPT !.mode = mode, !.pc = "windows", !.want = "all"]
  <2>1. /\ DOMAIN r = Fields /\ r.found = NoDiscovery /\ r.starts = <<>>
        /\ r.elapsed = 0 /\ r.pc = "windows" /\ r.want = "all"
    BY DEF Idle, Fields
  <2> QED BY <1>1, <1>4, <2>1
<1> QED BY <1>3, <1>4 DEF Begin, SameWorld

LEMMA PlanKeeps == ASSUME Inv, NEW i \in Invocations, Plan(i) PROVE Inv'
<1>1. Good(back, inv[i]) /\ inv[i].pc = "plan" /\ inv[i].elapsed = 0 /\ inv[i].starts = <<>>
  BY DEF Inv, Plan, Good, InTime, StartsOnce
<1>2. PICK route :
        Set(i, [inv[i] EXCEPT !.route = route,
                              !.pc = IF Dispatchable(request) THEN "lookup" ELSE "run",
                              !.want = IF Dispatchable(request) THEN "windows" ELSE "none"])
  BY DEF Plan, SameWorld
<1> DEFINE r == [inv[i] EXCEPT !.route = route,
                              !.pc = IF Dispatchable(request) THEN "lookup" ELSE "run",
                              !.want = IF Dispatchable(request) THEN "windows" ELSE "none"]
<1>3. /\ DOMAIN r = Fields /\ r.starts = <<>> /\ r.found = inv[i].found
      /\ r.elapsed = 0
      /\ r.pc \in {"lookup", "run"} /\ r.want \in {"windows", "none"}
  BY <1>1 DEF Good, Typed, Fields
<1>4. Good(back, r)
  BY <1>1, <1>3, TimeAssumption, Back DEF Good, Typed, StartsOnce, InTime, Completes, Fresh, Looking
<1> QED BY <1>2, <1>4, SetAlone DEF Plan, SameWorld

LEMMA LookupKeeps == ASSUME Inv, NEW i \in Invocations, Lookup(i) PROVE Inv'
<1> DEFINE entry == cache[Context(inv[i].want)]
<1>1. /\ Good(back, inv[i]) /\ inv[i].pc = "lookup" /\ inv[i].want # "rest" /\ inv[i].starts = <<>>
      /\ inv[i].elapsed <= Slow /\ DOMAIN inv[i] = Fields
  BY DEF Inv, Lookup, Good, InTime, StartsOnce, Completes, Looking, Typed
<1>2. Entry(back, entry)
  BY DEF Inv, Context, Contexts
<1>3. CASE Hit(inv[i].want, entry)
  <2> DEFINE r == [inv[i] EXCEPT !.pc = "decide", !.found = entry]
  <2>1. Set(i, r) /\ UNCHANGED <<cache, back>>
    BY <1>3 DEF Lookup, SameWorld
  <2>2. /\ DOMAIN r = Fields /\ r.starts = <<>> /\ r.found = entry /\ r.pc = "decide"
        /\ r.elapsed = inv[i].elapsed
    BY <1>1 DEF Fields
  <2>3. Found(entry) /\ entry.seen <= back + (IF entry.complete THEN 2 * TTL + 2 * Slow ELSE TTL + Slow)
    BY <1>2, <1>3, TimeAssumption, BoundAssumption, Back DEF Hit, Entry, Found
  <2>4. Fresh(back, r)
    BY <1>1, <2>2, <2>3, TimeAssumption, Back DEF Fresh, Good, Typed, Found
  <2>5. Good(back, r)
    BY <1>1, <2>2, <2>3, <2>4 DEF Good, Typed, StartsOnce, InTime, Completes, Looking
  <2> QED BY <2>1, <2>5, SetAlone
<1>4. CASE ~Hit(inv[i].want, entry)
  <2> DEFINE r == [inv[i] EXCEPT !.pc = "windows", !.found = NoDiscovery]
  <2>1. Set(i, r) /\ UNCHANGED <<cache, back>>
    BY <1>4 DEF Lookup, SameWorld
  <2>2. /\ DOMAIN r = Fields /\ r.starts = <<>> /\ r.found = NoDiscovery /\ r.pc = "windows"
        /\ r.elapsed = inv[i].elapsed /\ r.want = inv[i].want
    BY <1>1 DEF Fields
  <2>3. Good(back, r)
    BY <1>1, <2>2, EmptyEntry DEF Good, Typed, StartsOnce, InTime, Completes, Fresh, Looking, Entry
  <2> QED BY <2>1, <2>3, SetAlone
<1> QED BY <1>3, <1>4

LEMMA ProbeWindowsKeeps == ASSUME Inv, NEW i \in Invocations, ProbeWindows(i) PROVE Inv'
<1> DEFINE found == [NoDiscovery EXCEPT !.present = TRUE, !.windows = installed["windows"]]
           r == [inv[i] EXCEPT !.found = found,
                               !.pc = IF inv[i].want = "windows" THEN "save" ELSE "list"]
<1>1. /\ Good(back, inv[i]) /\ inv[i].want # "rest" /\ inv[i].starts = <<>>
      /\ inv[i].elapsed <= Slow /\ DOMAIN inv[i] = Fields
  BY DEF Inv, ProbeWindows, Good, InTime, StartsOnce, Completes, Looking, Typed
<1>2. Set(i, r) /\ UNCHANGED <<cache, back>>
  BY DEF ProbeWindows, SameWorld
<1>3. Found(found) /\ found.seen = 0 /\ found.age = 0
  BY DEF Found, FoundFields, NoDiscovery
<1>4. /\ DOMAIN r = Fields /\ r.starts = <<>> /\ r.found = found /\ r.pc \in {"save", "list"}
      /\ r.elapsed = inv[i].elapsed /\ r.want = inv[i].want
  BY <1>1 DEF Fields
<1> HIDE DEF found, r
<1>5. Typed(r) /\ Fresh(back, r)
  BY <1>1, <1>3, <1>4, TimeAssumption, Back DEF Good, Typed, Fresh
<1>6. Good(back, r)
  BY <1>1, <1>4, <1>5 DEF Good, StartsOnce, InTime, Completes, Looking
<1> QED BY <1>2, <1>6, SetAlone

LEMMA StampedFound ==
    ASSUME NEW d, Found(d), NEW c \in BOOLEAN
    PROVE  /\ Found(Stamped(d, c))
           /\ Stamped(d, c).seen = d.seen /\ Stamped(d, c).complete = c /\ Stamped(d, c).age = 0
BY DEF Found, FoundFields, Stamped

\* What an invocation in the middle of a discovery knows of itself
LEMMA Discovering ==
    ASSUME Inv, NEW i \in Invocations, inv[i].pc \in {"list", "distro", "save", "decide"}
    PROVE  /\ Good(back, inv[i]) /\ inv[i].starts = <<>> /\ DOMAIN inv[i] = Fields
           /\ inv[i].elapsed \in Nat /\ inv[i].elapsed <= Slow /\ Found(inv[i].found)
           /\ inv[i].pc # "decide" =>
                inv[i].found.seen <= inv[i].elapsed + back
                                     + (IF inv[i].want = "rest" THEN TTL + Slow ELSE 0)
           /\ inv[i].pc = "save" =>
                inv[i].found.seen <= inv[i].elapsed + back + inv[i].found.age
                                     + (IF inv[i].want = "rest" THEN TTL + Slow ELSE 0)
<1>1. Good(back, inv[i]) /\ back \in Nat /\ TTL \in Nat /\ Slow \in Nat
  BY Back, TimeAssumption DEF Inv
<1>2. /\ inv[i].starts = <<>> /\ DOMAIN inv[i] = Fields
      /\ inv[i].elapsed \in Nat /\ inv[i].elapsed <= Slow /\ Found(inv[i].found)
  BY <1>1 DEF Good, InTime, StartsOnce, Looking, Typed
<1> QED BY <1>1, <1>2 DEF Good, Fresh, Found

\* A discovery goes on: what it found is as old as before
LEMMA Continues ==
    ASSUME Inv, NEW i \in Invocations, inv[i].pc \in {"list", "distro"},
           NEW r, DOMAIN r = Fields, r.starts = <<>>, r.pc \in {"distro", "save"},
           r.elapsed = inv[i].elapsed, r.want = inv[i].want,
           Found(r.found), r.found.seen = inv[i].found.seen, r.pc = "save" => r.found.age = 0,
           r.pc = "save" /\ r.want = "rest" => r.found.complete
    PROVE  Good(back, r)
<1>1. Typed(r)
  BY Discovering DEF Good, Typed
<1>2. Fresh(back, r)
  BY Discovering, Back, TimeAssumption DEF Fresh
<1> QED BY <1>1, <1>2, Discovering DEF Good, StartsOnce, InTime, Completes, Looking

LEMMA ListKeeps == ASSUME Inv, NEW i \in Invocations, List(i) PROVE Inv'
<1> DEFINE done == [inv[i] EXCEPT !.pc = "save", !.found = Stamped(@, TRUE)]
           more(todo) == [inv[i] EXCEPT !.pc = "distro", !.todo = todo]
<1>1. inv[i].pc = "list" /\ DOMAIN inv[i] = Fields /\ inv[i].starts = <<>> /\ Found(inv[i].found)
  BY Discovering DEF List, SameWorld
<1>2. Good(back, done)
  <2>1. /\ DOMAIN done = Fields /\ done.starts = <<>> /\ done.pc = "save"
        /\ done.found = Stamped(inv[i].found, TRUE)
        /\ done.elapsed = inv[i].elapsed
        /\ done.want = inv[i].want
    BY <1>1 DEF Fields
  <2> HIDE DEF done
  <2> QED BY <1>1, <2>1, StampedFound, Continues
<1>3. ASSUME NEW todo PROVE Good(back, more(todo))
  <2> DEFINE r == more(todo)
  <2>1. /\ DOMAIN r = Fields /\ r.starts = <<>> /\ r.pc = "distro" /\ r.found = inv[i].found
        /\ r.elapsed = inv[i].elapsed /\ r.want = inv[i].want
    BY <1>1 DEF Fields
  <2>2. Good(back, r)
    <3> HIDE DEF r
    <3> QED BY <1>1, <2>1, Continues
  <2> QED BY <2>2
<1>4. UNCHANGED <<cache, back>> /\ \E todo : Set(i, IF todo = {} THEN done ELSE more(todo))
  BY DEF List, SameWorld
<1>5. PICK todo : Set(i, IF todo = {} THEN done ELSE more(todo))
  BY <1>4
<1> DEFINE r == IF todo = {} THEN done ELSE more(todo)
<1>6. Good(back, r)
  <2> HIDE DEF done, more
  <2> QED BY <1>2, <1>3
<1> QED BY <1>4, <1>5, <1>6, SetAlone

LEMMA ProbeDistroKeeps == ASSUME Inv, NEW i \in Invocations, ProbeDistro(i) PROVE Inv'
<1>1. inv[i].pc = "distro" /\ DOMAIN inv[i] = Fields /\ inv[i].starts = <<>> /\ Found(inv[i].found)
  BY Discovering DEF ProbeDistro, SameWorld
<1>2. ASSUME NEW probe, NEW rest, NEW stops \in BOOLEAN, stops /\ inv[i].want = "rest" => rest = {},
             NEW r, r = [inv[i] EXCEPT
                           !.todo = rest,
                           !.found = IF stops
                                     THEN Stamped([inv[i].found EXCEPT !.wsl = Append(@, probe)],
                                                  rest = {})
                                     ELSE [inv[i].found EXCEPT !.wsl = Append(@, probe)],
                           !.pc = IF stops THEN "save" ELSE "distro"]
      PROVE  Good(back, r)
  <2> DEFINE found == [inv[i].found EXCEPT !.wsl = Append(@, probe)]
             kept == IF stops THEN Stamped(found, rest = {}) ELSE found
             at == IF stops THEN "save" ELSE "distro"
  <2>1. Found(found) /\ found.seen = inv[i].found.seen
    BY <1>1 DEF Found, FoundFields
  <2>2. /\ Found(kept) /\ kept.seen = inv[i].found.seen
        /\ at = "save" => kept.age = 0 /\ kept.complete = (rest = {})
    <3> HIDE DEF found
    <3> QED BY <2>1, StampedFound
  <2> HIDE DEF kept, at
  <2>3. /\ DOMAIN r = Fields /\ r.starts = <<>> /\ r.pc = at
        /\ r.found = kept /\ r.elapsed = inv[i].elapsed
        /\ r.want = inv[i].want
    BY <1>1, <1>2 DEF Fields, kept, at
  <2>4. at \in {"distro", "save"} /\ (at = "save" <=> stops)
    BY DEF at
  <2>5. r.pc = "save" /\ r.want = "rest" => r.found.complete
    BY <1>2, <2>2, <2>3, <2>4
  <2> QED BY <1>1, <2>2, <2>3, <2>4, <2>5, Continues
<1>3. PICK fails \in BOOLEAN :
        LET next == CHOOSE n \in inv[i].todo : \A m \in inv[i].todo : n <= m
            d == Listing[next]
            rest == inv[i].todo \ {next}
            seen == IF fails THEN Nothing ELSE installed[d]
            probe == [distro |-> d, dedicated |-> ~fails /\ d \in Dedicated,
                      tool |-> seen.tool, rtk |-> seen.rtk]
            found == [inv[i].found EXCEPT !.wsl = Append(@, probe)]
            stops == rest = {} \/ (inv[i].want = "wsl" /\ Sufficient(probe))
        IN  Set(i, [inv[i] EXCEPT !.todo = rest,
                                  !.found = IF stops THEN Stamped(found, rest = {}) ELSE found,
                                  !.pc = IF stops THEN "save" ELSE "distro"])
  BY DEF ProbeDistro, SameWorld
<1> DEFINE next == CHOOSE n \in inv[i].todo : \A m \in inv[i].todo : n <= m
           d == Listing[next]
           rest == inv[i].todo \ {next}
           seen == IF fails THEN Nothing ELSE installed[d]
           probe == [distro |-> d, dedicated |-> ~fails /\ d \in Dedicated,
                     tool |-> seen.tool, rtk |-> seen.rtk]
           found == [inv[i].found EXCEPT !.wsl = Append(@, probe)]
           stops == rest = {} \/ (inv[i].want = "wsl" /\ Sufficient(probe))
           r == [inv[i] EXCEPT !.todo = rest,
                               !.found = IF stops THEN Stamped(found, rest = {}) ELSE found,
                               !.pc = IF stops THEN "save" ELSE "distro"]
<1>4. Set(i, r) /\ UNCHANGED <<cache, back>>
  BY <1>3 DEF ProbeDistro, SameWorld
<1>5. stops \in BOOLEAN /\ (stops /\ inv[i].want = "rest" => rest = {})
  BY DEF Sufficient
<1>6. Good(back, r)
  <2> HIDE DEF rest, probe, stops
  <2> QED BY <1>2, <1>5
<1> QED BY <1>4, <1>6, SetAlone

LEMMA SaveKeeps == ASSUME Inv, NEW i \in Invocations, Save(i) PROVE Inv'
<1> DEFINE found == inv[i].found
           r == [inv[i] EXCEPT !.pc = "decide"]
<1>1. inv[i].pc = "save" /\ Set(i, r)
  BY DEF Save, SameWorld
<1>2. /\ Good(back, inv[i]) /\ DOMAIN inv[i] = Fields /\ inv[i].starts = <<>> /\ Found(found)
      /\ inv[i].elapsed \in Nat /\ inv[i].elapsed <= Slow
      /\ found.seen <= inv[i].elapsed + back + (IF inv[i].want = "rest" THEN TTL + Slow ELSE 0)
      /\ found.seen <= inv[i].elapsed + back + found.age
                       + (IF inv[i].want = "rest" THEN TTL + Slow ELSE 0)
      /\ inv[i].want = "rest" => found.complete
  BY <1>1, Discovering DEF Good, Completes
<1>3. Entry(back, found)
  <2> HIDE DEF found
  <2>1. found.age \in Int /\ found.seen \in Nat /\ found.complete \in BOOLEAN
    BY <1>2 DEF Found
  <2>2. found.seen <= found.age + back + (IF found.complete THEN TTL + 2 * Slow ELSE Slow)
    <3>1. CASE inv[i].want = "rest"
      BY <1>2, <2>1, <3>1, Back, TimeAssumption
    <3>2. CASE inv[i].want # "rest"
      BY <1>2, <2>1, <3>2, Back, TimeAssumption
    <3> QED BY <3>1, <3>2
  <2> QED BY <1>2, <2>2 DEF Entry
<1>4. DOMAIN cache' = Contexts /\ \A c \in Contexts : Entry(back, cache'[c])
  BY <1>3 DEF Save, Inv, SameWorld
<1>5. /\ DOMAIN r = Fields /\ r.starts = <<>> /\ r.pc = "decide" /\ r.found = found
      /\ r.elapsed = inv[i].elapsed
  BY <1>2 DEF Fields
<1>6. Good(back, r)
  <2> HIDE DEF r
  <2>1. Typed(r) /\ Fresh(back, r)
    BY <1>2, <1>5, TimeAssumption, Back DEF Good, Typed, Fresh, Found
  <2> QED BY <1>2, <1>5, <2>1 DEF Good, StartsOnce, InTime, Completes, Looking
<1> QED BY <1>1, <1>4, <1>6, SetKeeps DEF Save, SameWorld

----------------------------------------------------------------------------
(* The decision and what follows it *)

\* The oldest observation under a decision, whichever way it was found
LEMMA DecisionAge ==
    ASSUME Inv, NEW i \in Invocations, inv[i].pc = "decide"
    PROVE  /\ inv[i].found.seen \in Nat /\ inv[i].found.seen <= Oldest + back
           /\ ~inv[i].found.complete => inv[i].found.seen <= inv[i].elapsed + back + TTL + Slow
<1>1. /\ Found(inv[i].found) /\ Fresh(back, inv[i])
      /\ inv[i].elapsed \in Nat /\ inv[i].elapsed <= Slow
  BY Discovering DEF Good
<1> QED BY <1>1, Back, TimeAssumption DEF Fresh, Found, Oldest

\* What was found is gone with the decision
LEMMA Decides ==
    ASSUME Inv, NEW i \in Invocations, inv[i].pc = "decide"
    PROVE  /\ DOMAIN Rests(inv[i]) = Fields /\ Rests(inv[i]).starts = <<>>
           /\ Rests(inv[i]).found = NoDiscovery /\ Rests(inv[i]).elapsed = 0
           /\ \A r : /\ DOMAIN r = Fields /\ r.pc \in {"run", "done"} /\ r.starts = <<>>
                     /\ r.found = NoDiscovery /\ r.elapsed = 0
                     => Good(back, r)
<1>1. DOMAIN inv[i] = Fields /\ inv[i].starts = <<>>
  BY Discovering
<1>2. /\ DOMAIN Rests(inv[i]) = Fields /\ Rests(inv[i]).starts = <<>>
      /\ Rests(inv[i]).found = NoDiscovery /\ Rests(inv[i]).elapsed = 0
  BY <1>1 DEF Rests, Fields
<1>3. ASSUME NEW r, DOMAIN r = Fields, r.pc \in {"run", "done"}, r.starts = <<>>,
             r.found = NoDiscovery, r.elapsed = 0
      PROVE  Good(back, r)
  BY <1>3, EmptyEntry DEF Good, Typed, StartsOnce, InTime, Completes, Fresh, Looking
<1> QED BY <1>2, <1>3

LEMMA DecidedGood ==
    ASSUME Inv, NEW i \in Invocations, inv[i].pc = "decide", NEW plans
    PROVE  Good(back, Decided(inv[i], plans))
<1> DEFINE b == Rests(inv[i])
           r == Decided(inv[i], plans)
<1>1. DOMAIN b = Fields /\ b.starts = <<>> /\ b.found = NoDiscovery /\ b.elapsed = 0
  BY Decides
<1>2. r = [b EXCEPT !.pc = IF plans = <<>> THEN "done" ELSE "run", !.plans = plans,
                    !.outcome = IF plans = <<>> THEN "missing" ELSE "none"]
  BY DEF Decided
<1> HIDE DEF b, r
<1>3. /\ DOMAIN r = Fields /\ r.pc \in {"run", "done"} /\ r.starts = <<>>
      /\ r.found = NoDiscovery /\ r.elapsed = 0
  BY <1>1, <1>2 DEF Fields
<1>4. Good(back, r)
  BY <1>3, Decides
<1> QED BY <1>4 DEF r

LEMMA RestsGood ==
    ASSUME Inv, NEW i \in Invocations, inv[i].pc = "decide"
    PROVE  /\ Good(back, [Rests(inv[i]) EXCEPT !.pc = "run"])
           /\ Good(back, [Rests(inv[i]) EXCEPT !.pc = "done", !.outcome = "reported"])
<1> DEFINE b == Rests(inv[i])
           r == [b EXCEPT !.pc = "run"]
           s == [b EXCEPT !.pc = "done", !.outcome = "reported"]
<1>1. DOMAIN b = Fields /\ b.starts = <<>> /\ b.found = NoDiscovery /\ b.elapsed = 0
  BY Decides
<1> HIDE DEF b
<1>2. /\ DOMAIN r = Fields /\ r.pc = "run" /\ r.starts = <<>>
      /\ r.found = NoDiscovery /\ r.elapsed = 0
  BY <1>1 DEF Fields
<1>3. /\ DOMAIN s = Fields /\ s.pc = "done" /\ s.starts = <<>>
      /\ s.found = NoDiscovery /\ s.elapsed = 0
  BY <1>1 DEF Fields
<1> HIDE DEF r, s
<1>4. Good(back, r) /\ Good(back, s)
  BY <1>2, <1>3, Decides
<1> QED BY <1>4 DEF b, r, s

LEMMA ResolvedGood ==
    ASSUME Inv, NEW i \in Invocations, inv[i].pc = "decide"
    PROVE  Good(back, Resolved(inv[i]))
BY RestsGood, DecidedGood DEF Resolved

LEMMA DecideKeeps == ASSUME Inv, NEW i \in Invocations, Decide(i) PROVE Inv'
<1> DEFINE r == inv[i]
           scanned == [Rests(r) EXCEPT !.pc = "done", !.outcome = "reported"]
           again == [r EXCEPT !.pc = "lookup", !.want = "wsl"]
           more == [r EXCEPT !.pc = "list", !.want = "rest"]
<1>1. /\ r.pc = "decide" /\ DOMAIN r = Fields /\ r.starts = <<>> /\ Good(back, r)
      /\ r.elapsed \in Nat /\ r.elapsed <= Slow /\ Found(r.found)
  BY Discovering DEF Decide, SameWorld
<1>2. \/ Set(i, Decided(r, ExecPlans(request, r.found)))
      \/ Set(i, scanned)
      \/ Set(i, Resolved(r))
      \/ Set(i, again)
      \/ Set(i, more) /\ ~r.found.complete
  BY <1>1 DEF Decide, SameWorld, Found
<1>3. Good(back, scanned)
  BY <1>1, RestsGood
<1>4. Good(back, again)
  <2>1. /\ DOMAIN again = Fields /\ again.pc = "lookup" /\ again.starts = <<>>
        /\ again.found = r.found /\ again.elapsed = r.elapsed
        /\ again.want = "wsl"
    BY <1>1 DEF Fields
  <2> HIDE DEF again
  <2> QED BY <1>1, <2>1 DEF Good, Typed, StartsOnce, InTime, Completes, Fresh, Looking
<1>5. ASSUME ~r.found.complete PROVE Good(back, more)
  <2>1. /\ DOMAIN more = Fields /\ more.pc = "list" /\ more.starts = <<>>
        /\ more.found = r.found /\ more.elapsed = r.elapsed
        /\ more.want = "rest"
    BY <1>1 DEF Fields
  <2>2. more.found.seen <= more.elapsed + back + (TTL + Slow)
    BY <1>1, <1>5, <2>1, DecisionAge, Back, TimeAssumption DEF Found
  <2> HIDE DEF more
  <2> QED BY <1>1, <2>1, <2>2, Back DEF Good, Typed, StartsOnce, InTime, Completes, Fresh, Looking
<1>6. UNCHANGED <<cache, back>>
  BY DEF Decide, SameWorld
<1>7. Good(back, Resolved(r)) /\ Good(back, Decided(r, ExecPlans(request, r.found)))
  BY <1>1, ResolvedGood, DecidedGood
<1> HIDE DEF scanned, again, more
<1> QED BY <1>2, <1>3, <1>4, <1>5, <1>6, <1>7, SetAlone

\* Every step of an execution is one of these
LEMMA Executes ==
    ASSUME Inv, NEW i \in Invocations, inv[i].pc \in {"fast", "optimistic", "run"},
           NEW r, Set(i, r), UNCHANGED <<cache, back>>,
           \/ \E outcome : r = Finished(inv[i], outcome)
           \/ \E host, adapter, distro, outcome :
                  r = Finished(Started(inv[i], host, adapter, distro), outcome)
    PROVE  Inv'
<1>1. Good(back, inv[i]) /\ inv[i].starts = <<>>
  BY DEF Inv, Good, StartsOnce
<1>2. Good(back, r)
  BY <1>1, FinishedGood
<1> QED BY <1>2, SetAlone

LEMMA RunsOrBreaks ==
    ASSUME Inv, NEW i \in Invocations, inv[i].pc \in {"fast", "optimistic", "run"},
           UNCHANGED <<cache, back>>, NEW host, NEW adapter, NEW distro,
           Runs(i, host, adapter, distro) \/ Breaks(i, host, adapter, distro)
    PROVE  Inv'
BY Executes DEF Runs, Breaks

LEMMA TryRawKeeps == ASSUME Inv, NEW i \in Invocations, TryRaw(i) PROVE Inv'
<1>1. inv[i].pc \in {"fast", "optimistic"} /\ UNCHANGED <<cache, back>>
  BY DEF TryRaw, SameWorld
<1> DEFINE r == [inv[i] EXCEPT !.pc = "plan"]
<1>2. Good(back, r)
  <2>1. Good(back, inv[i]) /\ inv[i].elapsed = 0 /\ inv[i].starts = <<>> /\ DOMAIN inv[i] = Fields
    BY <1>1 DEF Inv, Good, Typed, InTime, StartsOnce
  <2>2. /\ DOMAIN r = Fields /\ r.pc = "plan" /\ r.starts = <<>> /\ r.found = inv[i].found
        /\ r.elapsed = 0
    BY <2>1 DEF Fields
  <2> HIDE DEF r
  <2> QED BY <2>1, <2>2 DEF Good, Typed, StartsOnce, InTime, Completes, Fresh, Looking
<1>3. \/ Runs(i, "windows", "raw", "none") \/ Breaks(i, "windows", "raw", "none")
      \/ Set(i, Finished(inv[i], "notfound")) \/ Set(i, r)
  BY DEF TryRaw, SameWorld
<1> HIDE DEF r
<1> QED BY <1>1, <1>2, <1>3, RunsOrBreaks, Executes, SetAlone

LEMMA RunWslRouteKeeps ==
    ASSUME Inv, NEW i \in Invocations, inv[i].pc = "run", UNCHANGED <<cache, back>>,
           NEW route, RunWslRoute(i, route)
    PROVE  Inv'
<1>1. \/ \E d : Runs(i, route, "rtk", d) \/ Breaks(i, route, "rtk", d)
      \/ Set(i, Finished(inv[i], "refused"))
  BY DEF RunWslRoute
<1> QED BY <1>1, RunsOrBreaks, Executes

LEMMA RunStaticKeeps == ASSUME Inv, NEW i \in Invocations, RunStatic(i) PROVE Inv'
<1>1. inv[i].pc = "run" /\ UNCHANGED <<cache, back>>
  BY DEF RunStatic, SameWorld
<1>2. \/ Set(i, Finished(inv[i], "unmapped"))
      \/ \E adapter : Runs(i, "windows", adapter, "none") \/ Breaks(i, "windows", adapter, "none")
      \/ \E route : RunWslRoute(i, route)
      \/ Set(i, Finished(inv[i], "notfound"))
  BY DEF RunStatic, SameWorld
<1> QED BY <1>1, <1>2, RunsOrBreaks, RunWslRouteKeeps, Executes

LEMMA RunPlanKeeps == ASSUME Inv, NEW i \in Invocations, RunPlan(i) PROVE Inv'
<1>1. inv[i].pc = "run" /\ UNCHANGED <<cache, back>>
  BY DEF RunPlan, SameWorld
<1> DEFINE r == [inv[i] EXCEPT !.plans = Tail(@)]
<1>2. Good(back, r)
  <2>1. Good(back, inv[i]) /\ inv[i].starts = <<>> /\ DOMAIN inv[i] = Fields
    BY <1>1 DEF Inv, Good, Typed, StartsOnce
  <2>2. /\ DOMAIN r = Fields /\ r.pc = "run" /\ r.starts = <<>> /\ r.found = inv[i].found
        /\ r.elapsed = inv[i].elapsed
    BY <1>1, <2>1 DEF Fields
  <2> HIDE DEF r
  <2> QED BY <2>1, <2>2, Leaves DEF StartsOnce
<1>3. AfterNotFound(inv[i]) \in {r, Finished(inv[i], "notfound")}
  BY DEF AfterNotFound
<1>4. \/ Set(i, AfterNotFound(inv[i]))
      \/ Set(i, Finished(inv[i], "identity"))
      \/ \E host, adapter, distro :
            Runs(i, host, adapter, distro) \/ Breaks(i, host, adapter, distro)
  BY DEF RunPlan, SameWorld, RunWindowsPlan, RunWslPlan
<1> HIDE DEF r
<1> QED BY <1>1, <1>2, <1>3, <1>4, RunsOrBreaks, Executes, SetAlone

LEMMA TickKeeps == ASSUME Inv, Tick PROVE Inv'
<1>1. ASSUME NEW c \in Contexts PROVE Entry(back, cache'[c])
  <2>1. cache'[c] \in {Outdated(cache[c], TTL + MaxBack - back), Older(cache[c])}
    BY DEF Tick
  <2>2. Entry(back, cache[c]) /\ Found(cache[c])
    BY DEF Inv, Entry
  <2> QED BY <2>1, <2>2, Back, OlderEntry, OutdatedEntry
<1>2. DOMAIN cache' = Contexts /\ DOMAIN inv' = Invocations
  BY DEF Tick
<1>3. ASSUME NEW i \in Invocations PROVE Good(back, inv'[i])
  <2>1. Good(back, inv[i])
    BY DEF Inv
  <2>2. CASE inv[i].pc \notin Looking
    BY <2>1, <2>2 DEF Tick
  <2>3. CASE inv[i].pc \in Looking
    <3> DEFINE r == [inv[i] EXCEPT !.elapsed = @ + 1, !.found = Older(@)]
               d == inv[i].found
    <3>1. inv'[i] = r /\ inv[i].elapsed < Slow
      BY <2>3 DEF Tick
    <3>2. DOMAIN inv[i] = Fields /\ inv[i].elapsed \in Nat /\ Found(d)
      BY <2>1 DEF Good, Typed
    <3>3. /\ DOMAIN r = Fields /\ r.pc = inv[i].pc /\ r.want = inv[i].want
          /\ r.starts = inv[i].starts
          /\ r.elapsed = inv[i].elapsed + 1 /\ r.found = Older(d)
      BY <3>2 DEF Fields
    <3>4. /\ Found(r.found) /\ r.found.complete = d.complete
          /\ \/ r.found.seen = d.seen /\ r.found.age = d.age
             \/ r.found.seen = d.seen + 1 /\ r.found.age = d.age + 1
      BY <3>2, <3>3, OlderFound
    <3>5. d = inv[i].found
      OBVIOUS
    <3> HIDE DEF r, d
    <3>6. Typed(r) /\ StartsOnce(r) /\ InTime(r) /\ Completes(r)
      BY <2>1, <2>3, <3>1, <3>2, <3>3, <3>4, <3>5, TimeAssumption
      DEF Good, Typed, StartsOnce, InTime, Completes, Looking
    <3>7. Fresh(back, r)
      BY <2>1, <3>2, <3>3, <3>4, <3>5, Back, TimeAssumption DEF Good, Fresh, Found
    <3> QED BY <3>1, <3>6, <3>7 DEF Good
  <2> QED BY <2>2, <2>3
<1>4. UNCHANGED back
  BY DEF Tick
<1> QED BY <1>1, <1>2, <1>3, <1>4, Back DEF Inv

\* What is found grows newer by as much as `back` grows: the sums of the inequalities stay
LEMMA SetBackKeeps ==
    ASSUME Inv, NEW by \in 1..(MaxBack - back), SetBack(by)
    PROVE  Inv'
<1>1. by \in Nat /\ back' = back + by /\ back' \in Nat /\ back' <= MaxBack
  BY Back, BoundAssumption DEF SetBack
<1>2. ASSUME NEW c \in Contexts PROVE Entry(back', cache'[c])
  <2>1. cache'[c] = Newer(cache[c], by) /\ Entry(back, cache[c])
    BY DEF SetBack, Inv
  <2> QED BY <1>1, <2>1, Back, NewerEntry
<1>3. DOMAIN cache' = Contexts /\ DOMAIN inv' = Invocations
  BY DEF SetBack
<1>4. ASSUME NEW i \in Invocations PROVE Good(back', inv'[i])
  <2>1. Good(back, inv[i])
    BY DEF Inv
  <2>2. CASE inv[i].pc \notin Looking
    <3>1. inv'[i] = inv[i]
      BY <2>2 DEF SetBack
    <3>2. Fresh(back', inv[i])
      BY <2>2 DEF Fresh, Looking
    <3> QED BY <2>1, <3>1, <3>2 DEF Good
  <2>3. CASE inv[i].pc \in Looking
    <3> DEFINE r == [inv[i] EXCEPT !.found = Newer(@, by)]
               d == inv[i].found
    <3>1. inv'[i] = r
      BY <2>3 DEF SetBack
    <3>2. DOMAIN inv[i] = Fields /\ inv[i].elapsed \in Nat /\ Found(d)
      BY <2>1 DEF Good, Typed
    <3>3. /\ DOMAIN r = Fields /\ r.pc = inv[i].pc /\ r.want = inv[i].want
          /\ r.starts = inv[i].starts /\ r.elapsed = inv[i].elapsed /\ r.found = Newer(d, by)
      BY <3>2 DEF Fields
    <3>4. /\ Found(r.found) /\ r.found.complete = d.complete /\ r.found.seen = d.seen
          /\ r.found.age = d.age \/ r.found.age = d.age - by
      BY <1>1, <3>2, <3>3, NewerFound
    <3>5. d = inv[i].found
      OBVIOUS
    <3> HIDE DEF r, d
    <3>6. Typed(r) /\ StartsOnce(r) /\ InTime(r) /\ Completes(r)
      BY <2>1, <3>2, <3>3, <3>4, <3>5
      DEF Good, Typed, StartsOnce, InTime, Completes
    <3>7. Fresh(back', r)
      BY <1>1, <2>1, <3>2, <3>3, <3>4, <3>5, Back, TimeAssumption DEF Good, Fresh, Found
    <3> QED BY <3>1, <3>6, <3>7 DEF Good
  <2> QED BY <2>2, <2>3
<1> QED BY <1>1, <1>2, <1>3, <1>4 DEF Inv

----------------------------------------------------------------------------

LEMMA InvInit == Init => Inv
BY EmptyEntry, IdleGood, BoundAssumption DEF Init, Inv

LEMMA InvStep == Inv /\ [Next]_vars => Inv'
<1> SUFFICES ASSUME Inv, [Next]_vars PROVE Inv'
  OBVIOUS
<1>1. CASE Change
  <2>1. UNCHANGED <<cache, inv, back>>
    BY <1>1 DEF Change
  <2> QED BY <2>1 DEF Inv
<1>2. CASE LoseCache
  <2>1. DOMAIN cache' = Contexts /\ \A c \in Contexts : Entry(back, cache'[c])
    BY <1>2, EmptyEntry, Back DEF LoseCache, Inv
  <2>2. UNCHANGED <<inv, back>>
    BY <1>2 DEF LoseCache, SameWorld
  <2> QED BY <2>1, <2>2 DEF Inv
<1>3. ASSUME NEW i \in Invocations, Step(i) PROVE Inv'
  <2>1. CASE End(i)
    BY <2>1, IdleGood, Back, SetAlone DEF End, SameWorld
  <2> QED
    BY <1>3, <2>1, BeginKeeps, PlanKeeps, LookupKeeps, ProbeWindowsKeeps, ListKeeps,
       ProbeDistroKeeps, SaveKeeps, DecideKeeps, TryRawKeeps, RunStaticKeeps, RunPlanKeeps
    DEF Step
<1>4. CASE UNCHANGED vars
  BY <1>4 DEF vars, Inv
<1> QED BY <1>1, <1>2, <1>3, <1>4, TickKeeps, SetBackKeeps DEF Next

LEMMA Invariant == Spec => []Inv
BY InvInit, InvStep, PTL DEF Spec

(***************************************************************************)
(* No decision rests on an observation older than 2 * TTL + 3 * Slow and   *)
(* what the clock was set back: a partial entry is stamped anew when it is *)
(* completed, but only once, and a stamp in the future is fresh until the  *)
(* clock has caught up (cache.rs:84-95, probe.rs:262-292).                 *)
(***************************************************************************)
THEOREM EvidenceStaysBounded == Spec => []EvidenceBounded
<1>1. Inv => EvidenceBounded
  BY DecisionAge DEF EvidenceBounded
<1> QED BY <1>1, Invariant, PTL

(***************************************************************************)
(* However many plans there are and whichever of them fail, a command is   *)
(* started at most once (cli/execution.rs:117-155).                        *)
(***************************************************************************)
THEOREM CommandStartsOnce == Spec => []AtMostOneStart
<1>1. ASSUME Inv, NEW i \in Invocations PROVE Len(inv[i].starts) <= 1
  <2>1. inv[i].starts = <<>> \/ Len(inv[i].starts) = 1
    BY <1>1 DEF Inv, Good, StartsOnce
  <2>2. Len(<<>>) = 0
    OBVIOUS
  <2>3. Len(inv[i].starts) \in {0, 1}
    BY <2>1, <2>2, Zenon
  <2>4. \A n \in {0, 1} : n <= 1
    OBVIOUS
  <2> QED BY <2>3, <2>4, Zenon
<1>2. Inv => AtMostOneStart
  BY <1>1 DEF AtMostOneStart
<1> QED BY <1>2, Invariant, PTL

----------------------------------------------------------------------------
(* From what was found to the plans *)

\* A sequence, of whatever elements
Sequence(s) == s \in Seq({s[n] : n \in DOMAIN s})

LEMMA OwnElements ==
    ASSUME NEW S, NEW s \in Seq(S) PROVE Sequence(s) /\ DOMAIN s = 1..Len(s) /\ Len(s) \in Nat
<1> DEFINE E == {s[n] : n \in DOMAIN s}
<1>1. DOMAIN s = 1..Len(s) /\ Len(s) \in Nat /\ s \in [1..Len(s) -> S]
  BY LenProperties
<1>2. s \in [1..Len(s) -> E]
  BY <1>1
<1> HIDE DEF E
<1>3. s \in Seq(E)
  BY <1>1, <1>2
<1> QED BY <1>1, <1>3 DEF Sequence, E

\* The offers can be put in order, and Ordered does so
LEMMA OrderedIsOrder ==
    ASSUME NEW S, IsFiniteSet(S), \A o \in S : o.distance \in Nat /\ o.place \in Nat,
           \A o, q \in S : o.place = q.place => o = q
    PROVE  /\ Cardinality(S) \in Nat
           /\ Ordered(S) \in [1..Cardinality(S) -> S]
           /\ \A p, q \in 1..Cardinality(S) : p < q => Before(Ordered(S)[p], Ordered(S)[q])
<1> DEFINE k == Cardinality(S)
           Upto(o) == {x \in S : ~Before(o, x)}
           rank == [o \in S |-> Cardinality(Upto(o))]
<1>1. k \in Nat
  BY FS_CardinalityType
<1>2. ASSUME NEW o \in S PROVE IsFiniteSet(Upto(o)) /\ rank[o] \in 1..k
  <2>1. o \in Upto(o)
    BY DEF Before
  <2>2. Upto(o) \in SUBSET S
    OBVIOUS
  <2> HIDE DEF Upto
  <2>3. IsFiniteSet(Upto(o)) /\ Cardinality(Upto(o)) <= k
    BY <2>2, FS_Subset
  <2>4. Cardinality(Upto(o)) \in Nat /\ Cardinality(Upto(o)) # 0
    BY <2>1, <2>3, FS_CardinalityType, FS_EmptySet
  <2> QED BY <1>1, <2>3, <2>4
<1>3. ASSUME NEW o \in S, NEW q \in S, Before(o, q) PROVE rank[o] < rank[q]
  <2>1. Upto(o) \in SUBSET Upto(q)
    BY <1>3 DEF Before
  <2>2. q \in Upto(q) /\ q \notin Upto(o)
    BY <1>3 DEF Before
  <2>3. IsFiniteSet(Upto(q)) /\ rank[o] \in Nat /\ rank[q] \in Nat
    <3>1. IsFiniteSet(Upto(q)) /\ rank[o] \in 1..k /\ rank[q] \in 1..k
      BY <1>2
    <3> QED BY <1>1, <3>1
  <2> HIDE DEF Upto
  <2>4. Cardinality(Upto(o)) <= Cardinality(Upto(q)) /\ Cardinality(Upto(o)) # Cardinality(Upto(q))
    BY <2>1, <2>2, <2>3, FS_Subset
  <2> QED BY <2>3, <2>4
<1>4. \A o, q \in S : Before(o, q) \/ o = q \/ Before(q, o)
  BY DEF Before
<1> DEFINE s == [p \in 1..k |-> CHOOSE o \in S : rank[o] = p]
<1> HIDE DEF rank
<1>5. rank \in [S -> 1..k]
  BY <1>2 DEF rank
<1>6. \A p \in 1..k : \E o \in S : rank[o] = p
  <2>1. rank \in Injection(S, 1..k)
    BY <1>1, <1>3, <1>4, <1>5 DEF Injection, IsInjective
  <2>2. IsFiniteSet(1..k) /\ Cardinality(1..k) = k
    BY <1>1, FS_Interval
  <2>3. rank \in Surjection(S, 1..k)
    BY <2>1, <2>2, FS_Injection
  <2> QED BY <2>3 DEF Surjection
<1>7. \A p \in 1..k : s[p] \in S /\ rank[s[p]] = p
  BY <1>6
<1> HIDE DEF s
<1>8. \A p, q \in 1..k : p < q => Before(s[p], s[q])
  BY <1>1, <1>3, <1>4, <1>7
<1>9. s \in [1..k -> S]
  BY <1>7 DEF s
<1> QED BY <1>1, <1>8, <1>9 DEF Ordered

\* A plan keeps the host and the distro of its candidate
LEMMA PlanPlace ==
    ASSUME NEW r, NEW c, NEW preference
    PROVE  /\ PlanFor(r, c, preference).host = c.host
           /\ PlanFor(r, c, preference).distro = c.distro
           /\ PlanFor(r, c, preference).adapter = Adapter(r, c, preference)
BY DEF PlanFor

LEMMA CandidatesAre ==
    ASSUME NEW r, NEW found, Sequence(found.wsl)
    PROVE  /\ IsFiniteSet(Candidates(r, found))
           /\ \A c \in Candidates(r, found) : c.place \in Nat
           /\ \A c, d \in Candidates(r, found) : c.place = d.place => c = d
<1> DEFINE N == DOMAIN found.wsl
           f == [n \in N |-> WslCandidate(r, n, found.wsl[n])]
           W == {WslCandidate(r, n, found.wsl[n]) : n \in N}
<1>1. N = 1..Len(found.wsl) /\ Len(found.wsl) \in Nat
  BY OwnElements DEF Sequence
<1>2. IsFiniteSet(N)
  BY <1>1, FS_Interval
<1>3. f \in Surjection(N, W)
  BY DEF Surjection
<1>4. IsFiniteSet(W)
  <2> HIDE DEF f, W
  <2> QED BY <1>2, <1>3, FS_Surjection
<1>5. Candidates(r, found) = W \cup {WindowsCandidate(r, found.windows)}
  BY DEF Candidates
<1>6. \A n : WslCandidate(r, n, found.wsl[n]).place = n
  BY DEF WslCandidate
<1>7. WindowsCandidate(r, found.windows).place = 0
  BY DEF WindowsCandidate
<1>8. \A c \in W : c.place \in N /\ c = WslCandidate(r, c.place, found.wsl[c.place])
  BY <1>6
<1> HIDE DEF W, f
<1>9. IsFiniteSet(Candidates(r, found))
  BY <1>4, <1>5, FS_AddElement
<1>10. 0 \notin N /\ N \subseteq Nat
  BY <1>1
<1> HIDE DEF N
<1>11. \A c \in Candidates(r, found) : c.place \in Nat
  <2>1. \A c \in W : c.place \in Nat
    BY <1>8, <1>10
  <2>2. WindowsCandidate(r, found.windows).place \in Nat
    BY <1>7
  <2> QED BY <1>5, <2>1, <2>2
<1>12. \A c, d \in Candidates(r, found) : c.place = d.place => c = d
  <2>1. \A c, d \in W : c.place = d.place => c = d
    BY <1>8
  <2>2. \A c \in W : c.place # WindowsCandidate(r, found.windows).place
    BY <1>7, <1>8, <1>10
  <2> QED BY <1>5, <2>1, <2>2
<1> QED BY <1>9, <1>11, <1>12

LEMMA DecidedAre ==
    ASSUME NEW r, NEW found, Sequence(found.wsl)
    PROVE  /\ Sequence(DecidedPlans(r, found))
           /\ \A n \in DOMAIN DecidedPlans(r, found) :
                 \E c \in Candidates(r, found) :
                    /\ Eligible(r, c) /\ Adapter(r, c, r.adapter) # "none"
                    /\ DecidedPlans(r, found)[n] = PlanFor(r, c, r.adapter)
           /\ \A n \in DOMAIN DecidedPlans(r, found) :
                 r.project = "wsl" /\ DecidedPlans(r, found)[n].distro = r.home
                 => DecidedPlans(r, found)[1].distro = r.home
<1> DEFINE Possible(c) == Eligible(r, c) /\ Adapter(r, c, r.adapter) # "none"
           C == {c \in Candidates(r, found) : Possible(c)}
           offer(c) == [plan |-> PlanFor(r, c, r.adapter), distance |-> Distance(r, c),
                        place |-> c.place]
           S == Offers(r, found)
           k == Cardinality(S)
           s == Ordered(S)
           plans == DecidedPlans(r, found)
<1>1. S = {offer(c) : c \in C}
  BY DEF Offers
<1>2. IsFiniteSet(C)
  <2>1. IsFiniteSet(Candidates(r, found)) /\ C \in SUBSET Candidates(r, found)
    BY CandidatesAre
  <2> HIDE DEF C
  <2> QED BY <2>1, FS_Subset
<1>3. IsFiniteSet(S)
  <2> DEFINE f == [c \in C |-> offer(c)]
  <2>1. f \in Surjection(C, S)
    BY <1>1 DEF Surjection
  <2> HIDE DEF f, C, S
  <2> QED BY <1>2, <2>1, FS_Surjection
<1>4. ASSUME NEW o \in S
      PROVE  \E c \in C : /\ o.plan = PlanFor(r, c, r.adapter) /\ o.distance = Distance(r, c)
                          /\ o.place = c.place /\ o = offer(c)
  BY <1>1
<1>5. \A c : Distance(r, c) \in Nat
  BY DEF Distance
<1>6. \A o \in S : o.distance \in Nat /\ o.place \in Nat
  BY <1>4, <1>5, CandidatesAre
<1>7. \A o, q \in S : o.place = q.place => o = q
  <2> SUFFICES ASSUME NEW o \in S, NEW q \in S, o.place = q.place PROVE o = q
    OBVIOUS
  <2>1. PICK c \in C : o.place = c.place /\ o = offer(c)
    BY <1>4
  <2>2. PICK d \in C : q.place = d.place /\ q = offer(d)
    BY <1>4
  <2>3. c = d
    BY <2>1, <2>2, CandidatesAre
  <2> QED BY <2>1, <2>2, <2>3
<1> HIDE DEF S
<1>8. /\ k \in Nat /\ s \in [1..k -> S]
      /\ \A p, q \in 1..k : p < q => Before(s[p], s[q])
  BY <1>3, <1>6, <1>7, OrderedIsOrder
<1> DEFINE P == {o.plan : o \in S}
<1>9. /\ plans = [p \in 1..k |-> s[p].plan] /\ DOMAIN plans = 1..k
      /\ \A p \in 1..k : plans[p] = s[p].plan
  BY <1>8 DEF DecidedPlans, S
<1> HIDE DEF s, plans, k
<1>10. Sequence(plans)
  <2>1. plans \in [1..k -> P]
    BY <1>8, <1>9
  <2> HIDE DEF P
  <2>2. plans \in Seq(P)
    BY <1>8, <2>1
  <2> QED BY <2>2, OwnElements
<1>11. ASSUME NEW n \in DOMAIN plans
       PROVE  \E c \in Candidates(r, found) :
                 /\ Possible(c) /\ plans[n] = PlanFor(r, c, r.adapter)
                 /\ s[n].distance = Distance(r, c)
  <2>1. n \in 1..k /\ s[n] \in S
    BY <1>8, <1>9
  <2>2. PICK c \in C : s[n].plan = PlanFor(r, c, r.adapter) /\ s[n].distance = Distance(r, c)
    BY <1>4, <2>1
  <2> QED BY <1>9, <2>1, <2>2
<1>12. ASSUME r.project = "wsl", NEW n \in DOMAIN plans, plans[n].distro = r.home
       PROVE  plans[1].distro = r.home
  <2>1. n \in 1..k /\ 1 \in 1..k /\ s[1] \in S
    BY <1>8, <1>9
  <2>2. s[n].distance = 0
    BY <1>11, <1>12, PlanPlace DEF Distance
  <2>3. s[1].distance = 0
    <3>1. CASE n = 1
      BY <2>2, <3>1
    <3>2. CASE n # 1
      <4>1. Before(s[1], s[n])
        BY <1>8, <2>1, <3>2
      <4> QED BY <1>6, <2>1, <2>2, <4>1 DEF Before
    <3> QED BY <3>1, <3>2
  <2>4. PICK c : plans[1] = PlanFor(r, c, r.adapter) /\ s[1].distance = Distance(r, c)
    BY <1>9, <1>11, <2>1
  <2>5. c.distro = r.home
    BY <1>12, <2>3, <2>4 DEF Distance
  <2> QED BY <2>4, <2>5, PlanPlace
<1> QED BY <1>10, <1>11, <1>12 DEF plans

----------------------------------------------------------------------------
(* Who has been asked *)

\* A complete discovery has asked every distro, and any other one the first
Covers(d) ==
    /\ d.complete => Distros \subseteq Asked(d)
    /\ d.wsl # <<>> => Listing[1] \in Asked(d)

Asks(r) ==
    /\ r.pc = "lookup" => r.want \in {"windows", "wsl"}
    /\ r.pc = "list" => (r.found.wsl # <<>> => Listing[1] \in Asked(r.found))
    /\ r.pc = "distro" =>
         /\ r.todo # {}
         /\ \A n \in DOMAIN Listing : n \in r.todo \/ Listing[n] \in Asked(r.found)
         /\ r.todo \subseteq DOMAIN Listing
         /\ r.found.wsl # <<>> => Listing[1] \in Asked(r.found)
    /\ r.pc \in {"save", "decide"} =>
         Covers(r.found) /\ (r.want \in {"windows", "wsl"} \/ r.found.complete)

\* `clean` is that nothing has failed
Heard(clean, r) == Sequence(r.found.wsl) /\ (clean => Asks(r))

HeardInv ==
    /\ faults \in Nat
    /\ \A c \in Contexts : Sequence(cache[c].wsl) /\ (faults = 0 => Covers(cache[c]))
    /\ \A i \in Invocations : Heard(faults = 0, inv[i])

LEMMA EmptyHeard == Sequence(<<>>) /\ NoDiscovery.wsl = <<>> /\ Covers(NoDiscovery)
BY EmptySeq, OwnElements DEF NoDiscovery, Covers

LEMMA HeardSet ==
    ASSUME Inv, HeardInv, NEW i \in Invocations, NEW r, Set(i, r), Heard(faults' = 0, r),
           faults' = faults \/ Fault,
           \A c \in Contexts : Sequence(cache'[c].wsl) /\ (faults' = 0 => Covers(cache'[c]))
    PROVE  HeardInv'
<1>1. faults' \in Nat /\ (faults' = 0 => faults = 0)
  BY DEF HeardInv, Fault
<1>2. \A j \in Invocations : inv'[j] = IF j = i THEN r ELSE inv[j]
  BY DEF Inv, Set
<1>3. \A j \in Invocations : Heard(faults' = 0, inv'[j])
  BY <1>1, <1>2 DEF HeardInv, Heard
<1> QED BY <1>1, <1>3 DEF HeardInv

LEMMA HeardAlone ==
    ASSUME Inv, HeardInv, NEW i \in Invocations, NEW r, Set(i, r), Heard(faults' = 0, r),
           faults' = faults \/ Fault, UNCHANGED cache
    PROVE  HeardInv'
<1>1. faults' = 0 => faults = 0
  BY DEF HeardInv, Fault
<1> QED BY <1>1, HeardSet DEF HeardInv

\* A step after which nothing found so far is used
LEMMA HeardLeaves ==
    ASSUME Inv, HeardInv, NEW i \in Invocations, NEW r, Set(i, r),
           Sequence(r.found.wsl),
           r.pc \in {"idle", "fast", "optimistic", "plan", "windows", "run", "done"},
           faults' = faults \/ Fault, UNCHANGED cache
    PROVE  HeardInv'
BY HeardAlone DEF Heard, Asks

LEMMA Hears ==
    ASSUME Inv, HeardInv, NEW i \in Invocations
    PROVE  /\ Sequence(inv[i].found.wsl) /\ (faults = 0 => Asks(inv[i]))
           /\ DOMAIN inv[i] = Fields /\ Found(inv[i].found)
BY DEF HeardInv, Heard, Inv, Good, Typed

LEMMA BeginHears == ASSUME Inv, HeardInv, NEW i \in Invocations, Begin(i) PROVE HeardInv'
<1> DEFINE route == IF FastPath(request) THEN "raw" ELSE ResolvedRoute(request)
           at == CASE FastPath(request) -> "fast"
                   [] ~FastPath(request) /\ OptimisticRaw(request) -> "optimistic"
                   [] OTHER -> "plan"
<1>1. at \in {"fast", "optimistic", "plan"}
  OBVIOUS
<1>2. CASE Set(i, [Idle EXCEPT !.route = route, !.pc = at])
  <2> HIDE DEF route, at
  <2> DEFINE r == [Idle EXCEPT !.route = route, !.pc = at]
  <2>1. r.found.wsl = <<>> /\ r.pc = at
    BY EmptyHeard DEF Idle
  <2> QED BY <1>1, <1>2, <2>1, EmptyHeard, HeardLeaves DEF Begin
<1>3. ASSUME NEW mode, Set(i, [Idle EXCEPT !.mode = mode, !.pc = "windows", !.want = "all"])
      PROVE  HeardInv'
  <2> DEFINE r == [Idle EXCEPT !.mode = mode, !.pc = "windows", !.want = "all"]
  <2>1. r.found.wsl = <<>> /\ r.pc = "windows"
    BY EmptyHeard DEF Idle
  <2> QED BY <1>3, <2>1, EmptyHeard, HeardLeaves DEF Begin
<1> QED BY <1>2, <1>3 DEF Begin

LEMMA PlanHears == ASSUME Inv, HeardInv, NEW i \in Invocations, Plan(i) PROVE HeardInv'
<1>1. PICK route :
        Set(i, [inv[i] EXCEPT !.route = route,
                              !.pc = IF Dispatchable(request) THEN "lookup" ELSE "run",
                              !.want = IF Dispatchable(request) THEN "windows" ELSE "none"])
  BY DEF Plan
<1> DEFINE r == [inv[i] EXCEPT !.route = route,
                              !.pc = IF Dispatchable(request) THEN "lookup" ELSE "run",
                              !.want = IF Dispatchable(request) THEN "windows" ELSE "none"]
<1>2. /\ r.found = inv[i].found /\ r.pc \in {"lookup", "run"}
      /\ r.pc = "lookup" => r.want = "windows"
  BY Hears DEF Fields
<1> HIDE DEF r
<1>3. \A clean : Heard(clean, r)
  BY <1>2, Hears DEF Heard, Asks
<1> QED BY <1>1, <1>3, HeardAlone DEF Plan, r

LEMMA LookupHears == ASSUME Inv, HeardInv, NEW i \in Invocations, Lookup(i) PROVE HeardInv'
<1> DEFINE entry == cache[Context(inv[i].want)]
           hit == [inv[i] EXCEPT !.pc = "decide", !.found = entry]
           miss == [inv[i] EXCEPT !.pc = "windows", !.found = NoDiscovery]
<1>1. inv[i].pc = "lookup" /\ (faults = 0 => inv[i].want \in {"windows", "wsl"})
  BY Hears DEF Lookup, Asks
<1>2. Sequence(entry.wsl) /\ (faults = 0 => Covers(entry))
  BY DEF HeardInv, Context, Contexts
<1> HIDE DEF entry
<1>3. /\ hit.found = entry /\ hit.pc = "decide" /\ hit.want = inv[i].want
      /\ miss.found = NoDiscovery /\ miss.pc = "windows"
  BY Hears DEF Fields
<1> HIDE DEF hit, miss
<1>4. Heard(faults = 0, hit)
  BY <1>1, <1>2, <1>3 DEF Heard, Asks
<1>5. Set(i, hit) \/ Set(i, miss)
  BY DEF Lookup, hit, miss, entry
<1>6. UNCHANGED <<cache, faults>>
  BY DEF Lookup
<1> QED BY <1>3, <1>4, <1>5, <1>6, EmptyHeard, HeardAlone, HeardLeaves

LEMMA ProbeWindowsHears ==
    ASSUME Inv, HeardInv, NEW i \in Invocations, ProbeWindows(i) PROVE HeardInv'
<1> DEFINE found == [NoDiscovery EXCEPT !.present = TRUE, !.windows = installed["windows"]]
           r == [inv[i] EXCEPT !.found = found,
                               !.pc = IF inv[i].want = "windows" THEN "save" ELSE "list"]
<1>1. found.wsl = <<>> /\ found.complete = FALSE
  BY DEF NoDiscovery
<1>2. Sequence(found.wsl) /\ Covers(found)
  BY <1>1, EmptyHeard DEF Covers
<1> HIDE DEF found
<1>3. /\ r.found = found /\ r.want = inv[i].want
      /\ r.pc = "list" \/ (r.pc = "save" /\ r.want = "windows")
  BY Hears DEF Fields
<1> HIDE DEF r
<1>4. \A clean : Heard(clean, r)
  BY <1>1, <1>2, <1>3 DEF Heard, Asks
<1>5. Set(i, r) /\ UNCHANGED <<cache, faults>>
  BY DEF ProbeWindows, r, found
<1> QED BY <1>4, <1>5, HeardAlone

LEMMA StampedHears ==
    ASSUME NEW d, Found(d), NEW c
    PROVE  /\ Stamped(d, c).wsl = d.wsl /\ Stamped(d, c).complete = c
           /\ Asked(Stamped(d, c)) = Asked(d)
<1>1. Stamped(d, c).wsl = d.wsl /\ Stamped(d, c).complete = c
  BY DEF Stamped, Found, FoundFields
<1> QED BY <1>1 DEF Asked

LEMMA ListHears == ASSUME Inv, HeardInv, NEW i \in Invocations, List(i) PROVE HeardInv'
<1> DEFINE found == inv[i].found
           asked == IF inv[i].want = "rest" THEN Asked(found) ELSE {}
           todo(listed) == {n \in DOMAIN listed : listed[n] \notin asked}
           done == [inv[i] EXCEPT !.pc = "save", !.found = Stamped(@, TRUE)]
           more(t) == [inv[i] EXCEPT !.pc = "distro", !.todo = t]
<1>1. PICK listed \in {Listing, <<>>} :
        /\ IF listed = Listing THEN UNCHANGED faults ELSE Fault
        /\ Set(i, IF todo(listed) = {} THEN done ELSE more(todo(listed)))
  BY DEF List
<1>2. (faults' = faults \/ Fault) /\ (faults' = 0 => faults = 0 /\ listed = Listing)
  BY <1>1 DEF Fault, HeardInv
<1>3. /\ inv[i].pc = "list" /\ Sequence(found.wsl) /\ Found(found)
      /\ faults = 0 => (found.wsl # <<>> => Listing[1] \in Asked(found))
  BY Hears DEF List, Asks
<1>4. /\ done.pc = "save" /\ done.found = Stamped(found, TRUE)
      /\ \A t : more(t).pc = "distro" /\ more(t).found = found /\ more(t).todo = t
  BY Hears DEF Fields
<1> HIDE DEF done, more, found
<1>5. CASE todo(listed) = {}
  <2>1. faults' = 0 => Distros \subseteq Asked(found)
    BY <1>2, <1>5 DEF Distros
  <2>2. /\ done.found.wsl = found.wsl /\ done.found.complete = TRUE
        /\ Asked(done.found) = Asked(found)
    <3> DEFINE stamped == Stamped(found, TRUE)
    <3>1. stamped.wsl = found.wsl /\ stamped.complete = TRUE /\ Asked(stamped) = Asked(found)
      BY <1>3, StampedHears
    <3>2. done.found = stamped
      BY <1>4
    <3> HIDE DEF stamped
    <3> QED BY <3>1, <3>2
  <2>3. faults' = 0 => Covers(done.found)
    BY <1>2, <1>3, <2>1, <2>2 DEF Covers
  <2>4. Heard(faults' = 0, done)
    BY <1>3, <1>4, <2>2, <2>3 DEF Heard, Asks
  <2> QED BY <1>1, <1>2, <1>5, <2>4, HeardAlone DEF List
<1>6. CASE todo(listed) # {}
  <2>1. faults' = 0 => /\ todo(listed) \subseteq DOMAIN Listing
                       /\ \A n \in DOMAIN Listing :
                             n \in todo(listed) \/ Listing[n] \in Asked(found)
    BY <1>2
  <2> HIDE DEF todo
  <2>2. Heard(faults' = 0, more(todo(listed)))
    BY <1>2, <1>3, <1>4, <1>6, <2>1 DEF Heard, Asks
  <2> QED BY <1>1, <1>2, <1>6, <2>2, HeardAlone DEF List
<1> QED BY <1>5, <1>6

\* The distros that answered in a sequence of probes
AskedIn(s) == {s[n].distro : n \in DOMAIN s}

LEMMA AppendAsks ==
    ASSUME NEW s, Sequence(s), NEW p
    PROVE  /\ Sequence(Append(s, p)) /\ Append(s, p) # <<>>
           /\ AskedIn(Append(s, p)) = AskedIn(s) \cup {p.distro}
<1> DEFINE S == {s[n] : n \in DOMAIN s} \cup {p}
           t == Append(s, p)
<1>1. s \in Seq({s[n] : n \in DOMAIN s}) /\ Len(s) \in Nat /\ DOMAIN s = 1..Len(s)
  BY OwnElements DEF Sequence
<1>2. s \in [1..Len(s) -> S]
  BY <1>1, OwnElements, LenProperties
<1>3. s \in Seq(S) /\ p \in S
  BY <1>1, <1>2
<1> HIDE DEF S
<1>4. /\ t \in Seq(S) /\ t # <<>> /\ Len(t) = Len(s) + 1
      /\ \A n \in 1..Len(s) : t[n] = s[n]
      /\ t[Len(s) + 1] = p
  BY <1>3, AppendProperties
<1>5. Sequence(t) /\ DOMAIN t = 1..Len(t)
  BY <1>4, OwnElements
<1> HIDE DEF t
<1>6. AskedIn(t) = AskedIn(s) \cup {p.distro}
  BY <1>1, <1>4, <1>5 DEF AskedIn
<1> QED BY <1>4, <1>5, <1>6 DEF t

LEMMA ProbeHears ==
    ASSUME NEW d, Found(d), Sequence(d.wsl), NEW p
    PROVE  LET e == [d EXCEPT !.wsl = Append(@, p)] IN
           /\ Found(e) /\ Sequence(e.wsl) /\ e.wsl # <<>>
           /\ Asked(e) = Asked(d) \cup {p.distro}
<1> DEFINE e == [d EXCEPT !.wsl = Append(@, p)]
<1>1. Found(e) /\ e.wsl = Append(d.wsl, p)
  BY DEF Found, FoundFields
<1> HIDE DEF e
<1>2. Sequence(e.wsl) /\ e.wsl # <<>> /\ Asked(e) = Asked(d) \cup {p.distro}
  <2>1. Asked(e) = AskedIn(e.wsl) /\ Asked(d) = AskedIn(d.wsl)
    BY DEF Asked, AskedIn
  <2> QED BY <1>1, <2>1, AppendAsks
<1> QED BY <1>1, <1>2 DEF e

\* The first probe goes to the first distro
LEMMA FirstIsFirst ==
    ASSUME NEW todo, todo = DOMAIN Listing, todo # {}
    PROVE  (CHOOSE n \in todo : \A m \in todo : n <= m) = 1
<1>1. todo = 1..Len(Listing) /\ Len(Listing) \in Nat
  BY ListingAssumption, LenProperties
<1>2. 1 \in todo /\ (\A m \in todo : 1 <= m) /\ \A n \in todo : n <= 1 => n = 1
  BY <1>1
<1> HIDE DEF Distros
<1> QED BY <1>1, <1>2

LEMMA ProbeDistroHears ==
    ASSUME Inv, HeardInv, NEW i \in Invocations, ProbeDistro(i) PROVE HeardInv'
<1>1. PICK fails \in BOOLEAN :
        LET next == CHOOSE n \in inv[i].todo : \A m \in inv[i].todo : n <= m
            d == Listing[next]
            rest == inv[i].todo \ {next}
            seen == IF fails THEN Nothing ELSE installed[d]
            probe == [distro |-> d, dedicated |-> ~fails /\ d \in Dedicated,
                      tool |-> seen.tool, rtk |-> seen.rtk]
            found == [inv[i].found EXCEPT !.wsl = Append(@, probe)]
            stops == rest = {} \/ (inv[i].want = "wsl" /\ Sufficient(probe))
        IN  /\ IF fails THEN Fault ELSE UNCHANGED faults
            /\ Set(i, [inv[i] EXCEPT !.todo = rest,
                                     !.found = IF stops THEN Stamped(found, rest = {}) ELSE found,
                                     !.pc = IF stops THEN "save" ELSE "distro"])
  BY DEF ProbeDistro
<1> DEFINE next == CHOOSE n \in inv[i].todo : \A m \in inv[i].todo : n <= m
           d == Listing[next]
           rest == inv[i].todo \ {next}
           seen == IF fails THEN Nothing ELSE installed[d]
           probe == [distro |-> d, dedicated |-> ~fails /\ d \in Dedicated,
                     tool |-> seen.tool, rtk |-> seen.rtk]
           found == [inv[i].found EXCEPT !.wsl = Append(@, probe)]
           stops == rest = {} \/ (inv[i].want = "wsl" /\ Sufficient(probe))
           kept == IF stops THEN Stamped(found, rest = {}) ELSE found
           at == IF stops THEN "save" ELSE "distro"
           r == [inv[i] EXCEPT !.todo = rest, !.found = kept, !.pc = at]
<1>2. Set(i, r) /\ UNCHANGED cache /\ (faults' = faults \/ Fault)
  BY <1>1 DEF ProbeDistro
<1>3. /\ Found(inv[i].found) /\ Sequence(inv[i].found.wsl) /\ inv[i].pc = "distro"
      /\ faults = 0 => Asks(inv[i])
  BY Hears DEF ProbeDistro
<1>4. probe.distro = Listing[next]
  OBVIOUS
<1> HIDE DEF probe
<1>5. Found(found) /\ Sequence(found.wsl) /\ Asked(found) = Asked(inv[i].found) \cup {Listing[next]}
  BY <1>3, <1>4, ProbeHears
<1>6. ASSUME faults = 0 PROVE /\ rest \subseteq DOMAIN Listing
                              /\ \A n \in DOMAIN Listing : n \in rest \/ Listing[n] \in Asked(found)
                              /\ Listing[1] \in Asked(found)
  <2> HIDE DEF found
  <2>1. /\ inv[i].todo # {} /\ inv[i].todo \subseteq DOMAIN Listing
        /\ \A n \in DOMAIN Listing : n \in inv[i].todo \/ Listing[n] \in Asked(inv[i].found)
        /\ inv[i].found.wsl # <<>> => Listing[1] \in Asked(inv[i].found)
    BY <1>3, <1>6 DEF Asks
  <2>2. CASE inv[i].found.wsl = <<>>
    <3>1. Asked(inv[i].found) = {}
      BY <2>2 DEF Asked
    <3>2. inv[i].todo = DOMAIN Listing
      BY <2>1, <3>1
    <3>3. next = 1
      BY <2>1, <3>2, FirstIsFirst
    <3> QED BY <1>5, <2>1, <3>2, <3>3
  <2>3. CASE inv[i].found.wsl # <<>>
    <3> HIDE DEF next
    <3> QED BY <1>5, <2>1, <2>3
  <2> QED BY <2>2, <2>3
<1> HIDE DEF found, next
<1>7. /\ Sequence(kept.wsl) /\ Asked(kept) = Asked(found)
      /\ stops => kept.complete = (rest = {})
  BY <1>5, StampedHears
<1> HIDE DEF kept
<1>8. r.found = kept /\ r.todo = rest /\ r.pc = at /\ r.want = inv[i].want
  BY Hears DEF Fields
<1>9. /\ at \in {"save", "distro"} /\ (at = "save" <=> stops)
      /\ ~stops => rest # {}
      /\ stops => rest = {} \/ inv[i].want = "wsl"
  OBVIOUS
<1> HIDE DEF rest, stops, at, r
<1>10. ASSUME faults = 0 PROVE Asks(r)
  <2>1. CASE stops
    <3>1. kept.complete => Distros \subseteq Asked(kept)
      BY <1>6, <1>7, <1>10, <2>1 DEF Distros
    <3>2. Covers(kept)
      BY <1>6, <1>7, <1>10, <3>1 DEF Covers
    <3>3. r.want = "wsl" \/ kept.complete
      BY <1>7, <1>8, <1>9, <2>1
    <3> QED BY <1>8, <1>9, <2>1, <3>2, <3>3 DEF Asks
  <2>2. CASE ~stops
    BY <1>6, <1>7, <1>8, <1>9, <1>10, <2>2 DEF Asks
  <2> QED BY <2>1, <2>2
<1>11. faults' = 0 => faults = 0
  BY <1>2 DEF Fault, HeardInv
<1>12. Heard(faults' = 0, r)
  BY <1>7, <1>8, <1>10, <1>11 DEF Heard
<1> QED BY <1>2, <1>12, HeardAlone

LEMMA SaveHears == ASSUME Inv, HeardInv, NEW i \in Invocations, Save(i) PROVE HeardInv'
<1> DEFINE r == [inv[i] EXCEPT !.pc = "decide"]
<1>1. /\ r.found = inv[i].found /\ r.want = inv[i].want /\ r.pc = "decide"
      /\ Sequence(inv[i].found.wsl) /\ (faults = 0 => Asks(inv[i]))
      /\ inv[i].pc = "save"
  BY Hears DEF Fields, Save
<1>2. Set(i, r) /\ (faults' = faults \/ Fault)
  BY DEF Save
<1> HIDE DEF r
<1>3. faults' = 0 => faults = 0
  BY <1>2 DEF Fault, HeardInv
<1>4. Heard(faults' = 0, r)
  BY <1>1, <1>3 DEF Heard, Asks
<1>5. \A c \in Contexts : cache'[c] = cache[c] \/ cache'[c] = inv[i].found
  BY DEF Save, Inv
<1>6. Sequence(inv[i].found.wsl) /\ (faults' = 0 => Covers(inv[i].found))
  BY <1>1, <1>3 DEF Asks
<1>7. \A c \in Contexts : Sequence(cache'[c].wsl) /\ (faults' = 0 => Covers(cache'[c]))
  BY <1>3, <1>5, <1>6 DEF HeardInv
<1> QED BY <1>2, <1>4, <1>7, HeardSet

LEMMA DecideHears == ASSUME Inv, HeardInv, NEW i \in Invocations, Decide(i) PROVE HeardInv'
<1> DEFINE r == inv[i]
           scanned == [Rests(r) EXCEPT !.pc = "done", !.outcome = "reported"]
           static == [Rests(r) EXCEPT !.pc = "run"]
           again == [r EXCEPT !.pc = "lookup", !.want = "wsl"]
           more == [r EXCEPT !.pc = "list", !.want = "rest"]
<1>1. /\ DOMAIN r = Fields /\ Sequence(r.found.wsl) /\ r.pc = "decide"
      /\ faults = 0 => Asks(r)
      /\ UNCHANGED <<cache, faults>>
  BY Hears DEF Decide
<1>2. /\ again.found = r.found /\ again.pc = "lookup" /\ again.want = "wsl"
      /\ more.found = r.found /\ more.pc = "list"
  BY <1>1 DEF Fields
<1>3. /\ scanned.found = NoDiscovery /\ scanned.pc = "done"
      /\ static.found = NoDiscovery /\ static.pc = "run"
      /\ \A plans : /\ Decided(r, plans).found = NoDiscovery
                    /\ Decided(r, plans).pc \in {"run", "done"}
  <2> DEFINE b == Rests(r)
  <2>1. DOMAIN b = Fields /\ b.found = NoDiscovery
    BY <1>1, Decides
  <2> HIDE DEF b
  <2>2. ASSUME NEW plans
        PROVE  /\ Decided(r, plans).found = NoDiscovery
               /\ Decided(r, plans).pc \in {"run", "done"}
    <3>1. Decided(r, plans) = [b EXCEPT !.pc = IF plans = <<>> THEN "done" ELSE "run", !.plans = plans,
                                        !.outcome = IF plans = <<>> THEN "missing" ELSE "none"]
      BY DEF Decided, b
    <3> QED BY <2>1, <3>1 DEF Fields
  <2>3. /\ scanned = [b EXCEPT !.pc = "done", !.outcome = "reported"]
        /\ static = [b EXCEPT !.pc = "run"]
    BY DEF b
  <2>4. /\ scanned.found = NoDiscovery /\ scanned.pc = "done"
        /\ static.found = NoDiscovery /\ static.pc = "run"
    <3> HIDE DEF scanned, static
    <3> QED BY <2>1, <2>3 DEF Fields
  <2> QED BY <2>2, <2>4
<1>4. \/ \E plans : Set(i, Decided(r, plans))
      \/ Set(i, scanned) \/ Set(i, static) \/ Set(i, again) \/ Set(i, more)
  BY DEF Decide, Resolved
<1> HIDE DEF scanned, static, again, more
<1>5. Heard(faults' = 0, again) /\ Heard(faults' = 0, more)
  BY <1>1, <1>2 DEF Heard, Asks, Covers
<1>6. CASE \E plans : Set(i, Decided(r, plans))
  BY <1>1, <1>3, <1>6, EmptyHeard, HeardLeaves
<1>7. CASE Set(i, scanned) \/ Set(i, static)
  BY <1>1, <1>3, <1>7, EmptyHeard, HeardLeaves
<1>8. CASE Set(i, again) \/ Set(i, more)
  BY <1>1, <1>5, <1>8, HeardAlone
<1> QED BY <1>4, <1>6, <1>7, <1>8

\* Time and its clock touch nothing but the dates of what was found
Dated(d, e) == e.wsl = d.wsl /\ e.complete = d.complete
Kept(r, t) ==
    /\ Dated(r.found, t.found)
    /\ t.pc = r.pc /\ t.mode = r.mode /\ t.route = r.route /\ t.want = r.want /\ t.todo = r.todo
    /\ t.plans = r.plans /\ t.starts = r.starts

LEMMA OnlyDates ==
    ASSUME Inv, Tick \/ \E by \in 1..(MaxBack - back) : SetBack(by)
    PROVE  /\ UNCHANGED <<request, faults>>
           /\ \A c \in Contexts : Dated(cache[c], cache'[c])
           /\ \A i \in Invocations : Kept(inv[i], inv'[i])
<1>1. ASSUME NEW d, Found(d), NEW latest, NEW by
      PROVE  Dated(d, Older(d)) /\ Dated(d, Newer(d, by)) /\ Dated(d, Outdated(d, latest))
  BY <1>1 DEF Older, Newer, Outdated, Found, FoundFields, Dated
<1>2. ASSUME NEW i \in Invocations, NEW e, Dated(inv[i].found, e)
      PROVE  /\ Kept(inv[i], [inv[i] EXCEPT !.elapsed = @ + 1, !.found = e])
             /\ Kept(inv[i], [inv[i] EXCEPT !.found = e])
  <2>1. DOMAIN inv[i] = Fields
    BY DEF Inv, Good, Typed
  <2> QED BY <1>2, <2>1 DEF Fields, Kept
<1>3. \A c \in Contexts : Found(cache[c])
  BY DEF Inv, Entry
<1>4. \A i \in Invocations : Found(inv[i].found) /\ Kept(inv[i], inv[i])
  BY DEF Inv, Good, Typed, Kept, Dated
<1>5. CASE Tick
  <2>1. ASSUME NEW c \in Contexts PROVE Dated(cache[c], cache'[c])
    <3>1. cache'[c] = Older(cache[c]) \/ cache'[c] = Outdated(cache[c], TTL + MaxBack - back)
      BY <1>5 DEF Tick
    <3> QED BY <1>1, <1>3, <3>1
  <2>2. ASSUME NEW i \in Invocations PROVE Kept(inv[i], inv'[i])
    <3>1. \/ inv'[i] = inv[i]
          \/ inv'[i] = [inv[i] EXCEPT !.elapsed = @ + 1, !.found = Older(inv[i].found)]
      BY <1>5 DEF Tick
    <3> QED BY <1>1, <1>2, <1>4, <3>1
  <2>3. UNCHANGED <<request, faults>>
    BY <1>5 DEF Tick
  <2> QED BY <2>1, <2>2, <2>3
<1>6. ASSUME NEW by, SetBack(by)
      PROVE  /\ UNCHANGED <<request, faults>>
             /\ \A c \in Contexts : Dated(cache[c], cache'[c])
             /\ \A i \in Invocations : Kept(inv[i], inv'[i])
  <2>1. ASSUME NEW c \in Contexts PROVE Dated(cache[c], cache'[c])
    <3>1. cache'[c] = Newer(cache[c], by)
      BY <1>6 DEF SetBack
    <3> QED BY <1>1, <1>3, <3>1
  <2>2. ASSUME NEW i \in Invocations PROVE Kept(inv[i], inv'[i])
    <3>1. inv'[i] = inv[i] \/ inv'[i] = [inv[i] EXCEPT !.found = Newer(inv[i].found, by)]
      BY <1>6 DEF SetBack
    <3> QED BY <1>1, <1>2, <1>4, <3>1
  <2>3. UNCHANGED <<request, faults>>
    BY <1>6 DEF SetBack
  <2> QED BY <2>1, <2>2, <2>3
<1> QED BY <1>5, <1>6

LEMMA TimeHears ==
    ASSUME Inv, HeardInv, Tick \/ \E by \in 1..(MaxBack - back) : SetBack(by)
    PROVE  HeardInv'
<1>1. \A d, e : e.wsl = d.wsl => Asked(e) = Asked(d)
  BY DEF Asked
<1>2. ASSUME NEW c \in Contexts
      PROVE  Sequence(cache'[c].wsl) /\ (faults = 0 => Covers(cache'[c]))
  BY <1>1, OnlyDates DEF HeardInv, Covers, Dated
<1>3. ASSUME NEW i \in Invocations PROVE Heard(faults = 0, inv'[i])
  <2> DEFINE r == inv[i]
             t == inv'[i]
  <2>1. /\ t.found.wsl = r.found.wsl /\ t.found.complete = r.found.complete
        /\ t.pc = r.pc /\ t.want = r.want /\ t.todo = r.todo
    BY OnlyDates DEF Kept, Dated
  <2>2. Asked(t.found) = Asked(r.found) /\ (Covers(r.found) => Covers(t.found))
    BY <1>1, <2>1 DEF Covers
  <2>3. Sequence(r.found.wsl) /\ (faults = 0 => Asks(r))
    BY DEF HeardInv, Heard
  <2> HIDE DEF r, t
  <2>4. faults = 0 => Asks(t)
    BY <2>1, <2>2, <2>3 DEF Asks
  <2>5. Heard(faults = 0, t)
    BY <2>1, <2>3, <2>4 DEF Heard
  <2> QED BY <2>5 DEF t
<1>4. UNCHANGED faults
  BY OnlyDates
<1> QED BY <1>2, <1>3, <1>4 DEF HeardInv

\* The end of a command, and every way there
LEMMA FinishesHear ==
    ASSUME Inv, HeardInv, NEW i \in Invocations, UNCHANGED cache, faults' = faults \/ Fault,
           NEW r, Set(i, r),
           \/ \E outcome : r = Finished(inv[i], outcome)
           \/ \E host, adapter, distro, outcome :
                  r = Finished(Started(inv[i], host, adapter, distro), outcome)
    PROVE  HeardInv'
<1>1. DOMAIN inv[i] = Fields /\ Sequence(inv[i].found.wsl)
  BY Hears
<1>2. \A outcome : Finished(inv[i], outcome).found = inv[i].found
                   /\ Finished(inv[i], outcome).pc = "done"
  BY <1>1 DEF Finished, Fields
<1>3. ASSUME NEW host, NEW adapter, NEW distro, NEW outcome
      PROVE  LET s == Finished(Started(inv[i], host, adapter, distro), outcome) IN
             s.found = inv[i].found /\ s.pc = "done"
  <2> DEFINE b == Started(inv[i], host, adapter, distro)
             s == Finished(b, outcome)
  <2>1. DOMAIN b = Fields /\ b.found = inv[i].found
    BY <1>1 DEF Started, Fields
  <2> HIDE DEF b
  <2>2. s.found = b.found /\ s.pc = "done"
    BY <2>1 DEF Finished, Fields
  <2> QED BY <2>1, <2>2 DEF b
<1>4. r.found = inv[i].found /\ r.pc = "done"
  BY <1>2, <1>3
<1> QED BY <1>1, <1>4, HeardLeaves

LEMMA RunsOrBreaksHears ==
    ASSUME Inv, HeardInv, NEW i \in Invocations, UNCHANGED cache,
           NEW host, NEW adapter, NEW distro,
           \/ Runs(i, host, adapter, distro) /\ UNCHANGED faults
           \/ Breaks(i, host, adapter, distro)
    PROVE  HeardInv'
BY FinishesHear DEF Runs, Breaks

LEMMA ExecutionHears ==
    ASSUME Inv, HeardInv, NEW i \in Invocations, TryRaw(i) \/ RunStatic(i) \/ RunPlan(i)
    PROVE  HeardInv'
<1> DEFINE planned == [inv[i] EXCEPT !.pc = "plan"]
           next == [inv[i] EXCEPT !.plans = Tail(@)]
<1>1. UNCHANGED cache /\ DOMAIN inv[i] = Fields /\ Sequence(inv[i].found.wsl)
  BY Hears DEF TryRaw, RunStatic, RunPlan
<1>2. planned.found = inv[i].found /\ planned.pc = "plan"
  BY <1>1 DEF Fields
<1>3. next.found = inv[i].found /\ next.pc = inv[i].pc
  BY <1>1 DEF Fields
<1>4. AfterNotFound(inv[i]) \in {next, Finished(inv[i], "notfound")}
  BY DEF AfterNotFound
<1> HIDE DEF planned, next
<1>5. ASSUME NEW outcome, Set(i, Finished(inv[i], outcome)), faults' = faults \/ Fault
      PROVE  HeardInv'
  BY <1>1, <1>5, FinishesHear
<1>6. CASE TryRaw(i)
  <2>1. \/ /\ \/ Runs(i, "windows", "raw", "none") /\ UNCHANGED faults
              \/ Breaks(i, "windows", "raw", "none")
        \/ Set(i, Finished(inv[i], "notfound")) /\ UNCHANGED faults
        \/ Set(i, planned) /\ UNCHANGED faults
    BY <1>6 DEF TryRaw, planned
  <2> QED BY <1>1, <1>2, <1>5, <2>1, RunsOrBreaksHears, HeardLeaves
<1>7. CASE RunStatic(i)
  <2>1. \/ Set(i, Finished(inv[i], "unmapped")) /\ UNCHANGED faults
        \/ \E host, adapter, d : \/ Runs(i, host, adapter, d) /\ UNCHANGED faults
                                 \/ Breaks(i, host, adapter, d)
        \/ Set(i, Finished(inv[i], "refused")) /\ UNCHANGED faults
        \/ Set(i, Finished(inv[i], "notfound")) /\ UNCHANGED faults
    BY <1>7 DEF RunStatic, RunWslRoute
  <2> QED BY <1>1, <1>5, <2>1, RunsOrBreaksHears
<1>8. CASE RunPlan(i)
  <2>1. \/ Set(i, AfterNotFound(inv[i])) /\ (faults' = faults \/ Fault)
        \/ Set(i, Finished(inv[i], "identity")) /\ UNCHANGED faults
        \/ \E host, adapter, d : \/ Runs(i, host, adapter, d) /\ UNCHANGED faults
                                 \/ Breaks(i, host, adapter, d)
    BY <1>8 DEF RunPlan, RunWindowsPlan, RunWslPlan
  <2>2. inv[i].pc = "run"
    BY <1>8 DEF RunPlan
  <2> QED BY <1>1, <1>3, <1>4, <1>5, <2>1, <2>2, RunsOrBreaksHears, HeardLeaves
<1> QED BY <1>6, <1>7, <1>8

LEMMA HeardInit == Init => HeardInv
<1> SUFFICES ASSUME Init PROVE HeardInv
  OBVIOUS
<1>1. \A c \in Contexts : cache[c] = NoDiscovery
  BY DEF Init
<1>2. \A i \in Invocations : inv[i] = Idle
  BY DEF Init
<1>3. Idle.found.wsl = <<>> /\ Idle.pc = "idle"
  BY EmptyHeard DEF Idle
<1>4. \A clean : Heard(clean, Idle)
  BY <1>3, EmptyHeard DEF Heard, Asks
<1> QED BY <1>1, <1>2, <1>4, EmptyHeard DEF HeardInv, Init

LEMMA HeardStep == Inv /\ HeardInv /\ [Next]_vars => HeardInv'
<1> SUFFICES ASSUME Inv, HeardInv, [Next]_vars PROVE HeardInv'
  OBVIOUS
<1>1. CASE Change \/ UNCHANGED vars
  BY <1>1 DEF Change, vars, HeardInv
<1>2. CASE LoseCache
  <2>1. UNCHANGED inv /\ faults' = faults + 1 /\ faults' # 0 /\ faults' \in Nat
    BY <1>2 DEF LoseCache, Fault, HeardInv
  <2>2. \A c \in Contexts : cache'[c] = cache[c] \/ cache'[c] = NoDiscovery
    BY <1>2 DEF LoseCache, Inv
  <2>3. \A c \in Contexts : Sequence(cache'[c].wsl)
    BY <2>2, EmptyHeard DEF HeardInv
  <2> QED BY <2>1, <2>3 DEF HeardInv, Heard
<1>3. ASSUME NEW i \in Invocations, Step(i) PROVE HeardInv'
  <2>1. CASE End(i)
    <3>1. Idle.found.wsl = <<>> /\ Idle.pc = "idle"
      BY EmptyHeard DEF Idle
    <3>2. Set(i, Idle) /\ UNCHANGED <<cache, faults>>
      BY <2>1 DEF End
    <3> QED BY <3>1, <3>2, EmptyHeard, HeardLeaves
  <2> QED
    BY <1>3, <2>1, BeginHears, PlanHears, LookupHears, ProbeWindowsHears, ListHears,
       ProbeDistroHears, SaveHears, DecideHears, ExecutionHears DEF Step
<1> QED BY <1>1, <1>2, <1>3, TimeHears DEF Next

LEMMA HeardAlways == Spec => [](Inv /\ HeardInv)
<1>1. Init => Inv /\ HeardInv
  BY InvInit, HeardInit
<1>2. Inv /\ HeardInv /\ [Next]_vars => (Inv /\ HeardInv)'
  BY InvStep, HeardStep
<1> QED BY <1>1, <1>2, PTL DEF Spec

LEMMA RequestStays == Spec => [](request \in Requests)
<1>1. Init => request \in Requests
  BY DEF Init
<1>2. request \in Requests /\ [Next]_vars => (request \in Requests)'
  BY DEF Next, vars, Change, Tick, SetBack, LoseCache, SameWorld, Step, Begin, Plan, Lookup, ProbeWindows,
     List, ProbeDistro, Save, Decide, TryRaw, RunStatic, RunPlan, End
<1> QED BY <1>1, <1>2, PTL DEF Spec

\* Only the decision leads from "decide" to a start
LEMMA OnlyDecides ==
    ASSUME Inv, Next, NEW i \in Invocations, inv[i].pc = "decide", inv'[i].pc = "run"
    PROVE  Decide(i)
<1>1. CASE Change \/ LoseCache
  BY <1>1 DEF Change, LoseCache
<1>2. CASE Tick \/ \E by \in 1..(MaxBack - back) : SetBack(by)
  BY <1>2, OnlyDates DEF Kept
<1>3. ASSUME NEW j \in Invocations, Step(j) PROVE Decide(i)
  <2>1. CASE j # i
    <3>1. \E r : Set(j, r)
      BY <1>3 DEF Step, Begin, Plan, Lookup, ProbeWindows, List, ProbeDistro, Save, Decide, TryRaw,
         RunStatic, RunPlan, End, Runs, Breaks, RunWslRoute, RunWindowsPlan, RunWslPlan
    <3> QED BY <2>1, <3>1 DEF Set, Inv
  <2>2. CASE j = i
    BY <1>3, <2>2 DEF Step, Begin, Plan, Lookup, ProbeWindows, List, ProbeDistro, Save, TryRaw,
       RunStatic, RunPlan, End
  <2> QED BY <2>1, <2>2
<1> QED BY <1>1, <1>2, <1>3 DEF Next

\* A partial inventory that suffices for a project of a distro holds that distro's answer
LEMMA SufficesHome ==
    ASSUME request \in Requests, request.project = "wsl", request.home \in Distros,
           NEW d, Covers(d), PartialSuffices(request, d)
    PROVE  request.home \in Asked(d)
<1>1. PICK c \in Candidates(request, d) : Eligible(request, c) /\ c.host # "windows"
  BY DEF PartialSuffices
<1>2. PICK n \in DOMAIN d.wsl : c = WslCandidate(request, n, d.wsl[n])
  BY <1>1 DEF Candidates, WindowsCandidate
<1>3. WslProject(request, d.wsl[n].distro)
  BY <1>1, <1>2 DEF Eligible, WslCandidate
<1>4. CASE d.wsl[n].distro = request.home
  BY <1>4 DEF Asked
<1>5. CASE request.windowsPath
  <2>1. request.home = Listing[1]
    BY <1>5, RequestAssumption
  <2>2. d.wsl # <<>>
    BY <1>2
  <2> QED BY <2>1, <2>2 DEF Covers
<1> QED BY <1>3, <1>4, <1>5 DEF WslProject

LEMMA HomeStep ==
    ASSUME Inv, HeardInv, request \in Requests, NEW i \in Invocations, Decide(i),
           inv[i].mode = "run", faults = 0, request.project = "wsl", request.home \in Distros,
           Begins(inv'[i]), Head(inv'[i].plans).distro # request.home
    PROVE  request.home \in Asked(inv[i].found) /\ ~HomeHasPlan(inv[i].found)
<1> DEFINE r == inv[i]
           plans == DecidedPlans(request, r.found)
           again == [r EXCEPT !.pc = "lookup", !.want = "wsl"]
           more == [r EXCEPT !.pc = "list", !.want = "rest"]
           decided == Decided(r, plans)
<1>1. /\ DOMAIN r = Fields /\ Sequence(r.found.wsl) /\ Covers(r.found)
      /\ r.want \in {"windows", "wsl"} \/ r.found.complete
  BY Hears DEF Decide, Asks
<1>2. again.pc = "lookup" /\ more.pc = "list"
  BY <1>1 DEF Fields
<1>3. Resolved(r) = decided
  BY DEF Resolved, KeepsStatic
<1>4. inv'[i].pc = "run"
  BY DEF Begins
<1>5. \/ r.want = "windows" /\ Set(i, again)
      \/ /\ r.want = "wsl" /\ (r.found.complete \/ PartialSuffices(request, r.found))
         /\ Set(i, decided)
      \/ r.want = "wsl" /\ Set(i, more)
      \/ r.want \notin {"windows", "wsl"} /\ Set(i, decided)
  <2> HIDE DEF decided, again, more
  <2>1. CASE r.want = "windows"
    BY <2>1 DEF Decide, again
  <2>2. CASE r.want = "wsl"
    BY <1>3, <2>2 DEF Decide, more
  <2>3. CASE r.want \notin {"windows", "wsl"}
    <3>1. ~(r.want = "all" /\ r.mode = "exec") /\ ~(r.want = "all" /\ r.mode = "scan")
      OBVIOUS
    <3> QED BY <1>3, <2>3, <3>1 DEF Decide
  <2> QED BY <2>1, <2>2, <2>3
<1>6. \A s : Set(i, s) => inv'[i] = s
  BY DEF Set, Inv
<1> HIDE DEF again, more, decided
<1>7. /\ inv'[i] = decided
      /\ r.found.complete \/ PartialSuffices(request, r.found)
  BY <1>1, <1>2, <1>4, <1>5, <1>6
<1>8. request.home \in Asked(r.found)
  BY <1>1, <1>7, SufficesHome DEF Covers
<1>9. decided.plans = plans
  BY <1>1 DEF decided, Decided, Fields
<1>10. plans # <<>> /\ Head(plans).distro # request.home
  BY <1>7, <1>9 DEF Begins
<1> HIDE DEF plans
<1>11. Sequence(plans)
  BY <1>1, DecidedAre DEF plans
<1>12. plans[1].distro # request.home
  <2>1. Head(plans) = plans[1]
    BY <1>10, <1>11, HeadTailProperties DEF Sequence
  <2> QED BY <1>10, <2>1
<1>13. \A n \in DOMAIN plans : plans[n].distro # request.home
  BY <1>1, <1>12, DecidedAre DEF plans
<1> QED BY <1>8, <1>13 DEF HomeHasPlan, plans

(***************************************************************************)
(* In a project of a distro, a decision that begins elsewhere was taken    *)
(* after that distro was asked and had nothing that could be planned: the  *)
(* answers of a partial discovery suffice only when the distro's own is    *)
(* among them (providers/dispatch.rs:344-386 and 418-444).                 *)
(***************************************************************************)
THEOREM HomeGoesFirst == Spec => SameDistroFirst
<1> DEFINE First ==
      \A i \in Invocations :
         /\ inv[i].pc = "decide" /\ inv[i].mode = "run" /\ faults = 0
         /\ request.project = "wsl" /\ request.home \in Distros
         /\ Begins(inv'[i]) /\ Head(inv'[i].plans).distro # request.home
         => request.home \in Asked(inv[i].found) /\ ~HomeHasPlan(inv[i].found)
<1>1. Inv /\ HeardInv /\ request \in Requests /\ [Next]_vars => [First]_vars
  <2> SUFFICES ASSUME Inv, HeardInv, request \in Requests, Next PROVE First
    OBVIOUS
  <2> SUFFICES ASSUME NEW i \in Invocations,
                      inv[i].pc = "decide", inv[i].mode = "run", faults = 0,
                      request.project = "wsl", request.home \in Distros,
                      Begins(inv'[i]), Head(inv'[i].plans).distro # request.home
               PROVE  request.home \in Asked(inv[i].found) /\ ~HomeHasPlan(inv[i].found)
    BY DEF First
  <2>1. Decide(i)
    BY OnlyDecides DEF Begins
  <2> QED BY <2>1, HomeStep
<1>2. SameDistroFirst <=> [][First]_vars
  BY DEF SameDistroFirst
<1> HIDE DEF First
<1> QED BY <1>1, <1>2, HeardAlways, RequestStays, PTL DEF Spec

----------------------------------------------------------------------------
(* A git command that may write *)

\* No route was asked for
PinnedGit(q) ==
    q.requested = "auto" /\ q.tool = "git" /\ q.access # "ReadOnly" /\ q.project = "windows"

OnWindows(s) == \A n \in DOMAIN s : s[n].host = "windows" /\ s[n].adapter = "raw"

\* Every way to a start that an invocation of such a command still has
Pinned(q, r) ==
    /\ OnWindows(r.starts) /\ OnWindows(r.plans) /\ Sequence(r.plans)
    /\ r.route \in {"none", "raw", "wsl1"}
    /\ r.pc \in {"optimistic", "plan"} /\ ~Dispatchable(q) => r.route = "raw"
    /\ r.pc = "run" /\ r.plans = <<>> => r.route = "raw"

PinInv ==
    PinnedGit(request) => \A i \in Invocations : inv[i].mode = "run" => Pinned(request, inv[i])

LEMMA EmptyPins == OnWindows(<<>>) /\ Sequence(<<>>)
<1>1. Sequence(<<>>)
  BY EmptyHeard
<1>2. \A n \in DOMAIN <<>> : FALSE
  OBVIOUS
<1> QED BY <1>1, <1>2 DEF OnWindows

LEMMA OneStartPins ==
    ASSUME NEW x, x.host = "windows", x.adapter = "raw"
    PROVE  OnWindows(Append(<<>>, x))
<1>1. <<>> \in Seq({x}) /\ Len(<<>>) = 0
  OBVIOUS
<1> DEFINE t == Append(<<>>, x)
<1>2. t \in Seq({x})
  BY <1>1, AppendProperties
<1>3. \A n \in DOMAIN t : t[n] \in {x}
  <2> HIDE DEF t
  <2> QED BY <1>2, LenProperties
<1> HIDE DEF t
<1>4. OnWindows(t)
  BY <1>3 DEF OnWindows
<1> QED BY <1>4 DEF t

LEMMA PinSet ==
    ASSUME Inv, PinInv, NEW i \in Invocations, NEW r, Set(i, r), UNCHANGED request,
           PinnedGit(request) /\ r.mode = "run" => Pinned(request, r)
    PROVE  PinInv'
<1>1. \A j \in Invocations : inv'[j] = IF j = i THEN r ELSE inv[j]
  BY DEF Inv, Set
<1> QED BY <1>1 DEF PinInv

\* What the routes of such a command are, and that no evidence changes them
LEMMA PinnedRoutes ==
    ASSUME NEW q \in Requests, PinnedGit(q)
    PROVE  /\ ResolvedRoute(q) \in {"raw", "wsl1"}
           /\ ~Dispatchable(q) => ResolvedRoute(q) = "raw"
           /\ ~Calibrates(q)
           /\ PinsWindowsGit(q)
<1>1. ~VerifiedReadOnlyGit(q) /\ PinsWindowsGit(q)
  BY DEF VerifiedReadOnlyGit, PinsWindowsGit, PinnedGit
<1>2. command_surface(q.tool) = "NativeStructured" /\ q.tool \notin MetaCommands \cup CoreInternal
      /\ ~AdapterOnly(q.tool)
  <2>1. "git" \in NativeStructured
    BY DEF NativeStructured
  <2>2. "git" \notin MetaCommands
    BY DEF MetaCommands
  <2>3. "git" \notin CoreInternal
    BY DEF CoreInternal
  <2>4. q.tool = "git"
    BY DEF PinnedGit
  <2>5. command_surface("git") = "NativeStructured"
    <3>1. "git" \notin RawNative /\ "git" \notin Wsl1Conservative
      BY <2>2 DEF RawNative, Wsl1Conservative
    <3> QED BY <2>1, <2>3, <3>1 DEF command_surface
  <2>6. ~AdapterOnly("git")
    BY <2>2 DEF AdapterOnly
  <2> QED BY <2>2, <2>3, <2>4, <2>5, <2>6, Zenon
<1>3. StaticByManifest(q) = "raw"
  BY <1>1, <1>2 DEF StaticByManifest, PinnedGit
<1>4. AutoRouteWithContext(q) \in {"raw", "wsl1"}
  BY <1>3 DEF AutoRouteWithContext, AuthorizedPolicyRoute, PinnedGit
<1>5. AutoRouteWindowsOnly(q) = "raw"
  BY <1>1, <1>2 DEF AutoRouteWindowsOnly, PinnedGit
<1>6. ~Dispatchable(q) => q.environment # "adaptive"
  BY <1>2 DEF Dispatchable, PinnedGit
<1>7. ResolvedRoute(q) \in {"raw", "wsl1"} /\ (~Dispatchable(q) => ResolvedRoute(q) = "raw")
  BY <1>4, <1>5, <1>6 DEF ResolvedRoute, PinnedGit
<1>8. ~Calibrates(q)
  BY RequestAssumption DEF Calibrates, CalibrationEligible, PinnedGit
<1> QED BY <1>1, <1>7, <1>8

LEMMA BeginPins ==
    ASSUME Inv, PinInv, request \in Requests, NEW i \in Invocations, Begin(i) PROVE PinInv'
<1> DEFINE route == IF FastPath(request) THEN "raw" ELSE ResolvedRoute(request)
           at == CASE FastPath(request) -> "fast"
                   [] ~FastPath(request) /\ OptimisticRaw(request) -> "optimistic"
                   [] OTHER -> "plan"
<1>1. at \in {"fast", "optimistic", "plan"} /\ (at # "fast" => ~FastPath(request))
  OBVIOUS
<1>2. at # "fast" => route = ResolvedRoute(request)
  BY <1>1
<1>3. PinnedGit(request) => route \in {"raw", "wsl1"}
  BY PinnedRoutes
<1> HIDE DEF route, at
<1>4. CASE Set(i, [Idle EXCEPT !.route = route, !.pc = at])
  <2> DEFINE r == [Idle EXCEPT !.route = route, !.pc = at]
  <2>1. r.pc = at /\ r.route = route /\ r.starts = <<>> /\ r.plans = <<>>
    BY DEF Idle
  <2> HIDE DEF r
  <2>2. PinnedGit(request) => Pinned(request, r)
    BY <1>1, <1>2, <1>3, <2>1, PinnedRoutes, EmptyPins DEF Pinned
  <2> QED BY <1>4, <2>2, PinSet DEF Begin, SameWorld, r
<1>5. ASSUME NEW mode, mode # "run",
             Set(i, [Idle EXCEPT !.mode = mode, !.pc = "windows", !.want = "all"])
      PROVE  PinInv'
  <2> DEFINE r == [Idle EXCEPT !.mode = mode, !.pc = "windows", !.want = "all"]
  <2>1. r.mode # "run"
    BY <1>5 DEF Idle
  <2> HIDE DEF r
  <2> QED BY <1>5, <2>1, PinSet DEF Begin, SameWorld, r
<1>6. \/ Set(i, [Idle EXCEPT !.route = route, !.pc = at])
      \/ \E mode \in request.modes \ {"run"} :
             Set(i, [Idle EXCEPT !.mode = mode, !.pc = "windows", !.want = "all"])
  BY DEF Begin, route, at
<1> QED BY <1>4, <1>5, <1>6

LEMMA PlanPins ==
    ASSUME Inv, PinInv, request \in Requests, NEW i \in Invocations, Plan(i) PROVE PinInv'
<1> DEFINE r(route) == [inv[i] EXCEPT !.route = route,
                              !.pc = IF Dispatchable(request) THEN "lookup" ELSE "run",
                              !.want = IF Dispatchable(request) THEN "windows" ELSE "none"]
<1>1. PICK route \in IF Calibrates(request) THEN {"raw", "native-rtk"} ELSE {inv[i].route} :
        Set(i, r(route))
  BY DEF Plan
<1>2. DOMAIN inv[i] = Fields
  BY DEF Inv, Good, Typed
<1> DEFINE s == r(route)
<1>3. /\ s.route = route /\ s.pc = IF Dispatchable(request) THEN "lookup" ELSE "run"
      /\ s.mode = inv[i].mode /\ s.plans = inv[i].plans /\ s.starts = inv[i].starts
  BY <1>2 DEF Fields
<1>4. Set(i, s) /\ inv[i].pc = "plan"
  BY <1>1 DEF Plan
<1> HIDE DEF s
<1>5. ASSUME PinnedGit(request), s.mode = "run" PROVE Pinned(request, s)
  <2>1. route = inv[i].route
    BY <1>1, <1>5, PinnedRoutes
  <2>2. Pinned(request, inv[i])
    BY <1>3, <1>5 DEF PinInv
  <2> QED BY <1>3, <1>4, <2>1, <2>2 DEF Pinned
<1> QED BY <1>4, <1>5, PinSet DEF Plan, SameWorld

\* A step of the discovery: the route, the plans and the starts stay
LEMMA LooksPins ==
    ASSUME Inv, PinInv, NEW i \in Invocations, NEW r, Set(i, r), UNCHANGED request,
           r.mode = inv[i].mode, r.route = inv[i].route, r.starts = inv[i].starts,
           r.plans = inv[i].plans,
           r.pc \in {"lookup", "windows", "list", "distro", "save", "decide", "done"}
    PROVE  PinInv'
<1>1. ASSUME PinnedGit(request), r.mode = "run" PROVE Pinned(request, r)
  BY <1>1 DEF PinInv, Pinned
<1> QED BY <1>1, PinSet

LEMMA DiscoveryPins ==
    ASSUME Inv, PinInv, NEW i \in Invocations,
           Lookup(i) \/ ProbeWindows(i) \/ List(i) \/ ProbeDistro(i) \/ Save(i)
    PROVE  PinInv'
<1> DEFINE P == {"windows", "list", "distro", "save", "decide"}
           looked(pc, found) == [inv[i] EXCEPT !.pc = pc, !.found = found]
           probed(pc, found) == [inv[i] EXCEPT !.found = found, !.pc = pc]
           listed(todo) == [inv[i] EXCEPT !.pc = "distro", !.todo = todo]
           asked(todo, found, pc) == [inv[i] EXCEPT !.todo = todo, !.found = found, !.pc = pc]
           saved == [inv[i] EXCEPT !.pc = "decide"]
           Same(r) == /\ r.mode = inv[i].mode /\ r.route = inv[i].route
                      /\ r.starts = inv[i].starts /\ r.plans = inv[i].plans
<1>1. DOMAIN inv[i] = Fields
  BY DEF Inv, Good, Typed
<1>2. ASSUME NEW pc, NEW found
      PROVE  /\ Same(looked(pc, found)) /\ looked(pc, found).pc = pc
             /\ Same(probed(pc, found)) /\ probed(pc, found).pc = pc
  BY <1>1 DEF Fields
<1>3. ASSUME NEW todo PROVE Same(listed(todo)) /\ listed(todo).pc = "distro"
  BY <1>1 DEF Fields
<1>4. ASSUME NEW todo, NEW found, NEW pc
      PROVE Same(asked(todo, found, pc)) /\ asked(todo, found, pc).pc = pc
  BY <1>1 DEF Fields
<1>5. Same(saved) /\ saved.pc = "decide"
  BY <1>1 DEF Fields
<1>6. \/ \E pc \in P : \E found : Set(i, looked(pc, found))
      \/ \E pc \in P : \E found : Set(i, probed(pc, found))
      \/ \E todo : Set(i, listed(todo))
      \/ \E pc \in P : \E todo, found : Set(i, asked(todo, found, pc))
      \/ Set(i, saved)
  <2> HIDE DEF looked, probed, listed, asked, saved
  <2>1. CASE Lookup(i)
    BY <2>1 DEF Lookup, looked
  <2>2. CASE ProbeWindows(i)
    BY <2>2 DEF ProbeWindows, probed
  <2>3. CASE List(i)
    BY <2>3 DEF List, listed, looked
  <2>4. CASE ProbeDistro(i)
    BY <2>4 DEF ProbeDistro, asked
  <2>5. CASE Save(i)
    BY <2>5 DEF Save, saved
  <2> QED BY <2>1, <2>2, <2>3, <2>4, <2>5
<1>7. UNCHANGED request
  BY DEF Lookup, ProbeWindows, List, ProbeDistro, Save, SameWorld
<1> HIDE DEF looked, probed, listed, asked, saved
<1> QED BY <1>2, <1>3, <1>4, <1>5, <1>6, <1>7, LooksPins
LEMMA PlansPin ==
    ASSUME request \in Requests, PinnedGit(request), NEW d, Sequence(d.wsl)
    PROVE  OnWindows(DecidedPlans(request, d)) /\ Sequence(DecidedPlans(request, d))
<1> DEFINE plans == DecidedPlans(request, d)
<1>1. ASSUME NEW n \in DOMAIN plans PROVE plans[n].host = "windows" /\ plans[n].adapter = "raw"
  <2>1. PICK c \in Candidates(request, d) :
          /\ Eligible(request, c) /\ Adapter(request, c, request.adapter) # "none"
          /\ plans[n] = PlanFor(request, c, request.adapter)
    BY DecidedAre
  <2>2. c.host = "windows"
    BY <2>1, PinnedRoutes DEF Eligible
  <2>3. RawRequired(request, c, request.adapter)
    BY <2>2 DEF RawRequired, PinnedGit
  <2>4. Adapter(request, c, request.adapter) = "raw"
    BY <2>1, <2>3 DEF Adapter
  <2> HIDE DEF plans
  <2> QED BY <2>1, <2>2, <2>4, PlanPlace
<1> HIDE DEF plans
<1>2. OnWindows(plans)
  BY <1>1 DEF OnWindows
<1>3. Sequence(plans)
  BY DecidedAre DEF plans
<1> QED BY <1>2, <1>3 DEF plans

LEMMA DecidePins ==
    ASSUME Inv, HeardInv, PinInv, request \in Requests, NEW i \in Invocations, Decide(i)
    PROVE  PinInv'
<1> DEFINE r == inv[i]
           scanned == [Rests(r) EXCEPT !.pc = "done", !.outcome = "reported"]
           static == [Rests(r) EXCEPT !.pc = "run"]
           again == [r EXCEPT !.pc = "lookup", !.want = "wsl"]
           more == [r EXCEPT !.pc = "list", !.want = "rest"]
           plans == DecidedPlans(request, r.found)
           Same(s) == s.mode = r.mode /\ s.route = r.route /\ s.starts = r.starts
<1>1. DOMAIN r = Fields /\ Sequence(r.found.wsl) /\ UNCHANGED request
  BY Hears DEF Decide, SameWorld
<1>2. /\ Same(again) /\ again.plans = r.plans /\ again.pc = "lookup"
      /\ Same(more) /\ more.plans = r.plans /\ more.pc = "list"
  BY <1>1 DEF Fields
<1>3. /\ Same(scanned) /\ scanned.plans = r.plans /\ scanned.pc = "done"
      /\ Same(static) /\ static.plans = r.plans /\ static.pc = "run"
      /\ \A p : LET s == Decided(r, p) IN
                Same(s) /\ s.plans = p /\ s.pc = IF p = <<>> THEN "done" ELSE "run"
  <2> DEFINE b == Rests(r)
  <2>1. DOMAIN b = Fields /\ Same(b) /\ b.plans = r.plans
    BY <1>1 DEF Rests, Fields
  <2>2. ASSUME NEW p
        PROVE  LET s == Decided(r, p) IN
               Same(s) /\ s.plans = p /\ s.pc = IF p = <<>> THEN "done" ELSE "run"
    <3>1. Decided(r, p) = [b EXCEPT !.pc = IF p = <<>> THEN "done" ELSE "run", !.plans = p,
                                    !.outcome = IF p = <<>> THEN "missing" ELSE "none"]
      BY DEF Decided
    <3> HIDE DEF b
    <3> QED BY <2>1, <3>1 DEF Fields
  <2>3. /\ scanned = [b EXCEPT !.pc = "done", !.outcome = "reported"]
        /\ static = [b EXCEPT !.pc = "run"]
    OBVIOUS
  <2>4. /\ Same(scanned) /\ scanned.plans = r.plans /\ scanned.pc = "done"
        /\ Same(static) /\ static.plans = r.plans /\ static.pc = "run"
    <3> HIDE DEF scanned, static, b
    <3> QED BY <2>1, <2>3 DEF Fields
  <2> QED BY <2>2, <2>4
<1>4. \/ Set(i, scanned) \/ Set(i, again) \/ Set(i, more)
      \/ r.mode # "run" /\ \E p : Set(i, Decided(r, p))
      \/ KeepsStatic(request, r.route, r.found.windows) /\ Set(i, static)
      \/ Set(i, Decided(r, plans))
  <2> HIDE DEF plans
  <2>1. \/ Resolved(r) = Decided(r, plans)
        \/ KeepsStatic(request, r.route, r.found.windows) /\ Resolved(r) = static
    BY DEF Resolved, plans
  <2>2. \/ r.mode = "exec" /\ \E p : Set(i, Decided(r, p))
        \/ Set(i, scanned) \/ Set(i, again) \/ Set(i, more) \/ Set(i, Resolved(r))
    BY DEF Decide
  <2> HIDE DEF scanned, static, again, more
  <2> QED BY <2>1, <2>2
<1> HIDE DEF scanned, static, again, more
<1>5. CASE Set(i, scanned) \/ Set(i, again) \/ Set(i, more)
  BY <1>1, <1>2, <1>3, <1>5, LooksPins
<1>6. CASE r.mode # "run" /\ \E p : Set(i, Decided(r, p))
  <2>1. PICK p : Set(i, Decided(r, p))
    BY <1>6
  <2>2. Decided(r, p).mode # "run"
    BY <1>3, <1>6
  <2> QED BY <1>1, <2>1, <2>2, PinSet
<1>7. CASE KeepsStatic(request, r.route, r.found.windows) /\ Set(i, static)
  <2>1. ASSUME PinnedGit(request), static.mode = "run" PROVE Pinned(request, static)
    <3>1. Pinned(request, r)
      BY <1>3, <2>1 DEF PinInv
    <3>2. r.route = "raw"
      BY <1>7, <3>1 DEF KeepsStatic, Pinned
    <3> QED BY <1>3, <3>1, <3>2 DEF Pinned
  <2> QED BY <1>1, <1>7, <2>1, PinSet
<1>8. CASE Set(i, Decided(r, plans))
  <2> HIDE DEF plans
  <2> DEFINE s == Decided(r, plans)
  <2>1. Same(s) /\ s.plans = plans /\ s.pc = IF plans = <<>> THEN "done" ELSE "run"
    BY <1>3
  <2> HIDE DEF s
  <2>2. ASSUME PinnedGit(request), s.mode = "run" PROVE Pinned(request, s)
    <3>1. Pinned(request, r)
      BY <2>1, <2>2 DEF PinInv
    <3>2. OnWindows(plans) /\ Sequence(plans)
      BY <1>1, <2>2, PlansPin DEF plans
    <3> QED BY <2>1, <3>1, <3>2 DEF Pinned
  <2> QED BY <1>1, <1>8, <2>2, PinSet DEF s
<1> QED BY <1>4, <1>5, <1>6, <1>7, <1>8

\* The end of a command, and what was started before
LEMMA FinishesPin ==
    ASSUME Inv, PinInv, NEW i \in Invocations, UNCHANGED request, NEW outcome,
           Set(i, Finished(inv[i], outcome))
    PROVE  PinInv'
<1> DEFINE r == Finished(inv[i], outcome)
<1>1. DOMAIN inv[i] = Fields
  BY DEF Inv, Good, Typed
<1>2. /\ r.mode = inv[i].mode /\ r.route = inv[i].route /\ r.starts = inv[i].starts
      /\ r.plans = inv[i].plans /\ r.pc = "done"
  BY <1>1 DEF Finished, Fields
<1> HIDE DEF r
<1>3. Set(i, r)
  BY DEF r
<1> QED BY <1>2, <1>3, LooksPins

LEMMA StartsPin ==
    ASSUME Inv, PinInv, NEW i \in Invocations, UNCHANGED request, inv[i].starts = <<>>,
           NEW host, NEW adapter, NEW distro,
           Runs(i, host, adapter, distro) \/ Breaks(i, host, adapter, distro),
           PinnedGit(request) /\ inv[i].mode = "run" => host = "windows" /\ adapter = "raw"
    PROVE  PinInv'
<1> DEFINE start == [host |-> host, adapter |-> adapter, distro |-> distro]
           b == Started(inv[i], host, adapter, distro)
<1>1. DOMAIN inv[i] = Fields
  BY DEF Inv, Good, Typed
<1>2. /\ DOMAIN b = Fields /\ b.starts = Append(<<>>, start)
      /\ b.mode = inv[i].mode /\ b.route = inv[i].route /\ b.plans = inv[i].plans
  BY <1>1 DEF Started, Fields
<1> HIDE DEF b
<1>3. \/ \E outcome : Set(i, Finished(inv[i], outcome))
      \/ \E outcome : Set(i, Finished(b, outcome))
  BY DEF Runs, Breaks, b
<1>4. ASSUME NEW outcome, Set(i, Finished(b, outcome)) PROVE PinInv'
  <2> DEFINE r == Finished(b, outcome)
  <2>1. /\ r.mode = inv[i].mode /\ r.route = inv[i].route /\ r.starts = Append(<<>>, start)
        /\ r.plans = inv[i].plans /\ r.pc = "done"
    BY <1>2 DEF Finished, Fields
  <2>2. start.host = host /\ start.adapter = adapter
    OBVIOUS
  <2> HIDE DEF r, start
  <2>3. ASSUME PinnedGit(request), r.mode = "run" PROVE Pinned(request, r)
    <3>1. Pinned(request, inv[i])
      BY <2>1, <2>3 DEF PinInv
    <3>2. OnWindows(r.starts)
      BY <2>1, <2>2, <2>3, OneStartPins
    <3> QED BY <2>1, <3>1, <3>2 DEF Pinned
  <2>4. Set(i, r)
    BY <1>4 DEF r
  <2> QED BY <2>3, <2>4, PinSet
<1> QED BY <1>3, <1>4, FinishesPin

LEMMA TryRawPins == ASSUME Inv, PinInv, NEW i \in Invocations, TryRaw(i) PROVE PinInv'
<1> DEFINE r == [inv[i] EXCEPT !.pc = "plan"]
<1>1. /\ inv[i].pc \in {"fast", "optimistic"} /\ UNCHANGED request
      /\ inv[i].starts = <<>> /\ DOMAIN inv[i] = Fields
  BY DEF TryRaw, SameWorld, Inv, Good, StartsOnce, Typed
<1>2. /\ r.mode = inv[i].mode /\ r.route = inv[i].route /\ r.starts = inv[i].starts
      /\ r.plans = inv[i].plans /\ r.pc = "plan"
  BY <1>1 DEF Fields
<1>3. \/ Runs(i, "windows", "raw", "none") \/ Breaks(i, "windows", "raw", "none")
      \/ Set(i, Finished(inv[i], "notfound"))
      \/ inv[i].pc = "optimistic" /\ Set(i, r)
  BY <1>1 DEF TryRaw
<1> HIDE DEF r
<1>4. CASE inv[i].pc = "optimistic" /\ Set(i, r)
  <2>1. ASSUME PinnedGit(request), r.mode = "run" PROVE Pinned(request, r)
    BY <1>2, <1>4, <2>1 DEF PinInv, Pinned
  <2> QED BY <1>1, <1>4, <2>1, PinSet
<1> QED BY <1>1, <1>3, <1>4, StartsPin, FinishesPin

LEMMA RunStaticPins == ASSUME Inv, PinInv, NEW i \in Invocations, RunStatic(i) PROVE PinInv'
<1> DEFINE route == inv[i].route
           adapter == IF route = "native-rtk" THEN "rtk" ELSE "raw"
           Held == PinnedGit(request) /\ inv[i].mode = "run"
<1>1. /\ inv[i].pc = "run" /\ inv[i].plans = <<>> /\ UNCHANGED request /\ inv[i].starts = <<>>
  BY DEF RunStatic, SameWorld, Inv, Good, StartsOnce
<1>2. Held => route = "raw" /\ adapter = "raw"
  BY <1>1 DEF PinInv, Pinned
<1>3. \/ \E outcome : Set(i, Finished(inv[i], outcome))
      \/ Runs(i, "windows", adapter, "none") \/ Breaks(i, "windows", adapter, "none")
      \/ /\ route \in {"native-rtk", "wsl1", "wsl2"}
         /\ \E host, d : Runs(i, host, "rtk", d) \/ Breaks(i, host, "rtk", d)
  <2> HIDE DEF adapter
  <2>1. \/ \E outcome : Set(i, Finished(inv[i], outcome))
        \/ Runs(i, "windows", adapter, "none") \/ Breaks(i, "windows", adapter, "none")
        \/ route \in {"native-rtk", "wsl1", "wsl2"} /\ \E host : RunWslRoute(i, host)
    BY DEF RunStatic, adapter
  <2> QED BY <2>1 DEF RunWslRoute
<1> HIDE DEF adapter, route
<1>4. CASE Runs(i, "windows", adapter, "none") \/ Breaks(i, "windows", adapter, "none")
  BY <1>1, <1>2, <1>4, StartsPin
<1>5. CASE /\ route \in {"native-rtk", "wsl1", "wsl2"}
           /\ \E host, d : Runs(i, host, "rtk", d) \/ Breaks(i, host, "rtk", d)
  BY <1>1, <1>2, <1>5, StartsPin
<1> QED BY <1>1, <1>3, <1>4, <1>5, FinishesPin

LEMMA RunPlanPins == ASSUME Inv, PinInv, NEW i \in Invocations, RunPlan(i) PROVE PinInv'
<1> DEFINE plans == inv[i].plans
           plan == Head(plans)
           r == [inv[i] EXCEPT !.plans = Tail(@)]
           Held == PinnedGit(request) /\ inv[i].mode = "run"
<1>1. /\ inv[i].pc = "run" /\ plans # <<>> /\ UNCHANGED request /\ inv[i].starts = <<>>
      /\ DOMAIN inv[i] = Fields
  BY DEF RunPlan, SameWorld, Inv, Good, StartsOnce, Typed
<1>2. /\ r.mode = inv[i].mode /\ r.route = inv[i].route /\ r.starts = inv[i].starts
      /\ r.plans = Tail(plans) /\ r.pc = "run"
  BY <1>1 DEF Fields
<1>3. Held => Pinned(request, inv[i])
  BY DEF PinInv
<1>4. \/ \E outcome : Set(i, Finished(inv[i], outcome))
      \/ Len(plans) # 1 /\ Set(i, r)
      \/ /\ plan.host = "windows"
         /\ Runs(i, "windows", plan.adapter, "none") \/ Breaks(i, "windows", plan.adapter, "none")
      \/ /\ plan.host # "windows"
         /\ \E host, adapter, d : Runs(i, host, adapter, d) \/ Breaks(i, host, adapter, d)
  <2>1. \/ Set(i, AfterNotFound(inv[i]))
        \/ \E outcome : Set(i, Finished(inv[i], outcome))
        \/ /\ plan.host = "windows"
           /\ Runs(i, "windows", plan.adapter, "none") \/ Breaks(i, "windows", plan.adapter, "none")
        \/ /\ plan.host # "windows"
           /\ \E host, adapter, d : Runs(i, host, adapter, d) \/ Breaks(i, host, adapter, d)
    BY DEF RunPlan, RunWindowsPlan, RunWslPlan
  <2>2. \/ AfterNotFound(inv[i]) = Finished(inv[i], "notfound")
        \/ Len(plans) # 1 /\ AfterNotFound(inv[i]) = r
    BY DEF AfterNotFound
  <2> QED BY <2>1, <2>2
<1>5. ASSUME Held
      PROVE  /\ plan.host = "windows" /\ plan.adapter = "raw"
             /\ OnWindows(Tail(plans)) /\ Sequence(Tail(plans))
             /\ Len(plans) # 1 => Tail(plans) # <<>>
  <2> HIDE DEF plans
  <2> DEFINE E == {plans[n] : n \in DOMAIN plans}
             t == Tail(plans)
  <2>1. OnWindows(plans) /\ plans \in Seq(E)
    BY <1>3, <1>5 DEF Pinned, Sequence, plans
  <2>2. DOMAIN plans = 1..Len(plans) /\ Len(plans) \in Nat /\ Len(plans) # 0
    BY <1>1, <2>1, OwnElements, EmptySeq
  <2>3. \A e \in E : e.host = "windows" /\ e.adapter = "raw"
    BY <2>1 DEF OnWindows
  <2> HIDE DEF E
  <2>4. plan \in E /\ t \in Seq(E) /\ Len(t) = Len(plans) - 1
    BY <1>1, <2>1, HeadTailProperties
  <2> HIDE DEF t
  <2>5. Sequence(t) /\ \A n \in DOMAIN t : t[n] \in E
    BY <2>4, OwnElements, LenProperties
  <2>6. OnWindows(t)
    BY <2>3, <2>5 DEF OnWindows
  <2>7. Len(plans) # 1 => t # <<>>
    BY <2>2, <2>4, EmptySeq
  <2> QED BY <2>3, <2>4, <2>5, <2>6, <2>7 DEF t
<1> HIDE DEF plan, r
<1>6. CASE Len(plans) # 1 /\ Set(i, r)
  <2>1. ASSUME PinnedGit(request), r.mode = "run" PROVE Pinned(request, r)
    BY <1>2, <1>3, <1>5, <1>6, <2>1 DEF Pinned
  <2> QED BY <1>1, <1>6, <2>1, PinSet
<1>7. CASE /\ plan.host = "windows"
           /\ Runs(i, "windows", plan.adapter, "none") \/ Breaks(i, "windows", plan.adapter, "none")
  BY <1>1, <1>5, <1>7, StartsPin
<1>8. CASE /\ plan.host # "windows"
           /\ \E host, adapter, d : Runs(i, host, adapter, d) \/ Breaks(i, host, adapter, d)
  BY <1>1, <1>5, <1>8, StartsPin
<1> QED BY <1>1, <1>4, <1>6, <1>7, <1>8, FinishesPin

LEMMA TimePins ==
    ASSUME Inv, PinInv, Tick \/ \E by \in 1..(MaxBack - back) : SetBack(by)
    PROVE  PinInv'
BY OnlyDates DEF PinInv, Pinned, Kept

LEMMA PinInit == Init => PinInv
<1>1. Idle.starts = <<>> /\ Idle.plans = <<>> /\ Idle.route = "none" /\ Idle.pc = "idle"
  BY DEF Idle
<1>2. \A q : Pinned(q, Idle)
  BY <1>1, EmptyPins DEF Pinned
<1> QED BY <1>2 DEF Init, PinInv

LEMMA PinStep == Inv /\ HeardInv /\ PinInv /\ request \in Requests /\ [Next]_vars => PinInv'
<1> SUFFICES ASSUME Inv, HeardInv, PinInv, request \in Requests, [Next]_vars PROVE PinInv'
  OBVIOUS
<1>1. CASE Change \/ LoseCache \/ UNCHANGED vars
  BY <1>1 DEF Change, LoseCache, SameWorld, vars, PinInv
<1>2. ASSUME NEW i \in Invocations, Step(i) PROVE PinInv'
  <2>1. CASE End(i)
    <3>1. Idle.starts = <<>> /\ Idle.plans = <<>> /\ Idle.route = "none" /\ Idle.pc = "idle"
      BY DEF Idle
    <3>2. Pinned(request, Idle)
      BY <3>1, EmptyPins DEF Pinned
    <3> QED BY <2>1, <3>2, PinSet DEF End, SameWorld
  <2> QED
    BY <1>2, <2>1, BeginPins, PlanPins, DiscoveryPins, DecidePins, TryRawPins, RunStaticPins,
       RunPlanPins DEF Step
<1> QED BY <1>1, <1>2, TimePins DEF Next

(***************************************************************************)
(* A git command that is not known to only read, in a Windows project and  *)
(* without a route asked for, never starts in WSL or through RTK: no       *)
(* evidence changes its route, every plan of its decision is raw and on    *)
(* Windows, and what is left of the plans after a failure still is         *)
(* (providers/dispatch.rs:414-425, cli/execution.rs:117-155).              *)
(***************************************************************************)
THEOREM GitStaysOnWindows == Spec => []MutatingGitStaysOnWindows
<1>1. PinInv => MutatingGitStaysOnWindows
  BY DEF PinInv, PinnedGit, Pinned, OnWindows, MutatingGitStaysOnWindows
<1> QED BY <1>1, PinInit, PinStep, HeardAlways, RequestStays, PTL DEF Spec
=============================================================================
