---------------------------- MODULE HeaderRules -----------------------------
(***************************************************************************)
(* What the chain decides from headers alone: timestamps and their median, *)
(* the network-adjusted clock, the required difficulty, checkpoints, and   *)
(* the state of the version-bits deployments with its per-deployment cache *)
(* (validate.go, mediantime.go, difficulty.go, workmath, checkpoints.go,   *)
(* thresholdstate.go, versionbits.go).  Headers form a tree; node 0 is the *)
(* genesis block.                                                          *)
(***************************************************************************)
EXTENDS Integers, Sequences, FiniteSets, FiniteSetsExt, SequencesExt

CONSTANTS
    medianTimeBlocks, TargetTime, Window, MinTimespan, MaxTimespan,
    MaxWork,         \* 2^256
    PowLimit, NoRetargeting,
    MantissaDigits, Base,  \* of the compact form: 3 digits of 256
    ReductionTime,   \* MinDiffReductionTime, 0 without ReduceMinDifficulty
    MaxTimeWarp,     \* maxTimeWarp, -1 without EnforceBIP94
    Deployments,     \* sequence of [start, end, threshold, minHeight, always]
    WarnBits,        \* version bits watched for unknown rules
    ConfirmationWindow, Threshold,
    CheckpointHeights, \* ascending
    MaxTimeEntries, MaxOffset, \* of the median time source
    Topics,          \* what an instance explores: "votes", "chain", "clock"
    Deltas, Votes, MaxHeaders, MaxTips, MaxSamples

VARIABLES hdr,    \* sequence of headers in the index, node n is hdr[n]
          best,   \* tip of the best chain
          cache,  \* thresholdStateCache of each deployment
          ck,     \* checkpointNode and the index of nextCheckpoint
          clock   \* the median time source

hrVars == <<hdr, best, cache, ck, clock>>

Nil == -1
GenesisNode == [parent |-> Nil, height |-> 0, time |-> 0, target |-> PowLimit, work |-> MaxWork \div (PowLimit + 1),
            vote |-> {}, ck |-> FALSE]
Ids == 0..Len(hdr)
H(n) == IF n = 0 THEN GenesisNode ELSE hdr[n]
ParentOf(n) == H(n).parent

RECURSIVE Back(_, _)
Back(n, k) == IF k = 0 \/ n = Nil THEN n ELSE Back(ParentOf(n), k - 1)
Ancestor(n, h) == IF h < 0 THEN Nil ELSE Back(n, H(n).height - h)

-----------------------------------------------------------------------------
(* Times. *)

RECURSIVE LastTimes(_, _)
LastTimes(n, k) == IF n = Nil \/ k = 0 THEN <<>> ELSE <<H(n).time>> \o LastTimes(ParentOf(n), k - 1)
Sorted(s) == SortSeq(s, LAMBDA a, b : a < b)
CalcPastMedianTime(n) == LET ts == Sorted(LastTimes(n, medianTimeBlocks)) IN ts[Len(ts) \div 2 + 1]

\* A sample counts once per source; the offset moves when there is an odd
\* number of them, five or more, and falls back to none when the median is
\* too far off.
Abs(x) == IF x < 0 THEN -x ELSE x
AddTimeSample(id, offset) ==
    /\ Len(clock.offsets) + Cardinality(clock.ids) < 2 * MaxSamples
    /\ IF id \in clock.ids THEN UNCHANGED clock
       ELSE LET kept == IF Len(clock.offsets) = MaxTimeEntries THEN Tail(clock.offsets) ELSE clock.offsets
                new == Append(kept, offset)
                n == Len(new)
                median == Sorted(new)[n \div 2 + 1]
            IN clock' = [ids |-> clock.ids \cup {id}, offsets |-> new,
                         offset |-> IF n < 5 \/ n % 2 = 0 THEN clock.offset
                                    ELSE IF Abs(median) < MaxOffset THEN median ELSE 0]
    /\ UNCHANGED <<hdr, best, cache, ck>>

-----------------------------------------------------------------------------
(* Difficulty: the compact form keeps MantissaDigits digits of a target, one
   fewer when the first has its high bit set. *)

Digits(x) == CHOOSE d \in 1..31 : Base^(d - 1) <= x /\ x < Base^d
Truncated(x, keep) == LET drop == Max({Digits(x) - keep, 0}) IN (x \div Base^drop) * Base^drop
BigToCompact(x) ==
    IF x = 0 THEN 0
    ELSE LET lead == x \div Base^(Digits(x) - 1)
         IN Truncated(x, IF lead >= Base \div 2 THEN MantissaDigits - 1 ELSE MantissaDigits)

CalcWork(target) == IF target <= 0 THEN 0 ELSE MaxWork \div (target + 1)

suitableBlock(n) ==
    LET z == n
        y == Back(n, 1)
        x == Back(n, 2)
    IN IF x = Nil THEN Nil
       ELSE LET three == SortSeq(<<x, y, z>>, LAMBDA a, b : H(a).time < H(b).time) IN three[2]

Clamped(span) == Max({MinTimespan, Min({span, MaxTimespan})})
Limited(target) == Min({target, PowLimit})

calcNextRequiredDifficulty(n, time) ==
    IF NoRetargeting \/ (ReductionTime > 0 /\ time > H(n).time + ReductionTime) \/ H(n).height < Window + 2
    THEN PowLimit
    ELSE LET last == suitableBlock(n)
             first == suitableBlock(Back(n, Window))
             windowWork == H(last).work - H(first).work
             work == (windowWork * TargetTime) \div Clamped(H(last).time - H(first).time)
         IN IF windowWork <= 0 \/ work <= 0 THEN PowLimit
            ELSE BigToCompact(Limited(MaxWork \div work - 1))

-----------------------------------------------------------------------------
(* Checkpoints.  A header's ck says that its hash is the one its height's
   checkpoint names. *)

OnBest(n) == n # Nil /\ Ancestor(best, H(n).height) = n /\ H(n).height <= H(best).height
CheckpointAt(i) == { n \in Ids : H(n).ck /\ H(n).height = CheckpointHeights[i] }

verifyCheckpoint(height, matches) == height \in Range(CheckpointHeights) => matches

\* The last checkpoint the best chain reached, found once and then moved on.
findPreviousCheckpoint ==
    LET count == Len(CheckpointHeights)
        reached == { i \in 1..count : \E n \in CheckpointAt(i) : OnBest(n) }
    IN CASE count = 0 -> ck
         [] count > 0 /\ ck.node = Nil /\ ck.next = 0 ->
                IF reached = {} THEN [node |-> Nil, next |-> 1]
                ELSE LET i == Max(reached) IN
                     [node |-> CHOOSE n \in CheckpointAt(i) : TRUE, next |-> IF i < count THEN i + 1 ELSE 0]
         [] count > 0 /\ (ck.node # Nil \/ ck.next # 0) ->
                IF ck.next = 0 \/ H(best).height < CheckpointHeights[ck.next] THEN ck
                ELSE [node |-> CHOOSE n \in CheckpointAt(ck.next) \cup {Nil} : CheckpointAt(ck.next) # {} => n # Nil,
                      next |-> IF ck.next < count THEN ck.next + 1 ELSE 0]

-----------------------------------------------------------------------------
(* A header is offered: CheckBlockHeaderSanity, CheckBlockHeaderContext, and
   into the index. *)

AfterMedian(time, n) == time > CalcPastMedianTime(n)

assertNoTimeWarp(height, time, n) ==
    MaxTimeWarp >= 0 /\ height % Window = 0 => time >= H(n).time - MaxTimeWarp

ProcessHeader(p, time, vote, matches) ==
    LET height == H(p).height + 1
        target == calcNextRequiredDifficulty(p, time)
        prev == findPreviousCheckpoint
    IN /\ Len(hdr) < MaxHeaders
       /\ Cardinality({ n \in Ids : \A m \in Ids : ParentOf(m) # n } \ {p}) < MaxTips
       /\ "votes" \in Topics => p = Len(hdr) \/ \E m \in Ids : ParentOf(m) = p
       /\ matches => \E i \in DOMAIN CheckpointHeights : CheckpointHeights[i] = height /\ CheckpointAt(i) = {}
       /\ target > 0 /\ target <= PowLimit
       /\ AfterMedian(time, p) /\ assertNoTimeWarp(height, time, p)
       /\ verifyCheckpoint(height, matches)
       /\ ck' = prev
       /\ IF prev.node # Nil /\ height < H(prev.node).height THEN UNCHANGED hdr
          ELSE hdr' = Append(hdr, [parent |-> p, height |-> height, time |-> time, target |-> target,
                                   work |-> H(p).work + CalcWork(target), vote |-> vote, ck |-> matches])
       /\ UNCHANGED <<best, cache, clock>>

\* The blocks of a branch with more work become the best chain.
ConnectBest(n) ==
    /\ H(n).work > H(best).work /\ best' = n
    /\ UNCHANGED <<hdr, cache, ck, clock>>

-----------------------------------------------------------------------------
(* Version bits.  A checker is a deployment, or a version bit watched for
   rules this node does not know. *)

IsDeployment(d) == d \in DOMAIN Deployments
Checkers == DOMAIN Deployments \cup { 100 + b : b \in WarnBits }
Bit(d) == IF IsDeployment(d) THEN d ELSE d - 100
StarterHasStarted(start, n) == CalcPastMedianTime(n) >= start
EnderHasEnded(end, n) == CalcPastMedianTime(n) >= end
HasStarted(d, n) == IsDeployment(d) => StarterHasStarted(Deployments[d].start, n)
HasEnded(d, n) == IsDeployment(d) /\ EnderHasEnded(Deployments[d].end, n)
IsSpeedy(d) == IsDeployment(d) /\ (Deployments[d].minHeight # 0 \/ Deployments[d].threshold # 0)
ActivationThreshold(d) == IF IsDeployment(d) /\ Deployments[d].threshold # 0 THEN Deployments[d].threshold ELSE Threshold
EligibleToActivate(d, n) ==
    IsDeployment(d) /\ Deployments[d].minHeight # 0 => H(n).height + 1 >= Deployments[d].minHeight
ForceActive(d, n) ==
    IsDeployment(d) /\ n # Nil /\ Deployments[d].always # 0 /\ H(n).height + 1 >= Deployments[d].always

thresholdStateTransition(state, d, n, count) ==
    CASE state \in {"defined", "started"} /\ ~IsSpeedy(d) /\ HasEnded(d, n) -> "failed"
      [] state = "defined" /\ (IsSpeedy(d) \/ ~HasEnded(d, n)) /\ HasStarted(d, n) -> "started"
      [] state = "started" /\ (IsSpeedy(d) \/ ~HasEnded(d, n)) ->
             CASE count >= ActivationThreshold(d) -> "lockedin"
               [] count < ActivationThreshold(d) /\ IsSpeedy(d) /\ HasEnded(d, n) -> "failed"
               [] OTHER -> "started"
      [] state = "lockedin" /\ EligibleToActivate(d, n) -> "active"
      [] OTHER -> state

\* The last block of the window before the one n's successor is in.
Aligned(n) == Ancestor(n, H(n).height - ((H(n).height + 1) % ConfirmationWindow))

\* Back to a block whose state is cached, or that is before the start; then
\* forward again, caching each state.  caches holds what is known so far.
RECURSIVE Walked(_, _, _)
RECURSIVE calcNextBlockVersion(_, _)

Condition(caches, d, n) ==
    /\ Bit(d) \in H(n).vote
    /\ ~IsDeployment(d) => Bit(d) \notin calcNextBlockVersion(caches, ParentOf(n))

RECURSIVE CountOf(_, _, _, _)
CountOf(caches, d, n, k) ==
    IF k = 0 THEN 0
    ELSE CountOf(caches, d, ParentOf(n), k - 1) + (IF Condition(caches, d, n) THEN 1 ELSE 0)

StoresHash(c, n) == DOMAIN c \cap {n}

Walked(caches, d, n) ==
    IF n = Nil THEN [state |-> "defined", cache |-> caches[d]]
    ELSE LET found == StoresHash(caches[d], n) IN
         IF found # {} THEN [state |-> caches[d][CHOOSE m \in found : TRUE], cache |-> caches[d]]
         ELSE IF ~HasStarted(d, n)
         THEN [state |-> "defined", cache |-> [m \in DOMAIN caches[d] \cup {n} |->
                                                   IF m = n THEN "defined" ELSE caches[d][m]]]
         ELSE LET before == Walked(caches, d, Back(n, ConfirmationWindow))
                  count == CountOf(caches, d, n, ConfirmationWindow)
                  state == thresholdStateTransition(before.state, d, n, count)
              IN [state |-> state,
                  cache |-> [m \in DOMAIN before.cache \cup {n} |-> IF m = n THEN state ELSE before.cache[m]]]

thresholdState(caches, d, n) ==
    IF ForceActive(d, n) THEN [state |-> "active", cache |-> caches[d]]
    ELSE IF n = Nil \/ (n # Nil /\ H(n).height + 1 < ConfirmationWindow)
    THEN [state |-> "defined", cache |-> caches[d]]
    ELSE Walked(caches, d, Aligned(n))

calcNextBlockVersion(caches, n) ==
    { d \in DOMAIN Deployments : thresholdState(caches, d, n).state \in {"started", "lockedin"} }

\* Mining, validation and the warnings ask; the answer is cached.
ThresholdState(d, n) ==
    /\ cache' = [cache EXCEPT ![d] = thresholdState(cache, d, n).cache]
    /\ UNCHANGED <<hdr, best, ck, clock>>

thresholdStatistics(d, n) ==
    LET elapsed == (H(n).height + 1) % ConfirmationWindow
        count == CountOf(cache, d, n, elapsed)
    IN [elapsed |-> elapsed, count |-> count,
        possible |-> count + (ConfirmationWindow - elapsed) >= ActivationThreshold(d)]

-----------------------------------------------------------------------------
EmptyCaches == [d \in Checkers |-> [n \in {} |-> "defined"]]
HrInit ==
    /\ hdr = <<>> /\ best = 0
    /\ cache = EmptyCaches
    /\ ck = [node |-> Nil, next |-> 0]
    /\ clock = [ids |-> {}, offsets |-> <<>>, offset |-> 0]

HrNext ==
    \/ \E p \in Ids, dt \in Deltas, v \in Votes, m \in BOOLEAN :
          Topics # {"clock"} /\ ProcessHeader(p, CalcPastMedianTime(p) + dt, v, m)
    \/ \E n \in Ids : "chain" \in Topics /\ ConnectBest(n)
    \/ \E d \in Checkers, n \in Ids : "votes" \in Topics /\ ThresholdState(d, n)
    \/ \E id \in 1..MaxSamples, o \in {-MaxOffset, -1, 0, 2, MaxOffset} : "clock" \in Topics /\ AddTimeSample(id, o)

HrSpec == HrInit /\ [][HrNext]_hrVars

-----------------------------------------------------------------------------
(* Properties. *)

\* The state of a deployment by its definition: window by window from the
\* genesis block, no cache and no shortcut.
RECURSIVE StateOf(_, _)
RECURSIVE VersionOf(_)
VersionOf(n) == { d \in DOMAIN Deployments :
                    ~ForceActive(d, n) /\ n # Nil /\ H(n).height + 1 >= ConfirmationWindow
                    /\ StateOf(d, Back(n, (H(n).height + 1) % ConfirmationWindow)) \in {"started", "lockedin"} }
StateOf(d, n) ==
    IF n = Nil THEN "defined"
    ELSE LET voters == { m \in Ids : /\ H(m).height <= H(n).height /\ H(m).height > H(n).height - ConfirmationWindow
                                     /\ Ancestor(n, H(m).height) = m /\ Bit(d) \in H(m).vote
                                     /\ (~IsDeployment(d) => Bit(d) \notin VersionOf(ParentOf(m))) }
         IN thresholdStateTransition(StateOf(d, Back(n, ConfirmationWindow)), d, n, Cardinality(voters))

\* Whatever was asked before, in whatever order and on whatever branch, what
\* the cache says of a block is the deployment's state there; and when the
\* statistics say that a window can no longer lock a deployment in, no
\* extension of it does.
CachesSound ==
    /\ \A d \in Checkers : \A n \in DOMAIN cache[d] : cache[d][n] = StateOf(d, n)
    /\ \A d \in DOMAIN Deployments : \A m \in Ids :
          (H(m).height + 1) % ConfirmationWindow = 0 /\ StateOf(d, m) = "lockedin"
            /\ StateOf(d, Back(m, ConfirmationWindow)) = "started" =>
             \A k \in 1..(ConfirmationWindow - 1) : thresholdStatistics(d, Back(m, k)).possible

\* The median time never goes back along a branch, which the deployments' start
\* and end rely on; and the difficulty asked of the next block is always one
\* that the proof-of-work check accepts.
HeadersSound ==
    /\ \A n \in Ids \ {0} : CalcPastMedianTime(n) >= CalcPastMedianTime(ParentOf(n))
    /\ \A n \in Ids : calcNextRequiredDifficulty(n, CalcPastMedianTime(n) + 1) \in 1..PowLimit
    /\ clock.offset \in (-MaxOffset + 1)..(MaxOffset - 1)

\* Every checkpoint at or below the best chain's height is in the best chain,
\* and the node remembered as the last one is in it too.
CheckpointsHold ==
    /\ \A i \in DOMAIN CheckpointHeights : CheckpointHeights[i] <= H(best).height =>
           \E n \in CheckpointAt(i) : OnBest(n)
    /\ ck.node # Nil => H(ck.node).ck
====
