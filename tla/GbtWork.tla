------------------------------ MODULE GbtWork ------------------------------
(***************************************************************************)
(* The getblocktemplate work state (rpcserver.go): the template shared by  *)
(* all callers, when it is made anew, and the long polls that wait for it  *)
(* to go stale.  Notices of blocks and transactions arrive in goroutines   *)
(* of their own that wait for the state's lock, in any order.  Time is     *)
(* counted in the seconds the template ids are made of.                    *)
(***************************************************************************)
EXTENDS Integers, FiniteSets

CONSTANTS Pollers, MaxBlocks, MaxTime, Regenerate, MaxTxs, MaxPolls,
          Switching,    \* whether the chain may also move without accepting a block
          SideBlocks    \* whether blocks off the best chain are accepted

VARIABLES tip, blocks,    \* the best tip; blocks accepted so far
          poolAt, txs,    \* when the pool changed last; changes so far
          now,
          lock,           \* who holds the state's lock
          st,             \* [prev, gen, txAt, on]: prevHash, lastGenerated, lastTxUpdate, template.PrevBlock
          chans,          \* open notification channels: <<previous block, generated>>
          pend,           \* notices waiting for the lock
          poll,           \* each poller: [pc, id, latest, on, polls, same]
          switched        \* the tip moved with no notice since a block was accepted

gwVars == <<tip, blocks, poolAt, txs, now, lock, st, chans, pend, poll, switched>>

NoTip == 0
Zero == -1
Free == "free"
NoPoll == [pc |-> "idle", id |-> <<NoTip, Zero>>, latest |-> NoTip, on |-> NoTip, woken |-> FALSE, polls |-> 0]

-----------------------------------------------------------------------------
(* The state. *)

\* The channels a notice closes: those of other tips, and on this tip those of
\* templates made before the pool changed.
Stale_SameTip(c, hash, at) == c[1] = hash /\ at # Zero /\ c[2] < at
Stale(c, hash, at) == c[1] # hash \/ (at # Zero /\ c[2] < at)
notifyLongPollers(cs, hash, at) == { c \in cs : ~Stale(c, hash, at) }

NeedsTemplate(latest) ==
    \/ st.prev = NoTip \/ st.prev # latest
    \/ st.txAt # poolAt /\ now > st.gen + Regenerate

\* A call holds the lock from here to its end.
Acquire(p, from, to) ==
    /\ poll[p].pc = from /\ lock = Free /\ lock' = p
    /\ poll' = [poll EXCEPT ![p].pc = to, ![p].latest = tip]
    /\ UNCHANGED <<tip, blocks, poolAt, txs, now, st, chans, pend, switched>>
\* NewBlockTemplate looks at the tip for itself; it may fail.
Template(p) ==
    /\ poll[p].pc = "update" /\ lock = p
    /\ IF ~NeedsTemplate(poll[p].latest)
       THEN poll' = [poll EXCEPT ![p].pc = "answer"] /\ UNCHANGED <<lock, st>>
       ELSE \/ poll' = [poll EXCEPT ![p].pc = "store", ![p].on = tip] /\ UNCHANGED <<lock, st>>
            \/ /\ poll' = [poll EXCEPT ![p].pc = "idle"] /\ lock' = Free
               /\ st' = [st EXCEPT !.prev = NoTip]
    /\ UNCHANGED <<tip, blocks, poolAt, txs, now, chans, pend, switched>>
Store(p) ==
    /\ poll[p].pc = "store" /\ lock = p
    /\ st' = [prev |-> poll[p].latest, gen |-> now, txAt |-> poolAt, on |-> poll[p].on]
    /\ chans' = notifyLongPollers(chans, poll[p].latest, poolAt)
    /\ poll' = [poll EXCEPT ![p].pc = "answer"]
    /\ UNCHANGED <<tip, blocks, poolAt, txs, now, lock, pend, switched>>

-----------------------------------------------------------------------------
(* A caller: a first request, then long polls with the id it was given. *)

Request(p) == poll[p].polls < MaxPolls /\ Acquire(p, "idle", "update")

Matches(p) == poll[p].id = <<st.on, st.gen>>
Answer(p) ==
    /\ poll[p].pc = "answer" /\ lock = p /\ lock' = Free
    /\ IF ~poll[p].woken /\ Matches(p)
       THEN /\ chans' = chans \cup {poll[p].id}
            /\ poll' = [poll EXCEPT ![p].pc = "wait"]
       ELSE /\ poll' = [poll EXCEPT ![p].pc = "idle", ![p].id = <<st.on, st.gen>>, ![p].woken = FALSE, ![p].polls = @ + 1]
            /\ UNCHANGED chans
    /\ UNCHANGED <<tip, blocks, poolAt, txs, now, st, pend, switched>>
Wake(p) ==
    /\ poll[p].pc = "wait" /\ poll[p].id \notin chans
    /\ poll' = [poll EXCEPT ![p].pc = "woken", ![p].woken = TRUE]
    /\ UNCHANGED <<tip, blocks, poolAt, txs, now, lock, st, chans, pend, switched>>
Again(p) == Acquire(p, "woken", "update")
\* The client goes away; its channel stays until it is closed.
Quit(p) ==
    /\ poll[p].pc = "wait" /\ poll' = [poll EXCEPT ![p] = [NoPoll EXCEPT !.polls = poll[p].polls + 1]]
    /\ UNCHANGED <<tip, blocks, poolAt, txs, now, lock, st, chans, pend, switched>>

-----------------------------------------------------------------------------
(* Notices. *)

NotifyBlockConnected(h) ==
    /\ <<"block", h>> \in pend /\ lock = Free
    /\ pend' = pend \ {<<"block", h>>} /\ chans' = notifyLongPollers(chans, h, st.txAt)
    /\ UNCHANGED <<tip, blocks, poolAt, txs, now, lock, st, poll, switched>>
NotifyMempoolTx(at) ==
    /\ <<"tx", at>> \in pend /\ lock = Free
    /\ pend' = pend \ {<<"tx", at>>}
    /\ chans' = IF st.prev # NoTip /\ now > st.gen + Regenerate THEN notifyLongPollers(chans, st.prev, at) ELSE chans
    /\ UNCHANGED <<tip, blocks, poolAt, txs, now, lock, st, poll, switched>>

\* NTBlockAccepted is sent for blocks of the best chain and of others.
BlockAccepted(best) ==
    /\ blocks < MaxBlocks /\ blocks' = blocks + 1 /\ (best \/ SideBlocks)
    /\ tip' = IF best THEN blocks + 1 ELSE tip
    /\ pend' = pend \cup {<<"block", blocks + 1>>}
    /\ switched' = (switched /\ ~best)
    /\ UNCHANGED <<poolAt, txs, now, lock, st, chans, poll>>
\* invalidateblock and reconsiderblock move the tip and accept nothing.
Switch ==
    /\ Switching /\ \E h \in 1..blocks : h # tip /\ tip' = h
    /\ switched' = TRUE
    /\ UNCHANGED <<blocks, poolAt, txs, now, lock, st, chans, pend, poll>>
TxAccepted ==
    /\ txs < MaxTxs /\ txs' = txs + 1 /\ poolAt' = now /\ pend' = pend \cup {<<"tx", now>>}
    /\ UNCHANGED <<tip, blocks, now, lock, st, chans, poll, switched>>
Tick == /\ now < MaxTime /\ now' = now + 1
        /\ UNCHANGED <<tip, blocks, poolAt, txs, lock, st, chans, pend, poll, switched>>

-----------------------------------------------------------------------------
GwInit ==
    /\ tip = 1 /\ blocks = 1 /\ poolAt = 0 /\ txs = 0 /\ now = 0 /\ lock = Free
    /\ st = [prev |-> NoTip, gen |-> Zero, txAt |-> Zero, on |-> NoTip]
    /\ chans = {} /\ pend = {} /\ poll = [p \in Pollers |-> NoPoll] /\ switched = FALSE

GwNext ==
    \/ \E p \in Pollers : Request(p) \/ Template(p) \/ Store(p) \/ Answer(p) \/ Wake(p) \/ Again(p) \/ Quit(p)
    \/ \E n \in pend : NotifyBlockConnected(n[2]) \/ NotifyMempoolTx(n[2])
    \/ \E best \in BOOLEAN : BlockAccepted(best)
    \/ Switch \/ TxAccepted \/ Tick

GwSpec == GwInit /\ [][GwNext]_gwVars

-----------------------------------------------------------------------------
(* Properties. *)

Quiet == lock = Free /\ pend = {}

\* (notifyLongPollers, updateBlockTemplate, handleGetBlockTemplateLongPoll)
\* No wake-up is lost: when every notice has been dealt with, a client still
\* waits only on the tip, however the notices, the templates made on a tip that
\* moved meanwhile and the long polls were interleaved.
PollersNotForgotten ==
    Quiet /\ ~switched => \A p \in Pollers : poll[p].pc = "wait" /\ poll[p].id \in chans => poll[p].id[1] = tip
====
