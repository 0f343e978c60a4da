------------------------------ MODULE MCRecovery ------------------------------
(***************************************************************************)
(* Two stores without receipts, of which a run uses one.  The aligner's:   *)
(* one process replays every source of four events from a small alphabet   *)
(* under three configurations; two processes with different batches race   *)
(* over selected sources.  The flow journal's: two owners with different   *)
(* slices and a consumer, over a linear flow and a branching graph.        *)
(***************************************************************************)
EXTENDS FlowJournal, RecoveryStore

Everything == 99

\* Overlapping windows, late events dropped, records kept as briefly as may be.
Overlapping ==
    [origin |-> 0, window |-> 4, hop |-> 2, maxWindows |-> 6, lateness |-> 0,
     required |-> <<1>>, offset |-> <<0, 1>>, latePolicy |-> "drop",
     maxEventsPerWindow |-> 4, horizon |-> 4, maxTracked |-> 4, maxEvents |-> 5, maxStreams |-> 2]

\* Gaps between the windows, two required streams, late events accepted.
Gapped ==
    [Overlapping EXCEPT !.origin = 1, !.window = 2, !.hop = 3, !.lateness = 1,
                        !.required = <<2, 1>>, !.latePolicy = "accept", !.horizon = 2]

\* Late events refused; the limits on windows and on their events are reached.
Strict ==
    [Overlapping EXCEPT !.window = 3, !.hop = 3, !.maxWindows = 3, !.latePolicy = "reject",
                        !.maxEventsPerWindow = 2, !.horizon = 100, !.maxTracked = 3]

Kinds == {<<1, 0, 0>>, <<1, 3, 0>>, <<1, 4, 5>>, <<1, 9, 0>>, <<2, 2, 1>>, <<2, 8, 0>>}

Numbered(kinds) ==
    [n \in DOMAIN kinds |-> [id |-> n, stream |-> kinds[n][1], time |-> kinds[n][2],
                             duration |-> kinds[n][3]]]

Call(c, source, batches, allowances, most) ==
    [config |-> c, source |-> source, batchSizes |-> batches, allowances |-> allowances,
     faults |-> most]

NeverCalled(c) == Call(c, <<>>, {}, {}, 0)

Alone ==
    {<<Call(c, Numbered(kinds), {2}, {3, Everything}, 0), NeverCalled(c)>> :
        c \in {Overlapping, Gapped, Strict}, kinds \in [1 .. 4 -> Kinds]}

Racing(c, kinds) ==
    <<Call(c, Numbered(kinds), {1}, {2, Everything}, 1), Call(c, Numbered(kinds), {2}, {1, Everything}, 1)>>

Forward == <<<<1, 0, 0>>, <<2, 2, 1>>, <<1, 9, 0>>, <<1, 4, 5>>>>

\* The second identifier is released, and sent and dropped again.
DroppedTwice ==
    LET late == [id |-> 2, stream |-> 1, time |-> 0, duration |-> 0]
    IN  <<[late EXCEPT !.id = 1, !.time = 9], late, [late EXCEPT !.id = 3, !.time = 14], late>>

\* More streams than a checkpoint may have.
ThreeStreams == <<<<1, 0, 0>>, <<2, 2, 1>>, <<3, 4, 0>>, <<1, 9, 0>>>>

AllStreams == [Overlapping EXCEPT !.offset = <<0, 1, 0>>]

\* One call at a time, for any number of events, none included.
Cautious(c, source) == <<Call(c, source, {1, 3}, {0, 1, Everything}, 1), NeverCalled(c)>>

\* Calls for no event race with calls for some.
Idling(c, source) ==
    <<Call(c, source, {1}, {0, 2}, 1), Call(c, source, {2}, {0, Everything}, 0)>>

MCTasks ==
    Alone \cup {
        Racing(Overlapping, Forward),
        Racing(Gapped, Forward),
        Racing(Overlapping, <<<<1, 3, 0>>, <<1, 9, 0>>, <<2, 2, 1>>, <<1, 4, 5>>>>),
        \* the same events under another configuration, and a longer source
        <<Call(Overlapping, Numbered(Forward), {2}, {2, Everything}, 1),
          Call(Strict, Numbered(Forward), {2}, {2, Everything}, 1)>>,
        <<Call(Overlapping, Numbered(SubSeq(Forward, 1, 3)), {2}, {2, Everything}, 1),
          Call(Overlapping, Numbered(Forward), {2}, {2, Everything}, 1)>>,
        \* calls for no event, at any position and against others
        Cautious(Overlapping, Numbered(Forward)), Cautious(Gapped, Numbered(Forward)),
        Cautious(Overlapping, <<>>),
        Idling(Overlapping, Numbered(Forward)),
        <<Call(Overlapping, Numbered(Forward), {1}, {0}, 1),
          Call(Strict, Numbered(Forward), {2}, {0, Everything}, 1)>>,
        \* checkpoints that are refused
        Cautious(Overlapping, DroppedTwice),
        Cautious(AllStreams, Numbered(ThreeStreams)),
        \* an identifier that comes twice
        <<Call(Overlapping, <<[id |-> 1, stream |-> 1, time |-> 0, duration |-> 0],
                              [id |-> 1, stream |-> 1, time |-> 1, duration |-> 0]>>, {1}, {1}, 0),
          NeverCalled(Overlapping)>>}

-----------------------------------------------------------------------------

Operators == [pick |-> "filter", total |-> "stateful_map", double |-> "flat_map", odd |-> "map"]

Callbacks(step, value) ==
    CASE step = "pick"   -> value # 2
      [] step = "double" -> <<value, value + 1>>
      [] step = "split"  -> value % 2 = 0
      [] step = "odd"    -> -value

\* The total of a key is dropped when it is large.
Total(step, value, old) ==
    [outputs |-> <<old + value>>, state |-> old + value, retain |-> old + value < 6]

Zero(step) == 0

OneByte(state) == 1

NoExtension(g, tx, n) == [tx |-> tx, batch |-> <<>>]

Line(from, to, way) == [source |-> from, target |-> to, route |-> way]

Limits == [calls |-> 9, records |-> 3, work |-> 20, keys |-> 2, stateBytes |-> 2,
           cells |-> 2, values |-> 1, bytes |-> 4]

Linear ==
    [nodes |-> <<"pick", "total">>, order |-> <<"pick", "total">>,
     kind |-> [pick |-> "step", total |-> "step"],
     entry |-> [S |-> "pick"], edges |-> <<Line("pick", "total", "only")>>,
     incoming |-> [pick |-> <<>>, total |-> <<1>>], outgoing |-> [pick |-> <<1>>, total |-> <<>>],
     limits |-> Limits]

\* Every record comes out of both terminal nodes.
Branching ==
    [nodes |-> <<"odd", "total", "split", "double">>, order |-> <<"double", "split", "odd", "total">>,
     kind |-> [double |-> "step", split |-> "branch", odd |-> "step", total |-> "step"],
     entry |-> [S |-> "double"],
     edges |-> <<Line("double", "split", "only"), Line("split", "total", "true"),
                 Line("split", "odd", "false")>>,
     incoming |-> [double |-> <<>>, split |-> <<1>>, total |-> <<2>>, odd |-> <<3>>],
     outgoing |-> [double |-> <<1>>, split |-> <<2, 3>>, total |-> <<>>, odd |-> <<>>],
     limits |-> Limits]

Nothing ==
    [nodes |-> <<>>, order |-> <<>>, kind |-> <<>>, entry |-> <<>>, edges |-> <<>>,
     incoming |-> <<>>, outgoing |-> <<>>, limits |-> Limits]

Keyed(keys) == [i \in DOMAIN keys |-> [value |-> i, key |-> keys[i]]]

NoFlow == [graph |-> Nothing, source |-> <<>>, slices |-> <<{}, {}>>, pages |-> {},
           wal |-> FALSE, faults |-> 0]

MCFlows ==
    {[graph |-> Linear, source |-> Keyed(<<1, 2, 2, 1>>), slices |-> <<{1}, {2, 3}>>,
      pages |-> {2}, wal |-> FALSE, faults |-> 1],
     [graph |-> Branching, source |-> Keyed(<<1, 2, 1>>), slices |-> <<{0, 1}, {2}>>,
      pages |-> {1, 9}, wal |-> TRUE, faults |-> 1],
     \* a third key is one too many
     [graph |-> Linear, source |-> Keyed(<<1, 2, 2, 3>>), slices |-> <<{1, 2}, {3}>>,
      pages |-> {}, wal |-> TRUE, faults |-> 1]}

ASSUME \A f \in Flows : FlowAdmitted(f) /\ RuntimeKept(f)

ASSUME \A tasks \in Tasks :
          /\ TasksAdmitted(tasks)
          /\ \A r \in Resumer : /\ RestoreIsInvisible(tasks[r].config, tasks[r].source)
                               /\ AlignerIsExact(tasks[r].config, tasks[r].source)

Uncalled == [r \in Resumer |-> NeverCalled(Overlapping)]

EitherInit ==
    \/ StoreInit /\ InitOf(NoFlow)
    \/ StoreInitOf(Uncalled) /\ Init

EitherNext ==
    \/ StoreNext /\ UNCHANGED flowVars
    \/ Next /\ UNCHANGED vars

EitherSpec ==
    EitherInit /\ [][EitherNext]_<<vars, flowVars>> /\ StoreFairness /\ Fairness

(***************************************************************************)
(* A commit is one generation and moves on in the source, or closes it, or *)
(* repeats what it found for a call for no event; what was emitted before  *)
(* it stays.                                                               *)
(***************************************************************************)
PrefixOnlyAdvances == StoreOnlyAdvances /\ JournalOnlyAdvances

(***************************************************************************)
(* Processes that start again from what they find committed finish every   *)
(* source that an uninterrupted run would finish, but for the repeated     *)
(* reports and the streams beyond the limit that a checkpoint refuses.     *)
(***************************************************************************)
PrefixCompletes ==
    /\ ResumeCompletes
    /\ flow \notin Refused => JournalCompletes
=============================================================================
