-------------------------------- MODULE Quality --------------------------------
(***************************************************************************)
(* What the quality groups of src/server.rs encode: the profile and the     *)
(* ceiling of each group, the codec and the level its encoder was started   *)
(* with, and what moves them: the settings of the host, the probe, the      *)
(* telemetry and the decode failures of the viewers, the adaptive loops.    *)
(*                                                                         *)
(* A handler of a viewer is a task of several steps: what it reads, tests   *)
(* and writes of a group without a lock, the start of an encoder, which     *)
(* takes seconds under lifecycle_lock, and the assignment. An update of the *)
(* host starts its encoders under the same lock. tune, maintain and the     *)
(* adaptive loop are one step each; the merging and draining within one     *)
(* pass, and the order of the two locks, are in TranscodeGroups.            *)
(*                                                                         *)
(* Bit rates count in 10 kbit/s, and saturate there. The samples of a       *)
(* window are alike. Clocks are left out: what asks for some seconds to     *)
(* pass happens at any later moment.                                       *)
(***************************************************************************)
EXTENDS Naturals, Sequences, FiniteSets, FiniteSetsExt, SequencesExt

CONSTANTS
    Clients,            \* viewers
    Slots,              \* number of group slots
    SourceWidth, SourceHeight,      \* of the captured frames
    Policy, HostCodecs, \* the codec policy and what FFmpeg can encode
    Supported,          \* the codecs of each viewer, as it advertises them
    DeviceGroups,       \* what the encoding device offers: automatic_quality_group_budget
    Settings,           \* what the host may apply
    Probes,             \* [rate, late]: what a bootstrap may report, rate 0 when it timed out
    Windows,            \* [available, lossy, dropped, freezes]: telemetry of 15 seconds
    MaxHandlers,        \* handlers of viewers under way at once
    MaxEvents, MaxLowered,          \* bounds
    None

Codecs   == {"auto", "h264", "h265", "vp8", "vp9"}
Encoders == [codec : Codecs, level : Nat]

\* What the results on this module assume of the constants.
ASSUME QualityAssumption ==
    /\ {Slots, SourceWidth, SourceHeight, DeviceGroups} \subseteq Nat
    /\ {MaxHandlers, MaxEvents, MaxLowered} \subseteq Nat
    /\ Slots > 0 /\ SourceHeight > 0 /\ DeviceGroups > 0
    /\ Policy \in Codecs /\ IsFiniteSet(Clients)
    /\ None \notin Nat \cup Encoders

Groups   == 0 .. Slots - 1
Handlers == 1 .. MaxHandlers

VARIABLES
    applied, updating,  \* ServerState.settings and the update that is under way
    capacity,           \* TranscodeGroups.active_budget
    profile, ceiling,   \* TranscodeGroup.settings and .ceiling
    requested, codec,   \* TranscodeGroup.requested_codec and .codec
    encoder,            \* TranscodeGroup.media: its codec and level, fixed when it starts
    draining,           \* the groups with an encoder that are GroupLifecycle::Draining
    at, settled,        \* ClientGroupState: group_id, last_change 30 seconds ago
    supported, rejected,    \* ClientGroupState: the codecs of the viewer, once it has told
    window,             \* ServerState.viewer_metrics
    task,               \* the handlers under way and their locals
    events, lowered     \* what the bounds count: messages, updates; lowerings

slots   == <<profile, ceiling, requested, codec, encoder, draining>>
viewers == <<at, settled, supported, rejected>>
counts  == <<events, lowered>>
vars    == <<applied, updating, capacity, slots, viewers, window, task, counts>>

(***************************************************************************)
(* Profiles.                                                               *)
(***************************************************************************)
FloorRate == 25
TopRate   == 150000     \* MAX_AUTOMATIC_BITRATE_BPS
Saturated == 429496     \* u32::MAX

StepBelow(steps, value, least) == Max({s \in steps : s < value} \cup {least})
StepAbove(steps, value, most) == Min({s \in steps : s > value /\ s <= most} \cup {most})

LowerHeight(h) == StepBelow({240, 360, 480, 720, 1080, 1440, 2160}, h, 144)
LowerFps(f)    == StepBelow({10, 15, 24, 30, 60}, f, 5)

\* Mutant: a ceiling between two steps is never reached.
HigherFpsInSteps(f, most) == StepBelow({5, 10, 15, 24, 30, 60, 75, 120}, most + 1, f)

HigherFps(f, most) == StepAbove({5, 10, 15, 24, 30, 60, 75, 120}, f, most)
HigherHeight(h, most) == StepAbove({144, 240, 360, 480, 720, 1080, 1440, 2160, 4320}, h, most)

\* 1000 times the square root of the frame rate over 30.
IsRoot(k, f) == k * k * 3 <= 100000 * f /\ (k + 1) * (k + 1) * 3 > 100000 * f
Rates == 1 .. 120
Roots == 0 .. 2000
RootOfRate == [f \in Rates |-> CHOOSE k \in Roots : IsRoot(k, f)]

\* automatic_bitrate_floor
AutomaticFloor(h, f) ==
    IF h >= 1080 THEN Max({1400, (((1400 * h) \div 1080) * RootOfRate[f]) \div 1000})
    ELSE IF h >= 720 THEN (IF f >= 60 THEN 700 ELSE 400)
    ELSE IF h >= 480 THEN 200 ELSE IF h >= 360 THEN 100 ELSE 50

\* automatic_profile_bitrate: in proportion to the pixels per second, rounded at
\* each factor. Heights are multiples of 24 lines.
AutomaticRate(base, h, f) ==
    LET lines(x) == x \div 24
        area(x)  == lines(x) * lines(x)
        pixels   == (base.bitrate * area(h)) \div area(base.height)
        scaled   == (pixels * f) \div base.fps
    IN Min({Max({scaled, AutomaticFloor(h, f), FloorRate}), TopRate})

Lowered(base, p) ==
    LET h == LowerHeight(p.height)
        f == LowerFps(p.fps)
    IN [p EXCEPT !.height = h, !.fps = f,
                 !.bitrate = IF base.automatic THEN AutomaticRate(base, h, f)
                             ELSE Max({(p.bitrate * 3) \div 5, FloorRate})]

\* group_settings: one step of the ladder for each group.
Rungs(s) ==
    LET top == [height |-> s.height, fps |-> s.fps, bitrate |-> s.bitrate,
                automatic |-> s.automatic]
        rung[g \in Groups] == IF g = 0 THEN top ELSE Lowered(top, rung[g - 1])
    IN rung

\* fit_profile_to_delivery_budget. Eight steps go down to 144 lines at 5 pictures.
Fit(top, budget) ==
    LET step[n \in 0 .. 9] ==
            IF n = 0 THEN top
            ELSE LET p == step[n - 1]
                     q == Lowered(top, p)
                 IN IF p.bitrate <= budget THEN p
                    ELSE IF q.height = p.height /\ q.fps = p.fps
                         THEN [p EXCEPT !.bitrate = Min({Max({budget, FloorRate}), @})]
                         ELSE q
    IN step[9]

\* profiles_are_similar: the given number of hundredths apart at most.
Close(a, b, hundredths) ==
    (Max({a, b}) - Min({a, b})) * 100 <= hundredths * Max({a, b, 1})
Similar(p, q) ==
    Close(p.height, q.height, 15) /\ Close(p.fps, q.fps, 15) /\ Close(p.bitrate, q.bitrate, 20)

\* configured_transcode_group_count: what the host asks for, or the device offers.
\* Automatic codecs keep three slots, unless their number is automatic as well.
Budget(s) ==
    LET asked == IF ~s.adaptive THEN 1 ELSE IF s.groups = None THEN DeviceGroups ELSE s.groups
        kept  == IF Policy # "auto" THEN asked
                 ELSE IF s.adaptive /\ s.groups = None THEN Min({asked, DeviceGroups})
                 ELSE Max({asked, 3})
    IN Min({kept, Slots})

(***************************************************************************)
(* Levels: their number, the largest picture, the picture rate and the bit   *)
(* rate, from the smallest. H.264 counts macroblocks, H.265 64 samples.     *)
(***************************************************************************)
H264Levels == <<
    <<31, 3600, 108000, 1400>>,      <<32, 5120, 216000, 2000>>,      <<40, 8192, 245760, 2000>>,
    <<41, 8192, 245760, 5000>>,      <<42, 8704, 522240, 5000>>,      <<50, 22080, 589824, 13500>>,
    <<51, 36864, 983040, 24000>>,    <<52, 36864, 2073600, 24000>>,   <<60, 139264, 4177920, 24000>>,
    <<61, 139264, 8355840, 48000>>,  <<62, 139264, 16711680, 80000>> >>

H265Levels == <<
    <<31, 15360, 518400, 1000>>,     <<40, 34816, 1044480, 1200>>,    <<41, 34816, 2088960, 2000>>,
    <<50, 139264, 4177920, 2500>>,   <<51, 139264, 8355840, 4000>>,   <<52, 139264, 16711680, 6000>>,
    <<60, 557056, 16711680, 6000>>,  <<61, 557056, 33423360, 12000>>, <<62, 557056, 66846720, 24000>> >>

DivUp(a, b) == (a + b - 1) \div b

\* output_dimensions: an even width that keeps the aspect.
Width(h) == 2 * DivUp(DivUp(SourceWidth * h, SourceHeight), 2)

Fits(row, blocks, p) == blocks <= row[2] /\ blocks * p.fps <= row[3] /\ p.bitrate <= row[4]

\* The smallest level for the profile, 0 for a codec without levels, None if there is none.
Required(c, p) ==
    LET pick(table, blocks) ==
            LET fitting == {n \in DOMAIN table : Fits(table[n], blocks, p)}
            IN IF fitting = {} THEN None ELSE table[Min(fitting)][1]
    IN IF c = "h264" THEN pick(H264Levels, DivUp(Width(p.height), 16) * DivUp(p.height, 16))
       ELSE IF c = "h265" THEN pick(H265Levels, DivUp(Width(p.height) * p.height, 64))
       ELSE 0

\* An encoder can be started: an unknown codec and a profile above all levels cannot.
Startable(c, p)  == c # "auto" /\ Required(c, p) # None
NewEncoder(c, p) == [codec |-> c, level |-> Required(c, p)]

running == {g \in Groups : encoder[g] # None}

\* The check an encoder makes when it takes new settings.
Encodable(g) == g \in running /\ Required(encoder[g].codec, profile[g]) \in 0 .. encoder[g].level

(***************************************************************************)
(* Codecs and groups of viewers.                                           *)
(***************************************************************************)
InitialCodec == IF Policy = "auto" THEN "h264" ELSE Policy

\* choose_codec: with no candidate left, the policy itself.
ChooseCodec(told, refused) ==
    LET candidates == IF Policy = "auto" THEN <<"h265", "h264", "vp8", "vp9">> ELSE <<Policy>>
        usable == {n \in DOMAIN candidates :
                      /\ candidates[n] \in (HostCodecs \cup {"vp8", InitialCodec}) \ refused
                      /\ candidates[n] \in told \/ (told = {} /\ candidates[n] = "h264")}
    IN IF usable = {} THEN Policy ELSE candidates[Min(usable)]

\* active_group_ids, primary_group_id
Visible  == {g \in running \ draining : g < capacity}
Primary  == IF Visible = {} THEN 0 ELSE Min(Visible)
Vacant   == {g \in Groups : g < capacity} \ running
Members(g) == {c \in Clients : at[c] = g}

\* group_codec
CodecOf(g) == IF g \in running THEN encoder[g].codec ELSE codec[g]

\* profiles_match_exactly, of the profile and of the ceiling.
Matches(g, c, p, top) == CodecOf(g) = c /\ profile[g] = p /\ ceiling[g] = top

\* The two mutexes, lifecycle_lock and assignments, where they are held for long: while
\* encoders start, and by observe while its encoder starts.
Starting(h)     == task[h] # None /\ task[h].step = "starting"
Replacing       == updating # None /\ updating.new # None
LifecycleFree   == ~Replacing /\ ~\E h \in Handlers : Starting(h)
AssignmentsFree == ~\E h \in Handlers : task[h] # None /\ task[h].kind = "observe"

\* The stream runs and the viewers have connected: ensure_client put them into the
\* primary group, as if long ago.
Init ==
    /\ applied \in Settings /\ updating = None
    /\ capacity = Budget(applied)
    /\ profile = Rungs(applied) /\ ceiling = profile
    /\ codec = [g \in Groups |-> InitialCodec] /\ requested = codec
    /\ Startable(codec[0], profile[0])
    /\ encoder = [g \in Groups |-> IF g = 0 THEN NewEncoder(codec[0], profile[0]) ELSE None]
    /\ draining = {}
    /\ at = [c \in Clients |-> 0]
    /\ settled = [c \in Clients |-> TRUE]
    /\ supported = [c \in Clients |-> {}] /\ rejected = supported
    /\ window = [c \in Clients |-> None]
    /\ task = [h \in Handlers |-> None]
    /\ events = 0 /\ lowered = 0

(***************************************************************************)
(* Telemetry.                                                              *)
(***************************************************************************)
\* More is received than asked of the path: what arrives is what it carries.
Starved(w, rate, percent) == w.available # None /\ w.available * 100 < rate * percent
Unplayable(dropped, freezes) == freezes >= 3 \/ dropped >= 300      \* playback_requires_downgrade
Busy(dropped, freezes) == freezes >= 1 \/ dropped >= 120            \* playback_holds_upgrade

\* What comes from outside is bounded.
Event == events < MaxEvents /\ events' = events + 1

\* update_viewer_metrics_at; None while there are fewer than five visible samples.
Measure(c) ==
    /\ \E w \in Windows \cup {None} : window' = [window EXCEPT ![c] = w]
    /\ Event
    /\ UNCHANGED <<applied, updating, capacity, slots, viewers, task, lowered>>

\* The thirty seconds after a change of the assignment are over.
Settle(c) ==
    /\ ~settled[c]
    /\ settled' = [settled EXCEPT ![c] = TRUE]
    /\ UNCHANGED <<applied, updating, capacity, slots, at, supported, rejected, window, task>>
    /\ UNCHANGED counts

(***************************************************************************)
(* tune, for one group.                                                    *)
(***************************************************************************)
Heard(g) == {c \in Members(g) : settled[c] /\ window[c] # None}

\* Telemetry with fewer samples still counts as that of a member.
Unstable(g) ==
    LET heard    == Heard(g)
        starved  == {c \in heard : Starved(window[c], profile[g].bitrate, 70)}
        lossy    == {c \in heard : window[c].lossy}
        unplayed == {c \in heard : Unplayable(window[c].dropped, window[c].freezes)}
        settledMembers == {c \in Members(g) : settled[c]}
    IN \/ Cardinality(starved) * 10 >= 8 * Cardinality(heard)
       \/ Cardinality(lossy) * 10 >= 6 * Cardinality(heard)
       \/ Cardinality(unplayed) * 2 >= Cardinality(settledMembers)

Stable(g) ==
    LET heard == Heard(g)
    IN /\ \A c \in heard : ~Starved(window[c], profile[g].bitrate, 70) /\ ~window[c].lossy
       /\ ~Busy(MapThenSumSet(LAMBDA c : window[c].dropped, heard),
                MapThenSumSet(LAMBDA c : window[c].freezes, heard))

LoweredTune(p) ==
    LET rate == Max({Min({p.bitrate * 90, Saturated}) \div 100, FloorRate})
    IN IF rate # p.bitrate THEN [p EXCEPT !.bitrate = rate]
       ELSE IF p.fps > 5 THEN [p EXCEPT !.fps = LowerFps(p.fps)]
       ELSE [p EXCEPT !.height = LowerHeight(p.height)]

RaisedTune(p, top) ==
    LET rate == Min({Min({p.bitrate * 110, Saturated}) \div 100, top.bitrate})
    IN IF rate # p.bitrate THEN [p EXCEPT !.bitrate = rate]
       ELSE IF p.fps < top.fps THEN [p EXCEPT !.fps = HigherFps(p.fps, top.fps)]
       ELSE IF p.height < top.height THEN [p EXCEPT !.height = HigherHeight(p.height, top.height)]
       ELSE p

TuneRest == <<applied, updating, capacity, ceiling, requested, codec, encoder, draining, viewers,
              window, task, events>>

Tunes(g) == /\ LifecycleFree /\ AssignmentsFree
            /\ applied.adaptive /\ g \in Visible /\ Heard(g) # {}

TuneDown(g) ==
    /\ Tunes(g) /\ Unstable(g)
    /\ lowered < MaxLowered /\ lowered' = lowered + 1
    /\ profile' = [profile EXCEPT ![g] = LoweredTune(@)]
    /\ UNCHANGED TuneRest

TuneUp(g) ==
    /\ Tunes(g) /\ ~Unstable(g) /\ Stable(g)
    /\ profile' = [profile EXCEPT ![g] = RaisedTune(@, ceiling[g])]
    /\ profile' # profile
    /\ UNCHANGED <<lowered, TuneRest>>

(***************************************************************************)
(* maintain: near-identical groups merge, empty ones drain and end.         *)
(***************************************************************************)
Maintains    == LifecycleFree /\ AssignmentsFree /\ applied.adaptive
maintainRest == <<applied, updating, capacity, profile, ceiling, requested, codec,
                  supported, rejected, window, task, counts>>

Merge(source) ==
    LET similar == {g \in Visible \ {source} :
                       CodecOf(g) = CodecOf(source) /\ Similar(profile[source], profile[g])}
        size(g) == Cardinality(Members(g))
        target  == Max({g \in similar : \A h \in similar : size(g) >= size(h)})
    IN /\ Maintains /\ source \in Visible \ {0} /\ size(source) > 0
       /\ similar # {} /\ size(target) >= size(source)
       /\ at' = [c \in Clients |-> IF at[c] = source THEN target ELSE at[c]]
       /\ settled' = [c \in Clients |-> settled[c] /\ at[c] # source]
       /\ draining' = draining \cup {source}
       /\ UNCHANGED <<encoder, maintainRest>>

\* A group without members has its grace, and ends unless somebody comes.
Drain(g) ==
    /\ Maintains /\ g \in running \ {0} /\ g < capacity
    /\ \/ Members(g) = {} /\ g \notin draining
          /\ draining' = draining \cup {g} /\ UNCHANGED encoder
       \/ Members(g) = {} /\ g \in draining
          /\ draining' = draining \ {g} /\ encoder' = [encoder EXCEPT ![g] = None]
    /\ UNCHANGED <<at, settled, maintainRest>>

Revive(g) ==
    /\ Maintains /\ g \in draining \ {0} /\ g < capacity /\ Members(g) # {}
    /\ draining' = draining \ {g}
    /\ UNCHANGED <<encoder, at, settled, maintainRest>>

(***************************************************************************)
(* Viewers: how their handlers begin.                                      *)
(***************************************************************************)
Assign(c, g) ==
    /\ at' = [at EXCEPT ![c] = g]
    /\ settled' = [settled EXCEPT ![c] = FALSE]

\* What a handler of c that is about the group g knows from the start.
Locals(c, kind, step, g) ==
    [client |-> c, kind |-> kind, step |-> step, preferred |-> g, group |-> g, instead |-> None,
     codec |-> CodecOf(g), top |-> profile[g], fit |-> profile[g], new |-> None, seen |-> None]

\* A handler that needs no further step leaves nothing behind; the others take the
\* first name that is free.
Begins(h, locals) ==
    /\ task[h] = None /\ \A i \in 1 .. h - 1 : task[i] # None
    /\ task' = [task EXCEPT ![h] = locals]

beginRest == <<applied, updating, capacity, window, lowered>>

\* bootstrap: what the probe allows, read from the preferred group.
Bootstrap(c, h) ==
    /\ AssignmentsFree
    /\ Event
    /\ \E probe \in Probes :
          LET covers(g)  == probe.rate * 100 >= profile[g].bitrate * 125
              affordable == {g \in Groups : g < capacity /\ covers(g)}
              preferred  == IF affordable = {} \/ probe.rate = 0 \/ probe.late
                            THEN capacity - 1 ELSE Min(affordable)
              budget     == Max({(probe.rate * 65) \div 100, FloorRate})
          IN Begins(h, [Locals(c, "bootstrap", "select", preferred) EXCEPT
                           !.codec = ChooseCodec(Supported[c], rejected[c]),
                           !.fit = Fit(profile[preferred], budget)])
    /\ UNCHANGED <<slots, viewers, beginRest>>

\* codec_failure: the codec of the group is refused from now on.
CodecFailure(c, h) ==
    LET g       == at[c]
        refused == rejected[c] \cup {CodecOf(g)}
        next    == ChooseCodec(supported[c], refused)
    IN /\ AssignmentsFree /\ Event
       /\ rejected' = [rejected EXCEPT ![c] = refused]
       /\ IF next \in refused THEN UNCHANGED task
          ELSE Begins(h, [Locals(c, "failure", "select", g) EXCEPT !.codec = next])
       /\ UNCHANGED <<slots, at, settled, supported, beginRest>>

\* ensure_client, whenever the status is sent: a viewer of a group that has ended, or is
\* about to, goes to the primary group.
EnsureClient(c) ==
    /\ AssignmentsFree /\ at[c] \notin Visible
    /\ Assign(c, Primary)
    /\ UNCHANGED <<applied, updating, capacity, slots, supported, rejected, window, task, counts>>

\* media_for, when the viewer offers: the same, and the group is activated.
Offer(c, h) ==
    LET g == IF at[c] \in Visible THEN at[c] ELSE Primary
    IN /\ AssignmentsFree /\ Event
       /\ IF g = at[c] THEN UNCHANGED <<at, settled>> ELSE Assign(c, g)
       /\ Begins(h, Locals(c, "offer", "activate", g))
       /\ UNCHANGED <<slots, supported, rejected, beginRest>>

Degraded(c) ==
    \/ Starved(window[c], profile[at[c]].bitrate, 65)
    \/ window[c].lossy
    \/ Unplayable(window[c].dropped, window[c].freezes)
Below(c, gs) == {g \in gs : g > at[c]}
Above(c, gs) == {g \in gs : g < at[c]}
Peers(k)     == {g \in Visible : CodecOf(g) = k}

\* observe, thirty seconds after the last change at the earliest. It holds assignments.
Observing(c) == AssignmentsFree /\ window[c] # None /\ settled[c] /\ Event
observeRest  == <<slots, supported, rejected, beginRest>>

\* A vacant slot below is started for a viewer that is worse off, with what it holds.
ObserveStarts(c, h) ==
    LET g == Min(Below(c, Vacant))
    IN /\ Observing(c) /\ Degraded(c) /\ Below(c, Vacant) # {}
       /\ Begins(h, [Locals(c, "observe", "test", g) EXCEPT
                        !.codec = CodecOf(at[c]), !.seen = window[c]])
       /\ UNCHANGED <<at, settled, observeRest>>

HasHeadroom(w, p) ==
    /\ w.available # None /\ w.available * 100 >= p.bitrate * 125
    /\ ~w.lossy /\ ~Busy(w.dropped, w.freezes)

\* Without one it goes to the next active group of the same codec below; a viewer with
\* headroom to the next above.
Moves(c, k, w, degraded) ==
    LET lower  == Below(c, Peers(k))
        higher == Above(c, Peers(k))
    IN IF degraded /\ lower # {} THEN Assign(c, Min(lower))
       ELSE IF higher # {} /\ HasHeadroom(w, profile[Max(higher)]) THEN Assign(c, Max(higher))
       ELSE UNCHANGED <<at, settled>>

ObserveMoves(c) ==
    /\ Observing(c) /\ ~(Degraded(c) /\ Below(c, Vacant) # {})
    /\ Moves(c, CodecOf(at[c]), window[c], Degraded(c)) /\ at' # at
    /\ UNCHANGED <<task, observeRest>>

(***************************************************************************)
(* Viewers: the steps of a handler.                                        *)
(***************************************************************************)
Doing(h, step) == task[h] # None /\ task[h].step = step
Goes(h, step, group) ==
    task' = [task EXCEPT ![h] = [@ EXCEPT !.step = step, !.group = group, !.new = None]]
Ends(h) == task' = [task EXCEPT ![h] = None]

\* What follows the choice of a group: bootstrap sets its profile.
Chosen(h) == IF task[h].kind = "bootstrap" THEN "shape" ELSE "activate"
taskRest  == <<applied, updating, capacity, supported, rejected, window, counts>>

\* A group that cannot be had: bootstrap goes on with the primary group, observe looks
\* among the active groups of the codec, the others return.
Returns(h, step) == IF task[h].kind = "bootstrap" THEN Goes(h, step, Primary) ELSE Ends(h)
GivesUp(h, step) ==
    LET t == task[h]
    IN /\ Returns(h, step)
       /\ IF t.kind = "observe" THEN Moves(t.client, t.codec, t.seen, TRUE)
          ELSE UNCHANGED <<at, settled>>

\* group_for_codec_profile: the preferred slot if it waits with that codec, or a group
\* that encodes just that, or the first vacant slot.
Select(h) ==
    LET t == task[h]
        matching == {g \in running : Matches(g, t.codec, t.fit, t.top)}
        exact    == matching \cap (Visible \cup {t.preferred})
        tests(g, instead) ==
            task' = [task EXCEPT ![h] =
                        [@ EXCEPT !.step = "test", !.group = g, !.instead = instead]]
    IN /\ Doing(h, "select")
       /\ IF t.preferred \notin running /\ codec[t.preferred] = t.codec
          THEN tests(t.preferred, t.preferred)
          ELSE IF t.preferred \in exact THEN Goes(h, Chosen(h), t.preferred)
          ELSE IF exact # {} THEN Goes(h, Chosen(h), Min(exact))
          ELSE IF Vacant # {} THEN tests(Min(Vacant), None)
          ELSE Returns(h, Chosen(h))
       /\ UNCHANGED <<at, settled, slots, taskRest>>

\* configure_stopped_group: the slot may have got an encoder since, and what is written
\* is not protected from others that write, or start, the same slot.
Test(h) ==
    LET t == task[h]
    IN /\ Doing(h, "test")
       /\ IF t.group \notin running THEN Goes(h, "write", t.group) /\ UNCHANGED <<at, settled>>
          ELSE IF t.instead # None THEN Goes(h, Chosen(h), t.instead) /\ UNCHANGED <<at, settled>>
          ELSE GivesUp(h, Chosen(h))
       /\ UNCHANGED <<slots, taskRest>>

Write(h) ==
    LET t == task[h]
    IN /\ Doing(h, "write")
       /\ profile' = [profile EXCEPT ![t.group] = t.fit]
       /\ ceiling' = [ceiling EXCEPT ![t.group] = t.top]
       /\ requested' = [requested EXCEPT ![t.group] = t.codec]
       /\ codec' = [codec EXCEPT ![t.group] = t.codec]
       /\ Goes(h, Chosen(h), t.group)
       /\ UNCHANGED <<encoder, draining, at, settled, taskRest>>

\* set_group_profile
Shape(h) ==
    LET t == task[h]
    IN /\ Doing(h, "shape")
       /\ profile' = IF t.group \notin running \/ t.group = t.preferred
                     THEN [profile EXCEPT ![t.group] = t.fit] ELSE profile
       /\ Goes(h, "activate", t.group)
       /\ UNCHANGED <<ceiling, requested, codec, encoder, draining, at, settled, taskRest>>

\* activate_group: a group with an encoder needs no lock. Else one is started, with what
\* the slot holds once the lock is had.
Activate(h) ==
    LET t == task[h]
    IN /\ Doing(h, "activate")
       /\ \/ /\ t.group \in running
             /\ IF t.kind = "offer" THEN Ends(h) ELSE Goes(h, "assign", t.group)
             /\ UNCHANGED <<at, settled>>
          \/ /\ t.group \notin running /\ LifecycleFree
             /\ Startable(requested[t.group], profile[t.group])
             /\ task' = [task EXCEPT ![h] = [@ EXCEPT !.step = "starting",
                             !.new = NewEncoder(requested[t.group], profile[t.group])]]
             /\ UNCHANGED <<at, settled>>
          \/ /\ t.group \notin running /\ LifecycleFree
             /\ ~Startable(requested[t.group], profile[t.group])
             /\ GivesUp(h, "assign")
       /\ UNCHANGED <<slots, taskRest>>

\* The encoder is ready; or it failed, or was not ready in time.
Started(h) ==
    LET t == task[h]
    IN /\ Starting(h)
       /\ encoder' = [encoder EXCEPT ![t.group] = t.new]
       /\ codec' = [codec EXCEPT ![t.group] = t.new.codec]
       /\ draining' = draining \ {t.group}
       /\ IF t.kind = "offer" THEN Ends(h) ELSE Goes(h, "assign", t.group)
       /\ UNCHANGED <<profile, ceiling, requested, at, settled, taskRest>>

StartFails(h) ==
    /\ Starting(h)
    /\ GivesUp(h, "assign")
    /\ UNCHANGED <<slots, taskRest>>

\* The assignment, whatever has become of the group.
Assigns(h) ==
    LET t == task[h]
        c == t.client
    IN /\ Doing(h, "assign") /\ (AssignmentsFree \/ t.kind = "observe")
       /\ Assign(c, t.group)
       /\ IF t.kind = "bootstrap"
          THEN /\ supported' = [supported EXCEPT ![c] = Supported[c]]
               /\ rejected' = [rejected EXCEPT ![c] = @ \cap Supported[c]]
          ELSE UNCHANGED <<supported, rejected>>
       /\ Ends(h)
       /\ UNCHANGED <<applied, updating, capacity, slots, window, counts>>

Step(h) == \/ Select(h) \/ Test(h) \/ Write(h) \/ Shape(h)
           \/ Activate(h) \/ Started(h) \/ StartFails(h) \/ Assigns(h)

(***************************************************************************)
(* The host and the bit rate of a single group.                             *)
(***************************************************************************)
NoneNew == [g \in Groups |-> None]

\* reconfigure_locked: every slot gets the rung of the new settings; what is beyond a
\* smaller budget ends and its viewers go to the primary group. Some encoders are new.
Reconfigure(s, new) ==
    LET gone     == IF Budget(s) < capacity THEN {g \in Groups : g >= Budget(s)} ELSE {}
        staying  == {g \in running \ draining : g < Budget(s)}
        fallback == IF staying = {} THEN 0 ELSE Min(staying)
    IN /\ gone = {} \/ AssignmentsFree
       /\ capacity' = Budget(s)
       /\ profile' = Rungs(s) /\ ceiling' = Rungs(s)
       /\ encoder' = [g \in Groups |-> IF g \in gone THEN None
                                       ELSE IF new[g] # None THEN new[g] ELSE encoder[g]]
       /\ codec' = [g \in Groups |-> IF new[g] # None THEN new[g].codec ELSE codec[g]]
       /\ draining' = draining \ gone
       /\ at' = [c \in Clients |-> IF at[c] \in gone THEN fallback ELSE at[c]]
       /\ settled' = [c \in Clients |-> settled[c] /\ at[c] \notin gone]
       /\ UNCHANGED <<requested, supported, rejected, window, task, lowered>>

hostRest == <<capacity, slots, viewers, window, task, lowered>>

\* capture_format_changed, encoder_profile_changed
CaptureChanges(s, t) == s.height # t.height \/ s.fps # t.fps
ProfileChanges(s, t) == s.adaptive # t.adaptive \/ s.groups # t.groups

Renewal(s, restart, undo) ==
    [to |-> s, rungs |-> Rungs(s), restart |-> restart, undo |-> undo, new |-> None]

\* apply_capture_settings: the settings are published first. A capture that cannot be
\* changed is put back, and its encoders are started again.
UpdateBegins(s) ==
    LET capture == CaptureChanges(applied, s)
    IN /\ updating = None /\ Event
       /\ \/ /\ applied' = s
             /\ updating' = Renewal(s, capture \/ ProfileChanges(applied, s), applied)
          \/ /\ capture /\ UNCHANGED applied
             /\ updating' = Renewal(applied, TRUE, None)
       /\ UNCHANGED hostRest

\* Replacements that fail leave the groups as they are, with the previous settings; a
\* capture that was changed is put back and all groups are brought to those settings.
Undo ==
    LET u == updating
    IN /\ applied' = IF u.undo = None THEN applied ELSE u.undo
       /\ updating' = IF u.undo # None /\ CaptureChanges(u.undo, u.to)
                      THEN Renewal(u.undo, TRUE, None) ELSE None
       /\ UNCHANGED <<hostRest, events>>

\* reconfigure_and_restart: first an encoder for each group that stays.
UpdateStarts ==
    LET u    == updating
        kept == {g \in running \ draining : g < Budget(u.to)}
    IN /\ u # None /\ LifecycleFree
       /\ \/ /\ ~u.restart
             /\ Reconfigure(u.to, NoneNew) /\ updating' = None /\ UNCHANGED <<applied, events>>
          \/ /\ u.restart /\ \A g \in kept : Startable(requested[g], u.rungs[g])
             /\ updating' = [u EXCEPT !.new =
                    [g \in Groups |->
                        IF g \in kept THEN NewEncoder(requested[g], u.rungs[g]) ELSE None]]
             /\ UNCHANGED <<applied, events, hostRest>>
          \/ /\ u.restart /\ \E g \in kept : ~Startable(requested[g], u.rungs[g])
             /\ Undo

UpdateFinishes ==
    /\ Replacing
    /\ Reconfigure(updating.to, updating.new)
    /\ updating' = None /\ UNCHANGED <<applied, events>>

UpdateFails == Replacing /\ Undo

\* adaptive_loop, for what all viewers report; its ceiling is the configuration the
\* program was started with.
AdaptRate(configured) ==
    LET heard   == {c \in Clients : window[c] # None}
        bad     == \E c \in heard : window[c].lossy
        rate    == applied.bitrate
        wanted  == IF bad THEN (rate * 3) \div 4 ELSE Min({rate * 11, Saturated}) \div 10
    IN \E aim \in {rate, wanted} :
          LET target == Min({Max({aim, FloorRate}), configured})
          IN /\ LifecycleFree
             /\ ~applied.adaptive /\ applied.automatic
             /\ heard # {} /\ (bad => aim = wanted)
             /\ Max({target, rate}) - Min({target, rate}) >= Max({rate \div 20, 1})
             /\ Event
             /\ applied' = [applied EXCEPT !.bitrate = target]
             /\ Reconfigure([applied EXCEPT !.bitrate = target], NoneNew)
             /\ UNCHANGED updating

(***************************************************************************)
(* The specification.                                                      *)
(***************************************************************************)
Tune     == \E g \in Groups : TuneDown(g) \/ TuneUp(g)
Maintain == \E g \in Groups : Merge(g) \/ Drain(g) \/ Revive(g)
Viewer(c) == Measure(c) \/ Settle(c) \/ EnsureClient(c) \/ ObserveMoves(c)
Handler(h) == Step(h) \/ \E c \in Clients : Bootstrap(c, h) \/ CodecFailure(c, h) \/ Offer(c, h)
                                            \/ ObserveStarts(c, h)
Host == \/ \E s \in Settings : UpdateBegins(s) \/ AdaptRate(s.bitrate)
        \/ UpdateStarts \/ UpdateFinishes \/ UpdateFails

Next == \/ Tune \/ Maintain \/ Host
        \/ \E c \in Clients : Viewer(c)
        \/ \E h \in Handlers : Handler(h)

\* group_adaptive_loop ticks for ever, and the clocks go on. Handlers and updates wait
\* for an encoder until ENCODER_STARTUP_TIMEOUT at most.
Fairness ==
    /\ WF_vars(\E g \in Groups : TuneUp(g))
    /\ WF_vars(\E g \in Groups : Revive(g))
    /\ WF_vars(\E c \in Clients : Settle(c))
    /\ WF_vars(\E h \in Handlers : Step(h))
    /\ WF_vars(UpdateStarts \/ UpdateFinishes \/ UpdateFails)

Spec == Init /\ [][Next]_vars /\ Fairness

(***************************************************************************)
(* Properties.                                                             *)
(***************************************************************************)
\* Profiles no smaller than the last step of the ladder, and settings with such a profile.
Profiles ==
    {p \in [height : Nat, fps : Nat, bitrate : Nat, automatic : BOOLEAN] :
        p.height >= 144 /\ p.fps >= 5 /\ p.bitrate >= FloorRate}
Wishes ==
    {s \in [height : Nat, fps : Nat, bitrate : Nat, automatic : BOOLEAN, adaptive : BOOLEAN,
            groups : (Nat \ {0}) \cup {None}] :
        s.height >= 144 /\ s.fps >= 5 /\ s.bitrate >= FloorRate}

Updates ==
    [to : Wishes, rungs : [Groups -> Profiles], restart : BOOLEAN, undo : Wishes \cup {None},
     new : [Groups -> Encoders \cup {None}] \cup {None}]

Tasks ==
    [client : Clients, kind : {"bootstrap", "failure", "offer", "observe"},
     step : {"select", "test", "write", "shape", "activate", "starting", "assign"},
     preferred : Groups, group : Groups, instead : Groups \cup {None}, codec : Codecs,
     top : Profiles, fit : Profiles, new : Encoders \cup {None}, seen : Windows \cup {None}]

TypeOK ==
    /\ applied \in Wishes /\ updating \in Updates \cup {None}
    /\ capacity \in 1 .. Slots
    /\ profile \in [Groups -> Profiles] /\ ceiling \in [Groups -> Profiles]
    /\ requested \in [Groups -> Codecs] /\ codec \in [Groups -> Codecs]
    /\ encoder \in [Groups -> Encoders \cup {None}] /\ draining \subseteq running
    /\ at \in [Clients -> Groups] /\ window \in [Clients -> Windows \cup {None}]
    /\ task \in [Handlers -> Tasks \cup {None}]

\* Every encoder is started once: no handler comes late and replaces the one that a group
\* got in the meantime. What a viewer receives changes its codec and its level under it
\* only when the host replaces the encoders of all groups.
EncodersStay ==
    [][\A g \in running : encoder'[g] \in {encoder[g], None} \/ UpdateFinishes]_vars

\* The group that everybody falls back to has an encoder, whatever ends or fails.
FallbackServes == 0 \in Visible

\* Nothing is wrong with what any member of the group receives, someone is there and
\* the encoder stays within its level.
Calm(g) ==
    /\ g < capacity /\ Encodable(g) /\ Members(g) # {} /\ \E c \in Members(g) : window[c] # None
    /\ \A c \in Members(g) : window[c] # None =>
          /\ window[c].available = None /\ ~window[c].lossy
          /\ window[c].dropped = 0 /\ window[c].freezes = 0

Recovered(g) ==
    /\ profile[g].bitrate = ceiling[g].bitrate
    /\ profile[g].fps >= ceiling[g].fps /\ profile[g].height >= ceiling[g].height

\* Whatever pressure lowered it, and in whatever order bit rate, pictures per second
\* and lines went, a group whose viewers stay calm is back at its ceiling: in every
\* mix of settings, bootstraps, moves and merges before.
ClimbsBack == \A g \in Groups : <>[](Calm(g) /\ applied.adaptive) => <>[]Recovered(g)

\* A group that climbs back stays within the level its encoder was started with and
\* its viewers agreed to; the encoder refuses what is beyond it, and ends.
ClimbStaysEncodable == [][\A g \in Groups : TuneUp(g) /\ Encodable(g) => Encodable(g)']_vars

================================================================================
