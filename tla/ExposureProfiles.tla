-------------------------- MODULE ExposureProfiles --------------------------
(***************************************************************************)
(* Classified values of one incident and the exposure profiles combined    *)
(* from them (exposure_profile_service, privacy_ingestion_pipeline_service,*)
(* sensitive_data_classification_service).                                 *)
(*                                                                         *)
(* A scanner import or a detection writes rows and recalculates the        *)
(* profiles in one transaction; linking an alert brings the alert's rows   *)
(* into the incident and recalculates too.  Requests overlap: what one has *)
(* written the others see when it commits.  A request that writes rows     *)
(* holds the ledger's lock from its first audit record on, the             *)
(* recalculation locks the incident and writes its own audit record after: *)
(* the two orders can deadlock, and the database aborts a request then     *)
(* (Abort).                                                                *)
(*                                                                         *)
(* The categories a rule asks for stand for its other conditions of the    *)
(* same kind too (groups of categories, the status of a credential).       *)
(***************************************************************************)
EXTENDS Naturals, FiniteSets, Sequences, SequencesExt

CONSTANTS Workers, Alerts, Categories,
          Rules,          \* ruleset version -> rule name -> what the rule asks for
          MaxOccurrences, \* bound on scans, detections and live events
          MaxDeploys,     \* bound on changes of the rule files
          MaxReviews,     \* bound on reviews of profiles
          None

VARIABLES rows,      \* sensitive_data_classifications, in order of creation
          profiles,  \* exposure_profiles, in order of creation
          linked,    \* alerts with a linked_incident_id
          ruleset,   \* version of the rules the processes have loaded
          work,      \* worker -> the request it serves
          lock,      \* holder of the incident's row, of the ledger's lock
          clock, deploys, changes, refreshed
vars == <<rows, profiles, linked, ruleset, work, lock, clock, deploys, changes, refreshed>>

\* changes counts what happened to the incident's rows, or to the rules, without
\* a recalculation; refreshed is the count the last recalculation had seen.

Idle == [job |-> None, rows |-> <<>>, alert |-> None, candidates |-> {}, seen |-> 0]

Versions == DOMAIN Rules

-----------------------------------------------------------------------------
(* The rules *)

\* _classification_key: what a live event says before it has evidence has no
\* detection, evidence or incident in its key, only the value it saw.  The order of the
\* rows of one event tells nothing.
NewRows(table, found) ==
    SetToSeq({found[n] : n \in {m \in DOMAIN found :
                                  \A k \in DOMAIN table : table[k].key # found[m].key}})

\* A row that comes with an alert gets its incident_id when the alert is linked.  An
\* alert is linked once: a row that comes later stays outside the incident.
Row(c, key, alert, group) == [category |-> c, key |-> key, alert |-> alert, group |-> group,
                              seen |-> clock + 1, outside |-> alert \in linked]

InIncident(table, alerts) ==
    {n \in DOMAIN table : /\ table[n].alert = None \/ table[n].alert \in alerts
                          /\ ~table[n].outside}

Matches(rule, categories) ==
    /\ rule.all \subseteq categories
    /\ rule.any # {} => rule.any \cap categories # {}
    /\ rule.excluded \cap categories = {}
    /\ Cardinality(categories) >= rule.least

\* Fault: all the rows of the incident are one group.
CandidatesAcross(table, alerts, version) ==
    LET ids == InIncident(table, alerts)
    IN  {[rule |-> r, group |-> <<"incident", 0>>, ids |-> ids, version |-> version] :
           r \in {q \in DOMAIN Rules[version] :
                    Matches(Rules[version][q], {table[n].category : n \in ids})}}

\* evaluate_exposure_profiles, with _profile_key: rows are combined within a group.
Candidates(table, alerts, version) ==
    LET ids == InIncident(table, alerts)
        Members(g) == {n \in ids : table[n].group = g}
    IN  {k \in {[rule |-> r, group |-> g, ids |-> Members(g), version |-> version] :
                  r \in DOMAIN Rules[version], g \in {table[n].group : n \in ids}} :
           Matches(Rules[version][k.rule], {table[n].category : n \in k.ids})}

\* _logical_profile_key
Logical(key) == <<key.rule, key.group>>

\* recalculate_profiles: a candidate's profile is found by its key, or made, and is
\* current; one it takes over from points to it; one with no candidate left is not
\* current and points nowhere.
Recalculated(candidates) ==
    LET fresh == SetToSeq(candidates \ {profiles[n].key : n \in DOMAIN profiles})
        all == profiles \o [n \in DOMAIN fresh |->
                 [key |-> fresh[n], current |-> FALSE, superseded |-> 0, review |-> "pending"]]
        Heirs(n) == {m \in DOMAIN all : /\ all[m].key \in candidates
                                        /\ Logical(all[m].key) = Logical(all[n].key)}
    IN  [n \in DOMAIN all |->
           CASE all[n].key \in candidates ->
                  [all[n] EXCEPT !.current = TRUE, !.superseded = 0]
             [] all[n].key \notin candidates /\ all[n].current ->
                  [all[n] EXCEPT !.current = FALSE,
                                 !.superseded = IF Heirs(n) = {} THEN 0
                                                ELSE CHOOSE m \in Heirs(n) : TRUE]
             [] OTHER -> all[n]]

-----------------------------------------------------------------------------
Init == /\ rows = <<>> /\ profiles = <<>> /\ linked = {}
        /\ ruleset = 1
        /\ work = [w \in Workers |-> Idle]
        /\ lock = [incident |-> None, ledger |-> None]
        /\ clock = 0 /\ deploys = 0 /\ changes = 0 /\ refreshed = 0

Occurs == clock < MaxOccurrences /\ clock' = clock + 1

\* import_scanner_payload and detect_event, for evidence of the incident: every value
\* found gets a row, grouped by the evidence or by the event it came with; the first
\* audit record takes the ledger's lock.
Classify(w, found) ==
    /\ work[w] = Idle /\ lock.ledger = None
    /\ Occurs
    /\ \E kind \in {"evidence", "event"} :
         work' = [work EXCEPT ![w] = [Idle EXCEPT
           !.job = "classify",
           !.rows = [n \in 1..Len(found) |->
                       Row(found[n], <<kind, clock + 1, found[n]>>, None, <<kind, clock + 1>>)]]]
    /\ lock' = [lock EXCEPT !.ledger = w]
    /\ UNCHANGED <<rows, profiles, linked, ruleset, deploys, changes, refreshed>>

\* create_or_link_incident, on an alert nobody links or appends to at the moment.
BeginLink(w, x) ==
    /\ work[w] = Idle /\ x \notin linked
    /\ \A v \in Workers : work[v].alert # x
    /\ work' = [work EXCEPT ![w] = [Idle EXCEPT !.job = "link", !.alert = x]]
    /\ UNCHANGED <<rows, profiles, linked, ruleset, lock, clock, deploys, changes, refreshed>>

\* POST .../exposure-profiles/recalculate
BeginRecalculate(w) ==
    /\ work[w] = Idle
    /\ work' = [work EXCEPT ![w] = [Idle EXCEPT !.job = "recalculate"]]
    /\ UNCHANGED <<rows, profiles, linked, ruleset, lock, clock, deploys, changes, refreshed>>

ReadBy(w) ==
    [work EXCEPT ![w] = [@ EXCEPT
       !.job = "commit",
       !.candidates = Candidates(rows \o work[w].rows, linked \cup {work[w].alert}, ruleset),
       !.seen = changes]]

\* Fault: the incident is not locked.
ReadUnlocked(w) ==
    /\ work[w].job \notin {None, "commit"}
    /\ work' = ReadBy(w)
    /\ UNCHANGED <<rows, profiles, linked, ruleset, lock, clock, deploys, changes, refreshed>>

\* The incident is locked, then the committed rows and the request's own are read.
Read(w) ==
    /\ work[w].job \notin {None, "commit"} /\ lock.incident = None
    /\ lock' = [lock EXCEPT !.incident = w]
    /\ work' = ReadBy(w)
    /\ UNCHANGED <<rows, profiles, linked, ruleset, clock, deploys, changes, refreshed>>

Released(w) == [part \in DOMAIN lock |-> IF lock[part] = w THEN None ELSE lock[part]]

\* Profiles, audit record (hence the ledger's lock) and commit.
Commit(w) ==
    /\ work[w].job = "commit" /\ lock.ledger \in {None, w}
    /\ rows' = rows \o work[w].rows
    /\ linked' = linked \cup ({work[w].alert} \ {None})
    /\ profiles' = Recalculated(work[w].candidates)
    /\ refreshed' = work[w].seen
    /\ work' = [work EXCEPT ![w] = Idle]
    /\ lock' = Released(w)
    /\ UNCHANGED <<ruleset, clock, deploys, changes>>

\* A request fails, or the database ends it for a deadlock: nothing of it stays.
Abort(w) ==
    /\ work[w] # Idle
    /\ work' = [work EXCEPT ![w] = Idle]
    /\ lock' = Released(w)
    /\ UNCHANGED <<rows, profiles, linked, ruleset, clock, deploys, changes, refreshed>>

\* A live event of the alert's group: values already classified in a live event get
\* no row.  One that came through the gateway has evidence, and all the rows of its
\* alert are moved to it (attach_alert_classifications), linked or not, with no
\* recalculation.
LiveEvent(x, found) ==
    /\ \A v \in Workers : work[v].alert # x
    /\ lock.ledger = None
    /\ Occurs
    /\ \E gateway \in BOOLEAN :
         LET fresh == NewRows(rows, [n \in 1..Len(found) |->
                        Row(found[n], <<"live", found[n]>>, x, <<"row", clock + 1, n>>)])
             all == rows \o fresh
         IN  /\ rows' = [n \in DOMAIN all |->
                        IF gateway /\ all[n].alert = x
                        THEN [all[n] EXCEPT !.group = <<"event", clock + 1>>] ELSE all[n]]
             /\ changes' = IF gateway /\ x \in linked THEN changes + 1 ELSE changes
    /\ UNCHANGED <<profiles, linked, ruleset, work, lock, deploys, refreshed>>

\* review_profile: once.
Review(n) ==
    /\ profiles[n].review = "pending"
    /\ Cardinality({m \in DOMAIN profiles : profiles[m].review # "pending"}) < MaxReviews
    /\ \E decision \in {"accepted", "rejected"} :
         profiles' = [profiles EXCEPT ![n].review = decision]
    /\ UNCHANGED <<rows, linked, ruleset, work, lock, clock, deploys, changes, refreshed>>

\* New rule files, or the former ones again, take a restart (load_rules is cached).
Deploy ==
    /\ deploys < MaxDeploys /\ deploys' = deploys + 1
    /\ \A w \in Workers : work[w] = Idle
    /\ ruleset' \in Versions \ {ruleset}
    /\ changes' = changes + 1
    /\ UNCHANGED <<rows, profiles, linked, work, lock, clock, refreshed>>

\* What a scan, a detection or an event finds, in the order of the taxonomy.
Found == {SetToSeq(S) : S \in (SUBSET Categories) \ {{}}}

Next ==
    \/ \E w \in Workers :
         \/ \E found \in Found : Classify(w, found)
         \/ \E x \in Alerts : BeginLink(w, x)
         \/ BeginRecalculate(w) \/ Read(w) \/ Commit(w) \/ Abort(w)
    \/ \E x \in Alerts, found \in Found : LiveEvent(x, found)
    \/ \E n \in DOMAIN profiles : Review(n)
    \/ Deploy

Spec == Init /\ [][Next]_vars

-----------------------------------------------------------------------------
TypeOK ==
    /\ \A n \in DOMAIN rows : /\ rows[n].category \in Categories
                              /\ rows[n].alert \in Alerts \cup {None}
    /\ \A n \in DOMAIN profiles : /\ profiles[n].current \in BOOLEAN
                                  /\ profiles[n].superseded \in 0..Len(profiles)
                                  /\ profiles[n].review \in {"pending", "accepted", "rejected"}
    /\ linked \subseteq Alerts /\ ruleset \in Versions
    /\ \A w \in Workers : work[w].job \in {None, "classify", "link", "recalculate", "commit"}
    /\ lock \in [{"incident", "ledger"} -> Workers \cup {None}]

Current == {profiles[n].key : n \in {m \in DOMAIN profiles : profiles[m].current}}

\* However requests overlap, the incident's current profiles are those its committed
\* rows call for, unless the rows of a linked alert were moved, or the rules changed,
\* since the last recalculation (recalculate_profiles under the incident's lock, in
\* every request that adds rows to the incident).
ProfilesMatchRows ==
    refreshed = changes => Current = Candidates(rows, linked, ruleset)

\* A profile points only to one of its own rule and group, and following the pointers
\* ends: a profile that came back is not still superseded.
SupersessionEnds ==
    \A n \in DOMAIN profiles : profiles[n].superseded # 0 =>
        /\ ~ profiles[n].current
        /\ Logical(profiles[profiles[n].superseded].key) = Logical(profiles[n].key)
        /\ \E k \in DOMAIN profiles :
             /\ profiles[k].superseded = 0
             /\ \E path \in SeqOf(DOMAIN profiles, Len(profiles)) :
                  /\ path # <<>> /\ path[1] = n /\ path[Len(path)] = k
                  /\ \A i \in 1..(Len(path) - 1) : profiles[path[i]].superseded = path[i + 1]

\* What a recalculation leaves is settled: the profiles the rows call for, and pointers
\* that end (recalculate_profiles).
ProfilesSettle == ProfilesMatchRows /\ SupersessionEnds

\* Values are combined only when they came together, in one event or one evidence
\* file, or in events of one alert: a recurrence moves the alert's former rows to
\* the newest event (docs/EXPOSURE_PROFILES.md speaks of the same event only).
CombinedTogether ==
    \A n \in DOMAIN profiles : \A i, j \in profiles[n].key.ids :
        \/ rows[i].seen = rows[j].seen
        \/ rows[i].alert # None /\ rows[i].alert = rows[j].alert
=============================================================================
