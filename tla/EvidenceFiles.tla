---------------------------- MODULE EvidenceFiles ----------------------------
(***************************************************************************)
(* Evidence files from their registration to their detections              *)
(* (ingestion_service, normalization_service, detection_service,           *)
(* evidence_router).                                                       *)
(*                                                                         *)
(* A registration checks hash and id, writes the file, inserts the row and *)
(* commits, and removes the file again if that fails.  Parsing commits     *)
(* three times: the status, the removal of the former events when forced,  *)
(* the new events.  The event identifiers are made from the evidence id,   *)
(* so events stored twice are refused by their unique index.  Requests of  *)
(* several workers overlap, and the process they share can die between any *)
(* two of their commits.                                                   *)
(*                                                                         *)
(* An evidence file stands for one event with one value that is detected.  *)
(***************************************************************************)
EXTENDS Naturals, Sequences, FiniteSets

CONSTANTS Workers,
          Samples,      \* the manifest's evidence ids, in order
          Uploads,      \* generated evidence ids
          Contents,     \* contents of files
          SampleOf,     \* sample id -> its content
          Unreadable,   \* contents the parser refuses
          Classified,   \* contents whose value the taxonomy knows
          MaxRequests,  \* bound on requests
          MaxCrashes,   \* bound on deaths of the process
          None

VARIABLES rows,       \* evidence id -> committed row of evidence_files, or None
          files,      \* evidence ids with a file in the upload directory
          events,     \* evidence ids with their normalized events
          detections, \* evidence id -> detections with and without their event
          pinned,     \* evidence ids whose event a classification refers to
          work,       \* worker -> the request it serves
          requests, crashes,
          clashed,    \* ids a registration gave up after it had written the file
          overlapped  \* ids that two requests parsed or detected at the same time
vars == <<rows, files, events, detections, pinned, work, requests, crashes, clashed, overlapped>>

SampleIds == {Samples[n] : n \in DOMAIN Samples}
Ids == SampleIds \cup Uploads
Idle == [job |-> "idle", id |-> None, content |-> None, rest |-> <<>>, force |-> FALSE,
         known |-> FALSE]

Statuses == {"pending", "parsing", "parsed", "failed"}

hash_exists(c) == \E i \in Ids : rows[i] # None /\ rows[i].content = c
evidence_id_exists(i) == rows[i] # None

Serves(w, job) == work[w].job = job
Request == requests < MaxRequests /\ requests' = requests + 1

-----------------------------------------------------------------------------
Init == /\ rows = [i \in Ids |-> None]
        /\ files = {} /\ events = {} /\ pinned = {}
        /\ detections = [i \in Ids |-> [attached |-> 0, detached |-> 0]]
        /\ work = [w \in Workers |-> Idle]
        /\ requests = 0 /\ crashes = 0
        /\ clashed = {} /\ overlapped = {}

(* Registration *)

\* ingest_file: an upload gets an id of its own; known content is refused (409).
Upload(w, i, c) ==
    /\ Serves(w, "idle") /\ Request
    /\ ~ evidence_id_exists(i) /\ i \notin files /\ \A v \in Workers : work[v].id # i
    /\ ~ hash_exists(c)
    /\ work' = [work EXCEPT ![w] = [Idle EXCEPT !.job = "write", !.id = i, !.content = c]]
    /\ UNCHANGED <<rows, files, events, detections, pinned, crashes, clashed, overlapped>>

\* POST /evidence/load-sample
Load(w) ==
    /\ Serves(w, "idle") /\ Request
    /\ work' = [work EXCEPT ![w] = [Idle EXCEPT !.job = "load", !.rest = Samples]]
    /\ UNCHANGED <<rows, files, events, detections, pinned, crashes, clashed, overlapped>>

\* load_sample_scenario, ingest_from_path: an entry whose id or content is known is
\* skipped, the others are registered one by one, each in a transaction.
NextEntry(w) ==
    /\ Serves(w, "load")
    /\ LET rest == work[w].rest
       IN  work' = [work EXCEPT ![w] =
             IF rest = <<>> THEN Idle
             ELSE LET i == rest[1]
                  IN  IF evidence_id_exists(i) \/ hash_exists(SampleOf[i])
                      THEN [@ EXCEPT !.rest = Tail(rest)]
                      ELSE [@ EXCEPT !.rest = Tail(rest), !.job = "write", !.id = i,
                                     !.content = SampleOf[i]]]
    /\ UNCHANGED <<rows, files, events, detections, pinned, requests, crashes, clashed, overlapped>>

\* Fault: the file is left for after the commit.
WriteLater(w) ==
    /\ Serves(w, "write")
    /\ work' = [work EXCEPT ![w].job = "insert"]
    /\ UNCHANGED <<rows, files, events, detections, pinned, requests, crashes, clashed, overlapped>>

\* store_encrypted_evidence, or the copy to the upload directory: the path is the id's.
Write(w) ==
    /\ Serves(w, "write")
    /\ files' = files \cup {work[w].id}
    /\ work' = [work EXCEPT ![w].job = "insert"]
    /\ UNCHANGED <<rows, events, detections, pinned, requests, crashes, clashed, overlapped>>

\* The row is flushed; the unique index on the id lets one transaction through, others
\* wait until it ends.
Insert(w) ==
    /\ Serves(w, "insert") /\ ~ evidence_id_exists(work[w].id)
    /\ \A v \in Workers : Serves(v, "commit") => work[v].id # work[w].id
    /\ work' = [work EXCEPT ![w].job = "commit"]
    /\ UNCHANGED <<rows, files, events, detections, pinned, requests, crashes, clashed, overlapped>>

\* A row with the id was committed meanwhile, or the provenance or the commit fails: the
\* transaction is rolled back, the file unlinked and the request, with the rest of its
\* entries, given up.
GiveUp(w) ==
    /\ \/ Serves(w, "insert") /\ \A v \in Workers : Serves(v, "commit") => work[v].id # work[w].id
       \/ Serves(w, "commit")
    /\ files' = files \ {work[w].id}
    /\ clashed' = clashed \cup {work[w].id}
    /\ work' = [work EXCEPT ![w] = Idle]
    /\ UNCHANGED <<rows, events, detections, pinned, requests, crashes, overlapped>>

Commit(w) ==
    /\ Serves(w, "commit")
    /\ rows' = [rows EXCEPT ![work[w].id] = [content |-> work[w].content, status |-> "pending"]]
    /\ work' = [work EXCEPT ![w] =
         IF work[w].id \in SampleIds THEN [Idle EXCEPT !.job = "load", !.rest = work[w].rest] ELSE Idle]
    /\ UNCHANGED <<files, events, detections, pinned, requests, crashes, clashed, overlapped>>

-----------------------------------------------------------------------------
(* Parsing *)

Handled(i) == \E v \in Workers : work[v].id = i /\ work[v].job \in {"delete", "store", "detect"}

Overlaps(i) == overlapped' = IF Handled(i) THEN overlapped \cup {i} ELSE overlapped

\* Fault: the status keeps what it says until the events are stored.
BeginUnmarked(w, i, force) ==
    /\ Serves(w, "idle") /\ rows[i] # None /\ (rows[i].status = "parsed" => force) /\ Request
    /\ Overlaps(i)
    /\ work' = [work EXCEPT ![w] = [Idle EXCEPT !.job = IF force THEN "delete" ELSE "store",
                                               !.id = i, !.force = force]]
    /\ UNCHANGED <<rows, files, events, detections, pinned, crashes, clashed>>

\* parse_evidence, one file or each that parse_all_pending finds: a parsed file is left
\* alone unless forced, another one is marked.
Begin(w, i, force) ==
    /\ Serves(w, "idle") /\ rows[i] # None /\ (rows[i].status = "parsed" => force) /\ Request
    /\ Overlaps(i)
    /\ rows' = [rows EXCEPT ![i].status = "parsing"]
    /\ work' = [work EXCEPT ![w] = [Idle EXCEPT !.job = IF force THEN "delete" ELSE "store",
                                               !.id = i, !.force = force]]
    /\ UNCHANGED <<files, events, detections, pinned, crashes, clashed>>

\* Forced: the former events go, detections lose their event.
Delete(w) ==
    LET i == work[w].id
    IN  /\ Serves(w, "delete") /\ i \notin pinned
        /\ events' = events \ {i}
        /\ detections' = [detections EXCEPT ![i] =
             [attached |-> 0, detached |-> @.detached + @.attached]]
        /\ work' = [work EXCEPT ![w].job = "store"]
        /\ UNCHANGED <<rows, files, pinned, requests, crashes, clashed, overlapped>>

Stores(w) == /\ work[w].id \in files \ events
             /\ rows[work[w].id].content \notin Unreadable

Store(w) ==
    /\ Serves(w, "store") /\ Stores(w)
    /\ events' = events \cup {work[w].id}
    /\ rows' = [rows EXCEPT ![work[w].id].status = "parsed"]
    /\ work' = [work EXCEPT ![w] = Idle]
    /\ UNCHANGED <<files, detections, pinned, requests, crashes, clashed, overlapped>>

\* Events that a classification refers to cannot be deleted, the file is missing or
\* not readable, or the events are there already.
Fail(w) ==
    /\ \/ Serves(w, "delete") /\ work[w].id \in pinned
       \/ Serves(w, "store") /\ ~ Stores(w)
    /\ rows' = [rows EXCEPT ![work[w].id].status = "failed"]
    /\ work' = [work EXCEPT ![w] = Idle]
    /\ UNCHANGED <<files, events, detections, pinned, requests, crashes, clashed, overlapped>>

-----------------------------------------------------------------------------
(* Detection *)

\* detect_evidence, one file or each that detect_all_parsed finds; detect_event looks for
\* a detection of the value in the event.
BeginDetect(w, i, force) ==
    /\ Serves(w, "idle") /\ rows[i] # None /\ rows[i].status = "parsed" /\ i \in events
    /\ detections[i] # [attached |-> 0, detached |-> 0] => force
    /\ Request
    /\ Overlaps(i)
    /\ work' = [work EXCEPT ![w] = [Idle EXCEPT !.job = "detect", !.id = i, !.force = force,
                                               !.known = detections[i].attached > 0]]
    /\ UNCHANGED <<rows, files, events, detections, pinned, crashes, clashed>>

\* Fault: a value already detected in the event is detected again.
DetectAgain(w) ==
    LET i == work[w].id
    IN  /\ Serves(w, "detect")
        /\ detections' = IF i \in events THEN [detections EXCEPT ![i].attached = @ + 1] ELSE detections
        /\ pinned' = IF rows[i].content \in Classified /\ i \in events THEN pinned \cup {i} ELSE pinned
        /\ work' = [work EXCEPT ![w] = Idle]
        /\ UNCHANGED <<rows, files, events, requests, crashes, clashed, overlapped>>

\* A new value gets its detection and, if the taxonomy knows it, its classification; an
\* event removed meanwhile makes the transaction fail.
Detect(w) ==
    LET i == work[w].id
        new == ~ work[w].known /\ i \in events
    IN  /\ Serves(w, "detect")
        /\ detections' = IF new THEN [detections EXCEPT ![i].attached = @ + 1] ELSE detections
        /\ pinned' = IF new /\ rows[i].content \in Classified THEN pinned \cup {i} ELSE pinned
        /\ work' = [work EXCEPT ![w] = Idle]
        /\ UNCHANGED <<rows, files, events, requests, crashes, clashed, overlapped>>

\* The process dies: open transactions are rolled back, files written stay.
Crash ==
    /\ crashes < MaxCrashes /\ crashes' = crashes + 1
    /\ \E w \in Workers : ~ Serves(w, "idle")
    /\ work' = [w \in Workers |-> Idle]
    /\ UNCHANGED <<rows, files, events, detections, pinned, requests, clashed, overlapped>>

Next ==
    \/ \E w \in Workers :
         \/ \E i \in Uploads, c \in Contents : Upload(w, i, c)
         \/ Load(w) \/ NextEntry(w) \/ Write(w) \/ Insert(w) \/ GiveUp(w) \/ Commit(w)
         \/ \E i \in Ids, force \in BOOLEAN : Begin(w, i, force) \/ BeginDetect(w, i, force)
         \/ Delete(w) \/ Store(w) \/ Fail(w) \/ Detect(w)
    \/ Crash

Spec == Init /\ [][Next]_vars

-----------------------------------------------------------------------------
TypeOK ==
    /\ rows \in [Ids -> {None} \cup [content : Contents, status : Statuses]]
    /\ files \subseteq Ids /\ events \subseteq Ids /\ pinned \subseteq Ids
    /\ \A w \in Workers : work[w].job \in {"idle", "load", "write", "insert", "commit",
                                          "delete", "store", "detect"}

\* A committed row has its file, through crashes and overlapping registrations, unless a
\* registration of the same id gave up after it wrote the file: two loads of the sample
\* scenario at once, where the loser unlinks the winner's file.
FilesKept == \A i \in Ids : rows[i] # None => i \in files \cup clashed

\* What the status says of the events, when no two requests handled the file at once and
\* none parses it now: those of a parsed file are there, a pending one has none, and a
\* readable file that failed (events pinned or stored before) has lost none.
StatusTellsEvents ==
    \A i \in Ids \ overlapped : (rows[i] # None /\ ~ Handled(i)) =>
        /\ rows[i].status = "parsed" => i \in events
        /\ rows[i].status = "pending" => i \notin events
        /\ rows[i].status = "failed" =>
             i \in events \/ i \in clashed \/ rows[i].content \in Unreadable

\* One request at a time detects a value of an event once, and a classification keeps
\* the event it refers to through every forced parse.
FoundOnce ==
    \A i \in Ids : /\ i \notin overlapped => detections[i].attached <= 1
                   /\ i \in pinned => i \in events /\ detections[i].attached > 0
=============================================================================
