--------------------------- MODULE EvidenceOfIncident ---------------------------
(***************************************************************************)
(* What is made of an incident's evidence: the exposure profiles combined  *)
(* from its classified values, and the evidence files themselves.  The two *)
(* share no table, and each is an instance with variables of its own.      *)
(***************************************************************************)

CONSTANTS Workers, LiveAlerts, Categories, Rules, MaxOccurrences, MaxDeploys,
          MaxProfileReviews, None,
          Samples, Uploads, Contents, SampleOf, Unreadable, Classified, MaxRequests, MaxCrashes

VARIABLES rows, profiles, linked, ruleset, work, lock, clock, deploys, changes, refreshed,
          registered, stored, parsed, detections, pinned, handling, requests, crashes,
          clashed, overlapped

Exposures == INSTANCE ExposureProfiles WITH
    Alerts <- LiveAlerts, MaxReviews <- MaxProfileReviews

Store == INSTANCE EvidenceFiles WITH
    rows <- registered, files <- stored, events <- parsed, work <- handling

exposureVars == <<rows, profiles, linked, ruleset, work, lock, clock, deploys, changes, refreshed>>
filesVars    == <<registered, stored, parsed, detections, pinned, handling, requests, crashes,
                  clashed, overlapped>>

\* Overlapping requests leave the profiles the incident's rows call for, pointers
\* between profiles end, and values are combined only when they came together
\* (exposure_profile_service, privacy_ingestion_pipeline_service).
ProfilesSettle    == Exposures!ProfilesSettle
CombinedTogether  == Exposures!CombinedTogether

\* A registered file is there, its status tells of its events, and a value is detected
\* once (ingestion_service, normalization_service, detection_service).
FilesKept         == Store!FilesKept
StatusTellsEvents == Store!StatusTellsEvents
FoundOnce         == Store!FoundOnce
=============================================================================
