----------------------------- MODULE CauseRules -----------------------------
(***************************************************************************)
(* Three causes of root_cause_rules.yaml over four files: access-control   *)
(* failure (1), the supporting-only "fix not fully verified" (2) and a     *)
(* hardcoded secret (3).                                                   *)
(***************************************************************************)
EXTENDS Integers

TypesInCase == <<"access_event", "gitleaks_report", "api_log", "fixed_log">>
EventsInCase == << {"denied", "endpoint"}, {"generic-api-key"}, {"endpoint", "auth"},
                   {"denied", "elsewhere"} >>
ExposedInCase == << {}, {"api_key", "api_key@source"}, {"api_key"}, {"api_key"} >>
FindingsInCase == <<0, 1, 1, 2>>
TimesInCase == <<60, 8, 10, 40>>

Has(marks, w)     == [kind |-> "has", role |-> "supports", of |-> marks, weight |-> w]
Lacks(role, m, w) == [kind |-> "lacks", role |-> role, of |-> m, weight |-> w]

RuleFile ==
  << [ signals |-> { Has({"access_event"}, 350), Has({"denied"}, 250), Has({"endpoint"}, 120),
                     [kind |-> "near", role |-> "supports", of |-> {"access_event"},
                      weight |-> 100, within |-> 0],
                     [kind |-> "has", role |-> "weakens", of |-> {"elsewhere"}, weight |-> -180],
                     Lacks("contradicts", {"access_event"}, -150),
                     Lacks("contradicts", {"auth"}, -100) },
       boosts |-> {}, required |-> {"access_event"}, cap |-> 850, only |-> FALSE ],
     [ signals |-> { Lacks("supports", {"fixed_log"}, 220), Lacks("supports", {"fixed_scan"}, 150) },
       boosts |-> {}, required |-> {"fixed_log"}, cap |-> 440, only |-> TRUE ],
     [ signals |-> { Has({"api_key"}, 350), Has({"gitleaks_report"}, 250),
                     Has({"generic-api-key"}, 150) },
       boosts |-> {[of |-> {"api_key@source"}, weight |-> 60]},
       required |-> {"gitleaks_report"}, cap |-> 900, only |-> FALSE ] >>

PenaltyFile == [t \in {"access_event", "fixed_log", "gitleaks_report"} |->
                  IF t = "access_event" THEN 80 ELSE 100]
=============================================================================
