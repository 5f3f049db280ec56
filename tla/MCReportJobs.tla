---------------------------- MODULE MCReportJobs ----------------------------
(* ReportJobs on one report: the kinds of operation that meet in a behaviour. *)
EXTENDS ReportJobs

CONSTANTS r1, s1, s2, h1, h2, c1

MCReports == {r1}
MCSlots == {s1, s2}
MCHandlers == {h1, h2}
MCCrons == {c1}
MCMixes == {{"create", "generate", "edit", "pause"}, {"create", "delete"},
            {"schedule", "pause", "resume", "delete"}}
=============================================================================
