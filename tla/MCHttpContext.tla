---------------------------- MODULE MCHttpContext ----------------------------
(* Values for the runs of HttpContext.                                     *)
EXTENDS HttpContext

\* The engine and the reads fail; local replies and replacements succeed.
EngineFaults == {"headers", "body", "short", "waf"}

\* Bound: under policy "allow", where a stream goes on after every failure, the
\* two bodies have MaxBody positions together.
AllowedBodies ==
  cfg.policy = "allow" => arrived["req"] + arrived["resp"] <= MaxBody
=============================================================================
