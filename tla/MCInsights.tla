----------------------------- MODULE MCInsights -----------------------------
(* MCInsights: one request at a time, two tables, time for statistics to   *)
(* grow old twice. MCInsightsOverlap: two requests and one table.          *)
EXTENDS Insights
=============================================================================
