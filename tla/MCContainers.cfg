SPECIFICATION MCSpec
INVARIANTS TsSafe PlaylistSafe FlvSafe UnitsSafe RecordersSafe Fmp4Safe
\* Streams and files end.
CHECK_DEADLOCK FALSE
