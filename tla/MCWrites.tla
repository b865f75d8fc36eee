------------------------------ MODULE MCWrites ------------------------------
EXTENDS Writes

\* Six rows, one or more in every bucket the scripts select by.  With the
\* offsets 1 and 2 the key that INSERT makes of row 1 and the key that the feed
\* makes of row 2 are both 9.
MCKeys == 1..6
SourceHash == <<30, 500, 7, 3, 17, 101>>
MCHash == [k \in 1..200 |->
    CASE k \in MCKeys -> SourceHash[k]
      [] k = 12 -> 17     \* deleted once inserted
      [] k = 15 -> 60     \* inserted again
      [] OTHER  -> 31]

MCRuns == [w \in {"crud", "merge_cdc", "update_delete", "optimize",
                  "synthetic", "parquet_view", "csv_to_delta"} |->
    CASE w = "merge_cdc"                   -> 3
      [] w \in {"update_delete", "optimize"} -> 1
      [] OTHER                               -> 2]
=============================================================================
