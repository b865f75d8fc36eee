----------------------------- MODULE MCFixtures -----------------------------
EXTENDS Fixtures

MCSelections == {<<"tpch">>, <<"ssb", "tpch">>, <<"tpcds">>, <<"job", "ssb">>}
MCScripts == {<<"tpch_parquet", "tpch", "ssb">>, <<"tpcds">>, <<"ssb">>, <<"job">>}
\* title.csv comes first, so that it may be there when others are not.
MCArchiveOrder == <<2, 1>>
=============================================================================
