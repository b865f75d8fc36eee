----------------------------- MODULE MCAdapters -----------------------------
EXTENDS Adapters

MCQueues == {<<"df">>, <<"duckdb">>, <<"spark-default", "spark-tuned">>,
             <<"spark-tuned", "spark-default">>}
MCTexts == {<<"a", ";", "b">>, <<"--", ";", "a", "; ", "b", ";">>, <<"--">>}
=============================================================================
