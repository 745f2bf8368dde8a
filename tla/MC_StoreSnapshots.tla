--------------------------- MODULE MC_StoreSnapshots ---------------------------
EXTENDS StoreSnapshots

AllDrivers == {"mongodb", "tingodb", "inmemory", "redis", "dynamodb", "azuretable", "elasticsearch"}

\* To the end, and a revision in the middle of the stream.
MCRevMaxs == {-1, 1}

\* Clocks differ for one driver of each way to sort: mongodb and tingodb sort like
\* elasticsearch, azuretable like dynamodb.
OneClock ==
  driver \in {"mongodb", "tingodb", "azuretable"} /\ made' # made => clock' = clock + 1
=============================================================================
