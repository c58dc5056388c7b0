----------------------------- MODULE MCDelivery -----------------------------
(***************************************************************************)
(* Three rows; the first two have one key, and are not there at one time.  *)
(***************************************************************************)
EXTENDS Delivery

MCFeeds == {"kafka", "query"}
MCKinds == {"kafka", "append", "upsert", "replace", "parquet"}
MCAnswers == {{}, {1}, {2, 3}}
MCKeyOf == <<1, 1, 2>>
=============================================================================
