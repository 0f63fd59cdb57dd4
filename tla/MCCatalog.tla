------------------------------ MODULE MCCatalog ------------------------------
(***************************************************************************)
(* Instances of Catalog.  AllVersions has a catalog of one product, a time *)
(* at which there is no file, a file that is not JSON, and a longer        *)
(* catalog whose second product does not decode; any of them but the       *)
(* missing file may be in the image.  GoodVersions has a catalog that      *)
(* decodes and a shorter one.                                              *)
(***************************************************************************)
EXTENDS Catalog

Json(items, good) == [items |-> items, good |-> good, form |-> "json"]
Other(form) == [items |-> <<>>, good |-> 0, form |-> form]

AllVersions == <<Json(<<"p">>, 1), Other("missing"), Other("syntax"), Json(<<"q", "p">>, 1)>>

GoodVersions == <<Json(<<"p", "q">>, 2), Json(<<"p">>, 1)>>
=============================================================================
