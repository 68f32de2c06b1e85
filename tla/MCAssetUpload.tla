---------------------------- MODULE MCAssetUpload ----------------------------
(* Instance of AssetUpload for TLC: two confirmations that may name the same *)
(* key, in either table, and two deletes, of the same row or of both.        *)
EXTENDS AssetUpload

CONSTANTS sign, conf1, conf2, del1, del2, k1, k2, form, other

MCKeyKind == [k \in {k1, k2} |-> IF k = k1 THEN "worksheet" ELSE "gallery"]
MCKeyClass == [k \in {k1, k2} |-> form]

Sign(kind) == [op |-> "upload-url", kind |-> kind, class |-> form]
Confirm(kind, class, key) == [op |-> "confirm", kind |-> kind, class |-> class, key |-> key]
Delete(kind, id) == [op |-> "delete", kind |-> kind, id |-> id]

MCCalls ==
  [r \in {sign, conf1, conf2, del1, del2} |->
    CASE r = sign -> {Sign("worksheet")}
      [] r = conf1 -> {Confirm("worksheet", form, k1)}
      [] r = conf2 -> {Confirm(kind, form, k) : kind \in Kind, k \in {k1, k2}}
                          \cup {Confirm("worksheet", other, k1)}
      [] r = del1  -> {Delete("worksheet", conf1)}
      [] r = del2  -> {Delete(kind, id) : kind \in Kind, id \in {conf1, conf2}}]
==============================================================================
