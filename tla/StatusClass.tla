----------------------------- MODULE StatusClass -----------------------------
(***************************************************************************)
(* How a status is named in the report and counted in its summaries        *)
(* (status_name, classify_status and summary_bucket of cap_logic.h), and   *)
(* what the codes stand for: the plain codes of the status header, the     *)
(* codes vendors form from its ranges, and the ranges as the header itself *)
(* gives them, which are not the same codes.                               *)
(*                                                                         *)
(* A status is a signed 32-bit integer. SAI_STATUS_CODE(x) is -x on the    *)
(* builds this tool is made for, so the plain codes and the codes of the   *)
(* first range have the same high half, 0xFFFF.                            *)
(***************************************************************************)
EXTENDS Integers, Sequences

Unit   == 65536
Limit  == 32767 * Unit + Unit - 1
Status == -Limit .. Limit

SUCCESS         == 0
FAILURE         == -1
NOT_SUPPORTED   == -2
NOT_IMPLEMENTED == -15

-----------------------------------------------------------------------------
(* The documented codes.                                                   *)

\* The plain codes: SAI_STATUS_CODE(i) is called PlainNames[i].
PlainNames ==
  << "FAILURE", "NOT_SUPPORTED", "NO_MEMORY", "INSUFFICIENT_RESOURCES",
     "INVALID_PARAMETER", "ITEM_ALREADY_EXISTS", "ITEM_NOT_FOUND",
     "BUFFER_OVERFLOW", "INVALID_PORT_NUMBER", "INVALID_PORT_MEMBER",
     "INVALID_VLAN_ID", "UNINITIALIZED", "TABLE_FULL",
     "MANDATORY_ATTRIBUTE_MISSING", "NOT_IMPLEMENTED", "ADDR_NOT_FOUND",
     "OBJECT_IN_USE", "INVALID_OBJECT_TYPE", "INVALID_OBJECT_ID",
     "INVALID_NV_STORAGE", "NV_STORAGE_FULL", "SW_UPGRADE_VERSION_MISMATCH",
     "NOT_EXECUTED", "STAGE_MISMATCH" >>

\* The ranges: SAI_STATUS_<name>_0 is SAI_STATUS_CODE(k * Unit).
RangeNames ==
  << "INVALID_ATTRIBUTE", "INVALID_ATTR_VALUE", "ATTR_NOT_IMPLEMENTED",
     "UNKNOWN_ATTRIBUTE", "ATTR_NOT_SUPPORTED" >>

\* "Vendors return SAI_STATUS_ATTR_NOT_SUPPORTED_0 + attribute-index": the code is
\* negative already, so the index counts up, towards the range before.
RangeCode(k, index) == -(k * Unit) + index

\* The header's own ranges, "from 0x00010000L to 0x0001FFFFL" and so on, end in
\* <name>_MAX, which is SAI_STATUS_CODE(k * Unit + 0xFFFF): here they count down.
HeaderCode(k, index) == -(k * Unit + index)

\* What a vendor that forms its codes as above means by one. But for the first
\* code of a range this is not what the header's ranges say.
VendorMeans(status, name) ==
  \/ status = SUCCESS /\ name = "SUCCESS"
  \/ -status \in DOMAIN PlainNames /\ name = PlainNames[-status]
  \/ /\ -status \notin DOMAIN PlainNames
     /\ \E k \in DOMAIN RangeNames :
          /\ status - RangeCode(k, 0) \in 0 .. Unit - 1
          /\ name = RangeNames[k]

-----------------------------------------------------------------------------
(* What the code makes of them.                                            *)

\* The plain codes status_name has a case for; all others are "OTHER".
Recognised == 1 .. 8 \cup 13 .. 15 \cup 17 .. 19

status_name(status) ==
  IF status = SUCCESS THEN "SUCCESS"
  ELSE IF -status \in Recognised THEN PlainNames[-status] ELSE "OTHER"

\* The high 16 bits of status_raw_code.
HighHalf(status) == (status \div Unit) % Unit

\* Both encodings of a range: negated, and as it is.
RangeOf(high) ==
  IF high \in DOMAIN RangeNames THEN RangeNames[high]
  ELSE IF Unit - high \in DOMAIN RangeNames THEN RangeNames[Unit - high]
  ELSE "OTHER"

\* Slip: the ranges are tried before the plain codes.
RangesFirst(status) ==
  IF RangeOf(HighHalf(status)) # "OTHER" THEN RangeOf(HighHalf(status))
                                         ELSE status_name(status)

classify_status(status) ==
  IF status_name(status) # "OTHER" THEN status_name(status)
                                   ELSE RangeOf(HighHalf(status))

\* The bucket an outcome of a fetch is counted in.
summary_bucket(kind, status) ==
  IF kind = "Ok" THEN "ok"
  ELSE IF kind = "Skipped" THEN "skipped_by_tool" ELSE classify_status(status)

===============================================================================
