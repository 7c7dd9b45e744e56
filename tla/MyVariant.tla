------------------------------ MODULE MyVariant ------------------------------
(***************************************************************************)
(* MyVariant (Common/MyVariant.cpp): the tagged value of a field or a     *)
(* query parameter, and the equality, order and hash the cache's indexes  *)
(* and conditions use.                                                     *)
(*                                                                         *)
(* A variant is a record [t |-> type, v |-> value].  t is the index of    *)
(* the std::variant alternative (MyValueType).  v is the value for the    *)
(* integer types and bool (0 or 1), twice the value for float and double  *)
(* (so that halves are exact), and for strings and blobs a code whose     *)
(* integer order is the strings' order.  The values used are far below    *)
(* 2^31, where toInt(), toInt64() and toDouble() agree; MathUtils's       *)
(* epsilon of 1e-12 is below a half, so sameFloat() is equality.          *)
(***************************************************************************)
EXTENDS Integers, Sequences, TLC

CONSTANT DoubleMaxCast   \* what (int64_t)numeric_limits<double>::max() gives

\* The conversion is undefined behaviour: the x86-64 instruction gives
\* INT64_MIN, a compiler that folds the constant may saturate to INT64_MAX.
ASSUME DoubleMaxCast \in {"INT64_MIN", "INT64_MAX"}

mvtInt8 == 0
mvtUInt8 == 1
mvtInt16 == 2
mvtUInt16 == 3
mvtInt32 == 4
mvtUInt32 == 5
mvtInt64 == 6
mvtUInt64 == 7
mvtFloat == 8
mvtDouble == 9
mvtString == 10
mvtChar == 11
mvtBool == 12
mvtBlob == 13
mvtNull == 14

\* INT64_MIN and INT64_MAX stand in as -2^30 and 2^30, beyond every value
Int64Bound == 2 ^ 30
DblMaxAsInt64 == IF DoubleMaxCast = "INT64_MIN" THEN -Int64Bound ELSE Int64Bound
\* (int64_t)numeric_limits<double>::min(): the least positive double, 0
DblMinAsInt64 == 0

\* the result compare() stands for by throwing MyException("can't compare")
CantCompare == 2

Variant(t, v) == [t |-> t, v |-> v]

\* isInteger(), isString(), and MathUtils::isInteger on a double
IsIntType(a) == a.t <= mvtUInt64
IsString(a) == a.t \in {mvtString, mvtChar}
Integral(a) == a.v % 2 = 0

Sign(d) == IF d < 0 THEN -1 ELSE IF d = 0 THEN 0 ELSE 1

\* MyVariant::equal
VEqual(a, b) ==
    IF a.t = mvtNull \/ b.t = mvtNull THEN a.t = b.t
    ELSE IF a.t = b.t THEN a.v = b.v
    ELSE IF a.t <= mvtDouble /\ b.t <= mvtDouble
         THEN CASE IsIntType(a) /\ IsIntType(b) -> a.v = b.v
                [] IsIntType(a) -> Integral(b) /\ b.v \div 2 = a.v
                [] IsIntType(b) -> Integral(a) /\ a.v \div 2 = b.v
                [] OTHER -> a.v = b.v
    ELSE IsString(a) /\ IsString(b) /\ a.v = b.v

\* compare() of an integer my against a double of twice the value other2:
\* the two guards against the double range come before the comparison
IntVsDouble(my, other2) ==
    CASE my > DblMaxAsInt64 -> 1
      [] my < DblMinAsInt64 -> -1
      [] OTHER -> Sign(2 * my - other2)

\* MyVariant::compare: NULL first, then the same type, then numbers of
\* different types, then strings; anything else throws
VCompare(a, b) ==
    CASE a.t = mvtNull -> IF b.t = mvtNull THEN 0 ELSE -1
      [] b.t = mvtNull -> 1
      [] a.t = b.t -> IF a.t <= mvtChar THEN Sign(a.v - b.v) ELSE CantCompare
      [] a.t <= mvtDouble /\ b.t <= mvtDouble ->
           CASE IsIntType(a) /\ IsIntType(b) -> Sign(a.v - b.v)
             [] IsIntType(a) -> IntVsDouble(a.v, b.v)
             [] IsIntType(b) -> -IntVsDouble(b.v, a.v)
             [] OTHER -> Sign(a.v - b.v)
      [] IsString(a) /\ IsString(b) -> Sign(a.v - b.v)
      [] OTHER -> CantCompare

\* MyVariant's operator<, <=, > and >=: compare() against 0.  compare()
\* throws where the model gives CantCompare; the values compared in the
\* runs are numbers, which always compare.
VLess(a, b) == VCompare(a, b) < 0
VLessEq(a, b) == VCompare(a, b) <= 0
VGreater(a, b) == VCompare(a, b) > 0
VGreaterEq(a, b) == VCompare(a, b) >= 0

\* MyVariant::hash_value with libstdc++'s hashes: std::hash<int64_t> is
\* the value itself, std::hash<double> hashes the bytes except for 0.0,
\* which it maps to 0.  A hash is a record tagged by the function.
VHash(a) ==
    CASE IsIntType(a) -> [long |-> a.v]
      [] a.t \in {mvtFloat, mvtDouble} ->
           IF a.v = 0 THEN [long |-> 0] ELSE [double |-> a.v]
      [] IsString(a) -> [string |-> a.v]
      [] OTHER -> [long |-> 0]

\* ParamDataType (Common/Common.h): the type byte of a query parameter
pdtString == 1
pdtBool == 2
pdtInt == 3
pdtLong == 4
pdtDouble == 5
pdtBlob == 6

\* the variant alternative each parameter type is read into: readInt()
\* gives an int32_t, readLong() an int64_t, readDouble() a double
PdtVariantType == (pdtString :> mvtString) @@ (pdtBool :> mvtBool)
                  @@ (pdtInt :> mvtInt32) @@ (pdtLong :> mvtInt64)
                  @@ (pdtDouble :> mvtDouble) @@ (pdtBlob :> mvtBlob)

\* one parameter as the stream carries it, [type, null, raw] with raw
\* already in the representation of the type, turned into its variant;
\* a bool is true exactly when its byte is 1
ReadParam(p) ==
    IF p.null THEN Variant(mvtNull, 0)
    ELSE Variant(PdtVariantType[p.type],
                 IF p.type = pdtBool THEN IF p.raw = 1 THEN 1 ELSE 0 ELSE p.raw)

\* SQLContext::readParams: every type byte goes to paramTypes, but a
\* parameter of an unknown type adds nothing to params, so the two
\* vectors then disagree in length and position
ReadParams(s) ==
    [types |-> [i \in DOMAIN s |-> s[i].type],
     params |-> LET known == SelectSeq(s, LAMBDA p : p.null \/ p.type \in DOMAIN PdtVariantType)
                IN [i \in DOMAIN known |-> ReadParam(known[i])]]
====
