--------------------------------- MODULE Forms ---------------------------------
(***************************************************************************)
(* What the layers that an input passes have in common: the schema of the  *)
(* form in the browser, the schema its API client and its proxy route      *)
(* parse with, and the DTO of the backend's controller.  A schema is a     *)
(* record of sets: the values accepted of each field, texts trimmed.  Of a *)
(* text only the length matters, of a phone number how many digits it has, *)
(* of a date how many days it lies after today; amounts are in thousandths *)
(***************************************************************************)
EXTENDS Integers, FiniteSets, FiniteSetsExt, TLC

\* A field that is left empty, and an address no layer takes for one.
Blank == -99
Malformed == -98

Required(most) == 1 .. most
Optional(most) == {Blank} \union 1 .. most
OrBlank(values) == {Blank} \union values

PastOrToday == -9 .. 0

\* formatUsPhoneNumber: digits beyond the tenth are dropped.
formatUsPhoneNumber(digits) == Min({digits, 10})
Phone == {10}
Vin == {17}

\* What Number.isInteger(value * 100) accepts: in floating point 0.29 * 100 is
\* not 29.  Below two units these are all such amounts, above it the only
\* one that the models use is a sum of additional costs, 12.34 + 20.
WholeCents ==
    LET inexact == {7, 14, 3234} \union 28 .. 29 \union 55 .. 58 \union 109 .. 116
    IN  {m \in Nat : m % 10 = 0 /\ m \div 10 \notin inexact}

\* What IsNumber({ maxDecimalPlaces: 2 }) and the patterns of inputs accept.
TwoDecimals == {m \in Nat : m % 10 = 0}

\* What parse() of a schema accepts: v may leave fields out.
Fits(schema, v) ==
    DOMAIN v \subseteq DOMAIN schema /\ \A f \in DOMAIN v : v[f] \in schema[f]

\* Fields that hold a choice or a yes or no, never compared with Blank.
ChoiceFields == {"status", "paymentMethod", "currency", "refundType", "cmpt", "quoteCurrency",
            "shippingStatus", "role", "hasActual", "replacementStatus"}

\* The fields of v that are not empty.
Given(v) == {f \in DOMAIN v : f \in ChoiceFields \/ v[f] # Blank}

Only(v, fields) == [f \in fields |-> v[f]]

\* Choosing a year or a make empties the model.
VehicleTyped(f, v) ==
    IF f \in {"vehicleYear", "vehicleMake"} THEN [v EXCEPT !.vehicleModel = Blank] ELSE v

\* What a user types: texts around the limit, amounts, phone numbers, dates.
Texts(most) == {Blank, 1, most, most + 1}
Amounts == {Blank, 0, 290, 12345, 20000}
Phones == {Blank, 9, 10}
Vins == {Blank, 16, 17}
Dates == {Blank, 0, 1}
=============================================================================
