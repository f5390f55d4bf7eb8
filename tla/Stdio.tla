------------------------------- MODULE Stdio -------------------------------
(***************************************************************************)
(* printf and itoa of libc/stdio/stdio.cpp.  printf walks over a format    *)
(* that ends with NUL and takes an argument for each conversion; itoa puts *)
(* the digits of a number into temp, the last one first, and then reverses *)
(* them.  A call is a sequence of steps, one for each round of a loop.     *)
(*                                                                         *)
(* Characters are strings of one character.  A machine word has 2 * Half   *)
(* values: %u, %x and %p pass an unsigned number through an int32_t.       *)
(***************************************************************************)
EXTENDS Integers, Sequences, SequencesExt

CONSTANTS
  Half,           \* 2^31: the numbers an int32_t does not reach begin here
  BufferSize,     \* the 32 bytes of temp and of buffer
  Calls           \* the calls: pairs of a format and its arguments

VARIABLES
  at,             \* where printf is: "idle", "format", "digits", "reverse" or "done"
  format, args,   \* what is left of the format, and of the arguments
  out,            \* what has been written to the terminal
  num, base,      \* the parameters of itoa
  value, is_negative, temp,
  printed         \* history: the numbers converted, with the base and the numeral of each

stdioVars == <<at, format, args, out, num, base, value, is_negative, temp, printed>>

FormatEnd == "NUL"
Junk == "junk"    \* a byte from outside the table of digits
Percent == "%"

INT_MIN == - Half
MachineWords == INT_MIN .. (2 * Half - 1)

-----------------------------------------------------------------------------
(* Mutants: forms a slip in stdio.cpp could give the definitions below.     *)

WhileLarge(v, b) == v > b
OneTooFar(f) == SubSeq(f, 4, Len(f))

-----------------------------------------------------------------------------
(* A machine word taken as an int32_t. *)
int32_t(n) == IF n >= Half THEN n - 2 * Half ELSE n

(* Division in C goes towards 0. *)
Quotient(a, b) == IF a >= 0 THEN a \div b ELSE - ((- a) \div b)
Remainder(a, b) == a - b * Quotient(a, b)

digits == <<"0", "1", "2", "3", "4", "5", "6", "7", "8", "9", "A", "B", "C", "D", "E", "F">>

Digit(d) == IF d \in 0 .. 15 THEN digits[d + 1] ELSE Junk

(* What the digits ds, read behind the number n, make of it. *)
DigitValue(c) == (CHOOSE d \in DOMAIN digits : digits[d] = c) - 1
ReadOn(n, ds, b) ==
  LET read[i \in 0 .. Len(ds)] ==
        IF i = 0 THEN n ELSE b * read[i - 1] + DigitValue(ds[i])
  IN  read[Len(ds)]

(* temp has room for the digits of the largest number, 2^31, its sign and  *)
(* the NUL; the formats are C strings.                                     *)
ASSUME StdioAssumption ==
  /\ Half \in Nat \ {0} /\ BufferSize \in Nat \ {0}
  /\ Half < ReadOn(1, [i \in 1 .. (BufferSize - 2) |-> "0"], 10)
  /\ \A c \in Calls : c[1] \in Seq(STRING) /\ FormatEnd \notin ToSet(c[1])

(* -value overflows for INT_MIN.  The compiler may keep the bits, or count *)
(* on the result being positive and divide as if it were unsigned.         *)
Negated(v) == IF v = INT_MIN THEN {INT_MIN, Half} ELSE {- v}

StdioInit ==
  /\ at = "idle"
  /\ format = << >> /\ args = << >> /\ out = << >>
  /\ num = 0 /\ base = 10 /\ value = 0 /\ is_negative = FALSE /\ temp = << >>
  /\ printed = << >>

ItoaIdle == UNCHANGED <<num, base, value, is_negative, temp, printed>>

printf ==
  /\ at = "idle" /\ at' = "format"
  /\ \E c \in Calls : format' = Append(c[1], FormatEnd) /\ args' = c[2]
  /\ UNCHANGED out /\ ItoaIdle

-----------------------------------------------------------------------------
(* One round of the loop of printf *)

Rest(f) == SubSeq(f, 2, Len(f))

(* Behind "%" and its letter; a "%" before the NUL takes the NUL for the   *)
(* letter, and the loop goes on behind it.                                 *)
AfterConversion(f) == SubSeq(f, 3, Len(f))

Literal ==
  /\ Head(format) # Percent
  /\ out' = Append(out, Head(format))
  /\ format' = Rest(format)
  /\ UNCHANGED <<at, args>> /\ ItoaIdle

Conversion(letters) ==
  /\ Head(format) = Percent /\ format[2] \in letters
  /\ format' = AfterConversion(format)

PercentSign ==
  /\ Conversion({Percent})
  /\ out' = Append(out, Percent)
  /\ UNCHANGED <<at, args>> /\ ItoaIdle

NumberLetters == {"d", "u", "x", "p"}
TextLetters == {"s", "c"}
Letters == NumberLetters \cup TextLetters \cup {Percent}

(* A string or a character is passed on as it is. *)
Text ==
  /\ Conversion(TextLetters)
  /\ out' = out \o Head(args) /\ args' = Tail(args)
  /\ UNCHANGED at /\ ItoaIdle

OtherLetter ==
  /\ Head(format) = Percent /\ format[2] \notin Letters
  /\ format' = AfterConversion(format)
  /\ out' = out \o <<Percent, format[2]>>
  /\ UNCHANGED <<at, args>> /\ ItoaIdle

(* %x and %p write "0x" before they call itoa. *)
Number ==
  /\ Conversion(NumberLetters)
  /\ at' = "digits"
  /\ num' = Head(args) /\ args' = Tail(args)
  /\ base' = IF format[2] \in {"x", "p"} THEN 16 ELSE 10
  /\ out' = IF base' = 16 THEN out \o <<"0", "x">> ELSE out
  /\ is_negative' = (base' = 10 /\ int32_t(num') < 0)
  /\ value' \in IF is_negative' THEN Negated(int32_t(num')) ELSE {int32_t(num')}
  /\ temp' = << >> /\ UNCHANGED printed

Return ==
  /\ at' = "done"
  /\ UNCHANGED <<format, args, out>> /\ ItoaIdle

(* The NUL, or what lies behind it, which ends the model of the call. *)
printfRound ==
  /\ at = "format"
  /\ IF format \in {<< >>, <<FormatEnd>>} THEN Return
     ELSE Literal \/ PercentSign \/ Text \/ OtherLetter \/ Number

-----------------------------------------------------------------------------
(* itoa *)

MoreDigits(v, b) == v > 0

itoaDigit ==
  /\ at = "digits"
  /\ value' = Quotient(value, base)
  /\ LET more == MoreDigits(value', base)
         put == Append(temp, Digit(Remainder(value, base)))
     IN  /\ at' = IF more THEN "digits" ELSE "reverse"
         /\ temp' = IF ~ more /\ is_negative THEN Append(put, "-") ELSE put
  /\ UNCHANGED <<format, args, out, num, base, is_negative, printed>>

itoaReverse ==
  /\ at = "reverse" /\ at' = "format"
  /\ out' = out \o Reverse(temp)
  /\ printed' = Append(printed, [num |-> num, base |-> base, numeral |-> Reverse(temp)])
  /\ UNCHANGED <<format, args, num, base, value, is_negative, temp>>

Leave ==
  /\ at = "done" /\ at' = "idle"
  /\ format' = << >> /\ args' = << >> /\ out' = << >>
  /\ num' = 0 /\ base' = 10 /\ value' = 0 /\ is_negative' = FALSE /\ temp' = << >>
  /\ printed' = << >>

StdioNext == printf \/ printfRound \/ itoaDigit \/ itoaReverse \/ Leave

-----------------------------------------------------------------------------
(* Properties *)

(* What printf and itoa touch stays inside its arrays: temp and, with its  *)
(* NUL, the numeral in the buffer of printf (stdio.cpp:20, 55), and the    *)
(* format, which is read up to the NUL and not behind it unless its last   *)
(* character is "%" (stdio.cpp:58-104).                                    *)
StdioTypeOK ==
  /\ at \in {"idle", "format", "digits", "reverse", "done"}
  /\ Len(temp) + 1 <= BufferSize
  /\ at = "done" => format = <<FormatEnd>> \/ (out # << >> /\ Last(out) = FormatEnd)
  /\ base \in {10, 16} /\ is_negative \in BOOLEAN
  /\ value \in INT_MIN .. Half /\ num \in MachineWords

(* Each conversion finds an argument of its kind: printf takes them in step *)
(* with the letters of the format (stdio.cpp:58-96), and the callers owe it *)
(* one for each; va_arg would read what was never passed.                   *)
ArgumentsFit ==
  at = "format" /\ Len(format) > 1 /\ format[1] = Percent =>
    /\ format[2] \in NumberLetters => args # << >> /\ Head(args) \in MachineWords
    /\ format[2] \in TextLetters => args # << >> /\ Head(args) \in Seq(STRING)

(* The number a numeral stands for. *)
Reads(numeral, b) ==
  LET signed == Head(numeral) = "-"
      magnitude == ReadOn(0, IF signed THEN Tail(numeral) ELSE numeral, b)
  IN  IF signed THEN - magnitude ELSE magnitude

(* What printf prints for a number reads back as that number, without a    *)
(* leading zero: %d for all but INT_MIN, and %u, %x and %p exactly for     *)
(* those up to INT_MAX (stdio.cpp:18-45).  A larger one, such as the CR0   *)
(* that vmm_enable prints with its top bit set (paging.cpp:108), does not: *)
(* in base 16 the loop ends after one digit, in base 10 there is a minus.  *)
NumeralsReadBack ==
  \A i \in DOMAIN printed :
    LET p == printed[i]
        right == /\ Junk \notin ToSet(p.numeral)
                 /\ Reads(p.numeral, p.base) = p.num
                 /\ p.numeral[1] = "0" => Len(p.numeral) = 1
    IN  /\ p.num \in (IF p.base = 10 THEN INT_MIN + 1 ELSE 0) .. (Half - 1) => right
        /\ p.num >= Half => ~ right
=============================================================================
