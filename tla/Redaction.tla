------------------------------ MODULE Redaction ------------------------------
(***************************************************************************)
(* redactQueryLiterals: the scan that masks the literals of a query before *)
(* a snapshot of it is stored.  The text is read once, left to right; what *)
(* stands at the position decides what is written and where the scan goes  *)
(* on.  A text is a sequence of symbols, one for each kind of character    *)
(* the scan tells apart.  What is written is held by where it came from:   *)
(* the scan only moves on, so the positions copied and the positions       *)
(* masked, in their order, are the output.                                 *)
(***************************************************************************)
EXTENDS Integers, Sequences, FiniteSetsExt

CONSTANTS Symbols,    \* the kinds of characters
          Literals,   \* the literals an author may write
          Others,     \* the names and placeholders beside them
          Separators, \* the characters that end a token
          Gaps,       \* what an author may write between two tokens
          MaxTokens   \* bound on the tokens of a query

VARIABLES query,    \* the text as its author wrote it
          pieces,   \* its tokens, each with the position where it begins
          length,   \* how much of the text the database returned
          position, \* where the scan is
          mode,     \* "writing", "scan", "quote" (in a string) or "done"
          kept,     \* the positions whose symbols were copied
          masks     \* the positions for which a mask was written

redactionVars == <<query, pieces, length, position, mode, kept, masks>>

Digits == {"0", "1"}
HexDigits == Digits \union {"a", "b", "e"}
StringPrefixes == {"e", "x", "b"}
RadixPrefixes == {"x", "o", "b"}
IdentChars == HexDigits \union StringPrefixes \union RadixPrefixes \union {"w", "_"}
Signs == {"+", "-"}
MantissaChars == Digits \union {".", "_"}
RadixChars == HexDigits \union {"_"}
-----------------------------------------------------------------------------
(***************************************************************************)
(* What a token is, as the author of a query means it.                     *)
(***************************************************************************)

(* A string: a prefix or none, a quote, a text in which quotes are doubled *)
(* (firsts are the first ones of its pairs), and a quote.                  *)
IsStringWith(token, opening, firsts) ==
    /\ opening < Len(token)
    /\ opening = 2 => token[1] \in StringPrefixes
    /\ token[opening] = "'" /\ token[Len(token)] = "'"
    /\ firsts \subseteq (opening + 1)..(Len(token) - 2)
    /\ \A m \in firsts : m + 1 \notin firsts
    /\ \A m \in (opening + 1)..(Len(token) - 1) :
          token[m] = "'" <=> m \in firsts \/ m - 1 \in firsts
IsString(token) ==
    \E opening \in {1, 2} : \E firsts \in SUBSET (1..Len(token)) :
        IsStringWith(token, opening, firsts)

(* The symbols of a delimiter of d symbols occur again at m.               *)
Repeats(token, d, m) == \A k \in 1..d : token[m + k - 1] = token[k]

(* $$ or $tag$, a text in which that does not occur, and the same again.   *)
IsDollarQuotedWith(token, d) ==
    /\ 2 * d <= Len(token)
    /\ token[1] = "$" /\ token[d] = "$"
    /\ \A k \in 2..(d - 1) : token[k] \in IdentChars
    /\ token[2] \notin Digits
    /\ \A m \in (d + 1)..(Len(token) - d + 1) : Repeats(token, d, m) <=> m = Len(token) - d + 1
IsDollarQuoted(token) == \E d \in 2..Len(token) : IsDollarQuotedWith(token, d)

IsRadixNumber(token) ==
    /\ Len(token) > 1
    /\ token[1] = "0" /\ token[2] \in RadixPrefixes
    /\ \A m \in 3..Len(token) : token[m] \in RadixChars

(* A mantissa of some symbols, and an exponent or none.                    *)
IsDecimalWith(token, mantissa) ==
    /\ token[1] \in Digits
    /\ \A m \in 1..mantissa : token[m] \in MantissaChars
    /\ mantissa < Len(token) =>
          /\ token[mantissa + 1] = "e"
          /\ \E mark \in {1, 2} :
                /\ mark = 2 => token[mantissa + 2] \in Signs
                /\ mantissa + mark < Len(token)
                /\ \A m \in (mantissa + mark + 1)..Len(token) : token[m] \in Digits
IsDecimal(token) == \E mantissa \in 1..Len(token) : IsDecimalWith(token, mantissa)

(* A name, qualified or not: no digit begins it or one of its parts.       *)
IsName(token) ==
    /\ token # <<>>
    /\ token[1] \in IdentChars \ Digits
    /\ \A m \in 2..Len(token) :
          /\ token[m] \in IdentChars \union {"."}
          /\ token[m] \in Digits => token[m - 1] \in IdentChars

IsPlaceholderToken(token) ==
    /\ Len(token) > 1
    /\ token[1] = "$"
    /\ \A m \in 2..Len(token) : token[m] \in Digits

ASSUME RedactionAssumption ==
    /\ "end" \notin Symbols
    /\ Literals \union Others \subseteq Seq(Symbols) /\ Separators \subseteq Symbols
    /\ Gaps \subseteq Seq(Separators) \ {<<>>}
    /\ \A token \in Literals :
          IsString(token) \/ IsDollarQuoted(token) \/ IsRadixNumber(token) \/ IsDecimal(token)
    /\ \A token \in Others : IsName(token) \/ IsPlaceholderToken(token)
    /\ Separators \intersect (IdentChars \union {"$", "'", "."}) = {}
    /\ MaxTokens \in Nat

(* What is secret of a literal: all behind what opens it, and of a number  *)
(* all but the sign and the mark of its exponent.                          *)
Secret(token) ==
    CASE token[1] = "$" -> {m \in 1..Len(token) : \E k \in 2..(m - 1) : token[k] = "$"}
      [] token[1] \in Digits ->
            {m \in 1..Len(token) : IsRadixNumber(token) \/ token[m] \notin Signs \union {"e"}}
      [] OTHER -> {m \in 1..Len(token) : \E k \in 1..(m - 1) : token[k] = "'"}
-----------------------------------------------------------------------------
RedactionInit ==
    /\ query \in Gaps \union {<<>>} /\ pieces = {} /\ mode = "writing"
    /\ length = 0 /\ position = 1
    /\ kept = {} /\ masks = {}

(* The author writes a token and what stands behind it.                    *)
Write(token, gap) ==
    /\ mode = "writing"
    /\ Cardinality(pieces) < MaxTokens
    /\ query' = query \o token \o gap
    /\ pieces' = pieces \union {[from |-> Len(query) + 1, token |-> token]}
    /\ UNCHANGED <<length, position, mode, kept, masks>>

(* The database returns the text, or only the beginning its buffer holds,  *)
(* and redactSnapshot hands it to the scan.                                *)
RedactSnapshot(n) ==
    /\ mode = "writing"
    /\ length' = n
    /\ mode' = "scan"
    /\ UNCHANGED <<query, pieces, position, kept, masks>>

At(p) == IF p \in 1..length THEN query[p] ELSE "end"

(* Where the run of characters of chars that starts at p ends.             *)
RunEnd(p, chars) == Min({j \in p..(length + 1) : At(j) \notin chars})

(* The second $ of the delimiter $$ or $tag$ that starts at p.             *)
DelimiterEnd(p) == RunEnd(p + 1, IdentChars)
OpensDollarQuote(p) == At(DelimiterEnd(p)) = "$"

(* Where the delimiter that starts at p occurs again.                      *)
Occurrences(p) ==
    {k \in (DelimiterEnd(p) + 1)..(length - (DelimiterEnd(p) - p)) :
        \A m \in 0..(DelimiterEnd(p) - p) : query[k + m] = query[p + m]}

SkipDollarQuote(p) ==
    IF Occurrences(p) = {} THEN length + 1
    ELSE Min(Occurrences(p)) + (DelimiterEnd(p) - p) + 1

ScanExponent(mantissa) ==
    LET mark == IF At(mantissa + 1) \in Signs THEN 2 ELSE 1
    IN IF At(mantissa) = "e" /\ At(mantissa + mark) \in Digits
       THEN RunEnd(mantissa + mark, Digits)
       ELSE mantissa

ScanNumericLiteral(p) ==
    IF At(p) = "0" /\ At(p + 1) \in RadixPrefixes
    THEN RunEnd(p + 2, RadixChars)
    ELSE ScanExponent(RunEnd(p, MantissaChars))

IsPlaceholder(p) == At(p) = "$" /\ At(p + 1) \in Digits

(* Plausible mistake: an opening delimiter that is never closed is taken   *)
(* for text.                                                               *)
ClosedDollarQuote(p) ==
    At(p) = "$" /\ ~IsPlaceholder(p) /\ OpensDollarQuote(p) /\ Occurrences(p) # {}

IsDollarQuote(p) ==
    At(p) = "$" /\ ~IsPlaceholder(p) /\ OpensDollarQuote(p)

InIdentifier(p) == At(p - 1) \in IdentChars
IsPrefixedString(p) == At(p) \in StringPrefixes /\ ~InIdentifier(p) /\ At(p + 1) = "'"
IsPlainString(p) == At(p) = "'"
IsNumber(p) == At(p) \in Digits /\ ~InIdentifier(p)

(* Plausible mistake: the first quote closes.                              *)
NeverDoubled(p) == FALSE

(* A doubled quote in a string stands for one and does not close it.       *)
IsDoubledQuote(p) == At(p) = "'" /\ At(p + 1) = "'"
-----------------------------------------------------------------------------
(***************************************************************************)
(* One action for each way through the body of the loop.                   *)
(***************************************************************************)
Scanning(at) == mode = at /\ position <= length

(* The symbols from the position to just before next are copied ...        *)
Copy(next) ==
    /\ kept' = kept \union position..(next - 1)
    /\ position' = next
    /\ UNCHANGED <<query, pieces, length, masks>>

(* ... or a mask is written and they are skipped.                          *)
WriteMask(next) ==
    /\ masks' = masks \union {position}
    /\ position' = next
    /\ UNCHANGED <<query, pieces, length, kept>>

SkipPlaceholder ==
    /\ Scanning("scan") /\ IsPlaceholder(position)
    /\ Copy(RunEnd(position + 1, Digits))
    /\ UNCHANGED mode

MaskDollarQuote ==
    /\ Scanning("scan") /\ IsDollarQuote(position)
    /\ WriteMask(SkipDollarQuote(position))
    /\ UNCHANGED mode

MaskPrefixedString ==
    /\ Scanning("scan") /\ IsPrefixedString(position)
    /\ WriteMask(position + 2)
    /\ mode' = "quote"

MaskString ==
    /\ Scanning("scan") /\ IsPlainString(position)
    /\ WriteMask(position + 1)
    /\ mode' = "quote"

MaskNumber ==
    /\ Scanning("scan") /\ IsNumber(position)
    /\ WriteMask(ScanNumericLiteral(position))
    /\ UNCHANGED mode

CopySymbol ==
    /\ Scanning("scan")
    /\ ~(\/ IsPlaceholder(position) \/ IsDollarQuote(position) \/ IsPrefixedString(position)
         \/ IsPlainString(position) \/ IsNumber(position))
    /\ Copy(position + 1)
    /\ UNCHANGED mode

(* The loop of skipSingleQuoteLiteral.                                     *)
SkipInString(next, then) ==
    /\ position' = next
    /\ mode' = then
    /\ UNCHANGED <<query, pieces, length, kept, masks>>

SkipDoubledQuote ==
    Scanning("quote") /\ IsDoubledQuote(position) /\ SkipInString(position + 2, "quote")

CloseString ==
    /\ Scanning("quote") /\ At(position) = "'" /\ ~IsDoubledQuote(position)
    /\ SkipInString(position + 1, "scan")

SkipQuoted ==
    Scanning("quote") /\ At(position) # "'" /\ SkipInString(position + 1, "quote")

TextEndsInString ==
    mode = "quote" /\ position > length /\ SkipInString(position, "scan")

Finish ==
    /\ mode = "scan" /\ position > length
    /\ mode' = "done"
    /\ UNCHANGED <<query, pieces, length, position, kept, masks>>

Scan ==
    \/ SkipPlaceholder \/ MaskDollarQuote \/ MaskPrefixedString \/ MaskString \/ MaskNumber
    \/ CopySymbol \/ Finish
    \/ SkipDoubledQuote \/ CloseString \/ SkipQuoted \/ TextEndsInString

RedactionNext ==
    \/ \E token \in Literals \union Others, gap \in Gaps : Write(token, gap)
    \/ \E n \in 0..Len(query) : RedactSnapshot(n)
    \/ Scan

RedactionSpec == RedactionInit /\ [][RedactionNext]_redactionVars
-----------------------------------------------------------------------------
Last(piece) == piece.from + Len(piece.token) - 1
Places(piece) == piece.from..Last(piece)
IsLiteral(piece) == piece.token \in Literals

(* Of the text that the database returned, every literal that is whole is  *)
(* replaced by one mask, and what is in no literal is copied: quotes in    *)
(* dollar quotes, dollars in strings, prefixes and digits in names, and a  *)
(* text that is cut later on change nothing about it.                      *)
LiteralsAreMasked ==
    mode = "done" =>
        /\ \A piece \in pieces :
              IsLiteral(piece) /\ Last(piece) <= length =>
                  /\ Places(piece) \intersect masks = {piece.from}
                  /\ Places(piece) \intersect kept = {}
        /\ \A p \in 1..length :
              (\A piece \in pieces : IsLiteral(piece) => p \notin Places(piece)) =>
                  p \in kept /\ p \notin masks

(* PostgreSQL and MySQL cut the text of a long query wherever their buffer *)
(* ends.  Wherever that is, nothing secret of a literal is ever copied.    *)
(* Both collectors ask for normalized text, without literals; what is cut  *)
(* here is what escaped that.                                              *)
CutTextLeaksNothing ==
    \A piece \in pieces :
        IsLiteral(piece) =>
            \A m \in Secret(piece.token) : piece.from + m - 1 \notin kept
=============================================================================
