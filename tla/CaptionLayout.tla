----------------------------- MODULE CaptionLayout -----------------------------
(***************************************************************************)
(* The layout of a caption and the warnings about it (captions.ts); of the *)
(* overlaps of cues Timeline tells.                                        *)
(*                                                                         *)
(* A text is a sequence of tokens, [space, width], with words and spaces   *)
(* in turn; the width of a text is the sum of its tokens', that is, of the *)
(* kerning between them nothing is kept, and it breaks only where it is    *)
(* wrapped.  A layout is centred on a place of the canvas; its line height *)
(* and margins are one.                                                    *)
(***************************************************************************)
EXTENDS Integers, Sequences, FiniteSets, FiniteSetsExt

measureText(tokens) ==
    LET width[k \in 0..Len(tokens)] == IF k = 0 THEN 0 ELSE width[k - 1] + tokens[k].width
    IN  width[Len(tokens)]

TrimmedEnd(tokens) ==
    IF tokens # <<>> /\ tokens[Len(tokens)].space THEN SubSeq(tokens, 1, Len(tokens) - 1) ELSE tokens

\* A word that does not fit begins a line, and the spaces before it end one.
PlaceToken(done, token, maximum) ==
    IF done.current # <<>> /\ ~token.space /\ measureText(Append(done.current, token)) > maximum
    THEN [lines |-> Append(done.lines, TrimmedEnd(done.current)), current |-> <<token>>]
    ELSE [lines |-> done.lines, current |-> Append(done.current, token)]

wrapLine(tokens, maximum) ==
    LET done[k \in 0..Len(tokens)] ==
            IF k = 0 THEN [lines |-> <<>>, current |-> <<>>]
            ELSE PlaceToken(done[k - 1], tokens[k], maximum)
        end == done[Len(tokens)]
    IN  Append(end.lines, TrimmedEnd(end.current))

\* Twice the bounds, so that halves are whole.
layoutCue(tokens, maximum, at) ==
    LET lines == wrapLine(tokens, maximum)
        width == Max({measureText(lines[i]) : i \in DOMAIN lines}) + 2
        height == Len(lines) + 2
    IN  [lines |-> lines,
         left |-> 2 * at.x - width, right |-> 2 * at.x + width,
         top |-> 2 * at.y - height, bottom |-> 2 * at.y + height]

\* Outside a canvas, or an area of it, with these edges.
Crosses(layout, area) ==
    \/ layout.left < 2 * area.left \/ layout.right > 2 * area.right
    \/ layout.top < 2 * area.top   \/ layout.bottom > 2 * area.bottom

LayoutWarnings(layout, maximum, canvas, safe) ==
    {w \in {"CAPTION_OVERFLOW", "CAPTION_SAFE_AREA"} :
        \/ /\ w = "CAPTION_OVERFLOW"
           /\ \/ \E i \in DOMAIN layout.lines : measureText(layout.lines[i]) > maximum
              \/ Crosses(layout, canvas)
        \/ w = "CAPTION_SAFE_AREA" /\ Crosses(layout, safe)}

\* A text layer is wrapped only if it says so.
layoutInterTextLines(tokens, maximum, wrap) ==
    IF wrap THEN wrapLine(tokens, maximum) ELSE <<tokens>>

\* The character "...", of width one as every other.
Ellipsis == [space |-> FALSE, width |-> 1]

\* What is left of a line as its last characters are taken away.
Beginnings(line) ==
    {<<>>} \cup UNION {{Append(SubSeq(line, 1, k - 1), [line[k] EXCEPT !.width = w]) : w \in 1..line[k].width}
                         : k \in DOMAIN line}

FitsWithEllipsis(line, maximum) == line = <<>> \/ measureText(line) + Ellipsis.width <= maximum

Shortened(line, maximum) ==
    CHOOSE p \in Beginnings(line) :
        /\ FitsWithEllipsis(p, maximum)
        /\ \A q \in Beginnings(line) : FitsWithEllipsis(q, maximum) => measureText(q) <= measureText(p)

\* The lines drawn of a text layer, one drawtext filter for each.
textLayerFilter(tokens, maximum, style) ==
    LET layout == layoutInterTextLines(tokens, maximum, style.wrap)
        shown  == IF Len(layout) > style.maxLines THEN style.maxLines ELSE Len(layout)
        lines  == SubSeq(layout, 1, shown)
    IN  IF style.overflow = "ellipsis" /\ (Len(layout) > style.maxLines \/ measureText(layout[shown]) > maximum)
        THEN [lines EXCEPT ![shown] = Append(TrimmedEnd(Shortened(@, maximum)), Ellipsis)]
        ELSE lines
-----------------------------------------------------------------------------
Words(tokens) ==
    LET words[k \in 0..Len(tokens)] ==
            IF k = 0 THEN <<>>
            ELSE IF tokens[k].space THEN words[k - 1] ELSE Append(words[k - 1], tokens[k])
    IN  words[Len(tokens)]

WordsOf(lines) ==
    LET words[k \in 0..Len(lines)] == IF k = 0 THEN <<>> ELSE words[k - 1] \o Words(lines[k])
    IN  words[Len(lines)]

\* The words stay, in order; a line is too wide only for a word of its own,
\* and then there is a warning; a line is empty only for leading spaces.
WrappingIsSound(tokens, maximum, at, canvas, safe) ==
    LET layout == layoutCue(tokens, maximum, at)
        lines  == layout.lines
    IN  /\ WordsOf(lines) = Words(tokens)
        /\ \A i \in DOMAIN lines :
             /\ measureText(lines[i]) > maximum =>
                   /\ Len(Words(lines[i])) = 1
                   /\ "CAPTION_OVERFLOW" \in LayoutWarnings(layout, maximum, canvas, safe)
             /\ lines[i] = <<>> => i = 1 /\ (tokens = <<>> \/ tokens[1].space)
        \* What the canvas cuts off the safe area does not hold either.
        /\ Crosses(layout, canvas) =>
             LayoutWarnings(layout, maximum, canvas, safe) = {"CAPTION_OVERFLOW", "CAPTION_SAFE_AREA"}

\* Something is drawn, in no more lines than allowed; what fits is drawn as
\* it is; what does not keeps its beginning, and with an ellipsis the last
\* line fits unless it has nothing else.
TextLayerIsSound(tokens, maximum, style) ==
    LET layout == layoutInterTextLines(tokens, maximum, style.wrap)
        drawn  == textLayerFilter(tokens, maximum, style)
        last   == drawn[Len(drawn)]
    IN  /\ Len(drawn) \in 1..style.maxLines
        /\ \A i \in 1..(Len(drawn) - 1) :
             drawn[i] = layout[i] /\ (measureText(drawn[i]) > maximum => Len(Words(drawn[i])) = 1)
        /\ style.overflow = "ellipsis" => measureText(last) <= maximum \/ last = <<Ellipsis>>
        /\ (Len(layout) <= style.maxLines /\ \A i \in DOMAIN layout : measureText(layout[i]) <= maximum)
             => drawn = layout
================================================================================
