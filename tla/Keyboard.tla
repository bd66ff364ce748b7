------------------------------ MODULE Keyboard ------------------------------
(***************************************************************************)
(* The on-screen keyboard (ui/keyboard.py): a ragged grid of three rows of *)
(* characters and a row of special keys, four layers of characters, and    *)
(* the rules a text is accepted by.  It is opened on the name of a         *)
(* configuration by the editor, and on the name and on the password of a   *)
(* network by the Wi-Fi list.  All the characters of a layer are one, the  *)
(* layer's name: a text is a sequence of them.                             *)
(***************************************************************************)
EXTENDS Integers, Sequences, FiniteSetsExt

CONSTANTS
    Chars,      \* the characters there are
    Layers,     \* _LAYER_ORDER
    Columns,    \* the length of a row of characters
    Shortest,   \* PASSWORD_MIN, SSID_MIN, NAME_MIN
    Longest     \* PASSWORD_MAX, SSID_MAX, NAME_MAX

Targets == {"password", "ssid", "config_name"}

ASSUME KeyboardAssumption ==
    /\ "space" \in Chars
    /\ Layers \in Seq(Chars) /\ Layers # <<>>
    /\ Columns \in Nat \ {0}
    /\ {Shortest, Longest} \subseteq [Targets -> Nat \ {0}]

VARIABLES
    screen,     \* App.state
    keyboard    \* App.keyboard_ix

NoKeyboard == [target |-> "none"]

\* KeyboardInteraction: lower case first, and a password is hidden at first.
Keyboard(target, initial, taken) ==
    [target |-> target, text |-> initial, taken |-> taken, layer |-> 1,
     masked |-> target = "password", row |-> 0, col |-> 0, error |-> FALSE]

\* keyboard_rows: what each row has, from the top.
KeysOf(target, row) ==
    IF row < 3 THEN [c \in 1..Columns |-> "char"]
    ELSE <<"layer", "space", "back">>
         \o (IF target = "password" THEN <<"mask">> ELSE <<>>) \o <<"done">>

Keys == KeysOf(keyboard.target, keyboard.row)
Key == Keys[keyboard.col + 1]

\* LEFT and RIGHT go round; the grid ends above and below, and a row of another
\* length is entered where it is in proportion.
KeyboardSide(d) ==
    keyboard' = [keyboard EXCEPT !.col = (@ + d) % Len(Keys)]

KeyboardRow(d) ==
    LET row == Max({0, Min({3, keyboard.row + d})})
        there == Len(KeysOf(keyboard.target, row))
    IN keyboard' = [keyboard EXCEPT
           !.row = row,
           !.col = IF row = keyboard.row THEN @
                   ELSE Min({(@ * there) \div Len(Keys), there - 1})]

\* _type: what would be too long is not typed.
Type(char) ==
    keyboard' = IF Len(keyboard.text) < Longest[keyboard.target]
                THEN [keyboard EXCEPT !.text = Append(@, char), !.error = FALSE]
                ELSE [keyboard EXCEPT !.error = TRUE]

KeyboardTypes ==
    \/ Key = "char" /\ Type(Layers[keyboard.layer])
    \/ Key = "space" /\ Type("space")

KeyboardBackspace ==
    /\ Key = "back"
    /\ keyboard' = [keyboard EXCEPT
           !.text = SubSeq(@, 1, Len(@) - 1), !.error = FALSE]

KeyboardLayer ==
    /\ Key = "layer"
    /\ keyboard' = [keyboard EXCEPT !.layer = (@ % Len(Layers)) + 1, !.error = FALSE]

KeyboardMask ==
    /\ Key = "mask"
    /\ keyboard' = [keyboard EXCEPT !.masked = ~@]

\* _try_done
Acceptable(k) ==
    /\ Len(k.text) \in Shortest[k.target]..Longest[k.target]
    /\ k.text \notin k.taken

KeyboardDone == Key = "done" /\ Acceptable(keyboard)

KeyboardRefuses ==
    /\ Key = "done" /\ ~Acceptable(keyboard)
    /\ keyboard' = [keyboard EXCEPT !.error = TRUE]

\* on_press, for the keys that leave the keyboard open
KeyboardEdits ==
    \/ \E d \in {-1, 1} : KeyboardSide(d) \/ KeyboardRow(d)
    \/ KeyboardTypes \/ KeyboardBackspace \/ KeyboardLayer \/ KeyboardMask
    \/ KeyboardRefuses

-------------------------------------------------------------------------------
\* The cursor is on a key the grid has, and a text is never too long.
KeyboardOK ==
    keyboard = NoKeyboard \/
        /\ keyboard.row \in 0..3
        /\ keyboard.col \in 0..(Len(Keys) - 1)
        /\ keyboard.layer \in DOMAIN Layers
        /\ Len(keyboard.text) <= Longest[keyboard.target]
        /\ keyboard.masked \in BOOLEAN /\ keyboard.error \in BOOLEAN
=============================================================================
