------------------------------ MODULE Terminal ------------------------------
(***************************************************************************)
(* What w_print() promises to the threads that print to one device: the    *)
(* characters of a message come out in order, without those of another     *)
(* message between them, and all of them when the print succeeds.          *)
(*                                                                         *)
(* Of what follows in a message after a file accepted only a part of a     *)
(* write, the number of the characters is promised and not which they are. *)
(***************************************************************************)
EXTENDS Integers, Sequences

CONSTANTS
    Threads,
    Messages,
    Chars,      \* the characters of a message
    NoMessage

VARIABLES
    device,     \* the characters that came out, with their print
    printing,   \* per thread, its message
    print,      \* per thread, how many prints it began
    shown,      \* per thread, how many characters of its message came out
    spoilt,     \* per thread, was a write of its message incomplete?
    answer      \* per thread, what its last print came to

vars == <<device, printing, print, shown, spoilt, answer>>

Init ==
    /\ device = <<>>
    /\ printing = [t \in Threads |-> NoMessage]
    /\ print = [t \in Threads |-> 0]
    /\ shown = [t \in Threads |-> 0]
    /\ spoilt = [t \in Threads |-> FALSE]
    /\ answer = [t \in Threads |-> "success"]

Begin(t) ==
    /\ printing[t] = NoMessage
    /\ \E m \in Messages : printing' = [printing EXCEPT ![t] = m]
    /\ print' = [print EXCEPT ![t] = @ + 1]
    /\ answer' = [answer EXCEPT ![t] = "pending"]
    /\ UNCHANGED <<device, shown, spoilt>>

\* The message goes on at the end of the device, right after what it showed.
Continues(t) ==
    shown[t] > 0 => /\ device # <<>>
                    /\ device[Len(device)][1] = <<t, print[t]>>

Show(t) ==
    /\ printing[t] # NoMessage
    /\ answer[t] = "pending"
    /\ ~spoilt[t]
    /\ Continues(t)
    /\ \E n \in 1 .. (Len(Chars[printing[t]]) - shown[t]) :
         /\ device' = device \o [k \in 1 .. n |->
                        <<<<t, print[t]>>, Chars[printing[t]][shown[t] + k]>>]
         /\ shown' = [shown EXCEPT ![t] = @ + n]
    /\ UNCHANGED <<printing, print, spoilt, answer>>

ShowSpoilt(t) ==
    /\ printing[t] # NoMessage
    /\ answer[t] = "pending"
    /\ Continues(t)
    /\ spoilt' = [spoilt EXCEPT ![t] = TRUE]
    /\ Len(device') > Len(device)
    /\ shown' = [shown EXCEPT ![t] = @ + (Len(device') - Len(device))]
    /\ shown'[t] <= Len(Chars[printing[t]])
    /\ SubSeq(device', 1, Len(device)) = device
    /\ \A k \in (Len(device) + 1) .. Len(device') :
         device'[k][1] = <<t, print[t]>>
    /\ UNCHANGED <<printing, print, answer>>

\* A print succeeds only when as many characters as its message has came out.
Answer(t) ==
    /\ printing[t] # NoMessage
    /\ answer[t] = "pending"
    /\ \/ answer' = [answer EXCEPT ![t] = "failure"]
       \/ /\ shown[t] = Len(Chars[printing[t]])
          /\ answer' = [answer EXCEPT ![t] = "success"]
    /\ UNCHANGED <<device, printing, print, shown, spoilt>>

Return(t) ==
    /\ printing[t] # NoMessage
    /\ answer[t] # "pending"
    /\ printing' = [printing EXCEPT ![t] = NoMessage]
    /\ shown' = [shown EXCEPT ![t] = 0]
    /\ spoilt' = [spoilt EXCEPT ![t] = FALSE]
    /\ \/ UNCHANGED answer
       \/ answer' = [answer EXCEPT ![t] = "failure"]
    /\ UNCHANGED <<device, print>>

\* The print could not even start.
Refuse(t) ==
    /\ printing[t] # NoMessage
    /\ shown[t] = 0
    /\ answer[t] = "pending"
    /\ printing' = [printing EXCEPT ![t] = NoMessage]
    /\ answer' = [answer EXCEPT ![t] = "failure"]
    /\ UNCHANGED <<device, print, shown, spoilt>>

Next ==
    \E t \in Threads :
        \/ Begin(t) \/ Show(t) \/ ShowSpoilt(t)
        \/ Answer(t) \/ Return(t) \/ Refuse(t)

Spec == Init /\ [][Next]_vars

=============================================================================
