-------------------------- MODULE MCScheduleOutbox --------------------------
EXTENDS ScheduleOutbox, TLC

CONSTANTS f, text

OneJob == {f}
OnePrompt == (f :> text)
SteerMode == (f :> "Steer")

=============================================================================
