\* Three transfers are enough for a gap before, between and after; a horizon
\* of 5 leaves gaps of every length a duration of 1 to 3 can meet.
CONSTANTS
    Horizon = 5
    Ledgers <- MCLedgers
    Bases <- MCBases
    Durations <- MCDurations
SPECIFICATION Spec
INVARIANTS NotBeforeBase SlotIsFree SlotIsEarliest
