\* Two days of retention, a pass three times a day
SPECIFICATION Spec
CONSTANTS
    DayLength = 3
    Retention = 6
    MaxNow = 12
INVARIANT DaysStayCounted
