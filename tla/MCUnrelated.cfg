\* The success of a third video.
CONSTANTS
    Videos = {v1, v2, v3}
    Threshold = 2
    Window = 2
    Cooldown = 6
    Downloaders = {D}
    Pollers = {P}
SPECIFICATION Spec
PROPERTIES UnrelatedSuccessKeepsOpen
