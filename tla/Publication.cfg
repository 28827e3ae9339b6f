SPECIFICATION MCSpec
CONSTANTS
    Id = {"k", "l"}
    NoId = "none"
    Zones <- Plain
PROPERTIES
    
    PublicationReadsBack
    AlarmHasCause
    SilenceIsTrue
