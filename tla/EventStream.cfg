SPECIFICATION StreamSpec
CONSTANTS
  Window = 2
  StreamPage = 2
  RecentPage = 3
  MaxEvents = 5
  MaxBreaks = 2
PROPERTIES
  StreamResumes
  EventsArrive
CHECK_DEADLOCK FALSE
